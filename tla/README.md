# daydayup: specifications and proofs

The repository is a collection of notes with small programs beside them. This
directory holds TLA+ modules that model those programs, TLC configurations that
check them on small instances, and TLAPS proofs of what holds for every instance.

    tlc -workers 2 -config MCEpollEcho.cfg MCEpollEcho
    tlapm PacketFramerProofs.tla

`PROJECT.json` lists the components, runs, mutants (a plausible bug for each
property that the property detects), the map from definitions to source lines,
findings, hazards and theorems.

## 1. Inventory

| component | state | operations | hard behaviour | what makes it correct |
|---|---|---|---|---|
| **TCP unpacker** `src/TCP/code/pac.h`, `test.cpp` | `pr` (remainder of a header), `pd` (packet in the making), `pendingQueue`; file-static | `packet_in`, `packet_out`, `packet_destory` | TCP cuts the stream anywhere; recursion; state that outlives a stream | packets come out whole, in order, once, and at once |
| **epoll server** `src/IO_Multiplexing/epoll/server.cpp` | epoll registrations, batch `v`, map `m` from descriptor to text, descriptor table | accept, read, answer, close | edges, descriptor reuse, clients that leave at any moment, full descriptor table | each client gets the echo of its own last message; nothing leaks; the server survives |
| **select, poll servers** `select/server.cpp`, `poll/server.cpp` | list of descriptors, the set reported | rounds: wait, accept, read and answer, close | the list changes while it is walked; blocking `recv`; garbage `revents` | each message is welcomed; the server reads what is ready only |
| **select, poll clients** | one socket | hello, answer after answer | server leaves | leave too |
| **epoll client** | one socket, `cnt` | hello, counter after counter | edge, then level triggered; server leaves | one answer for each message |
| **fork server and client** `fork/*.cpp` | processes with a copy each of the listening socket and the connection | accept, fork, welcome, read, close | the child stays in the loop; fork fails; two copies of a descriptor | each client is welcomed once or turned away; nothing stays open |
| **blocking socket server and client** `socket/*.cpp` | one connection | accept, welcome, close both sockets | it ends with clients still in its queue, and is started again | nobody waits for a server that is gone |
| **threaded servers** `src/TCP/code/linux_socket/02*`, `03*` | `fdList` shared by two threads | push, iterate, recv, close | data race, entries that outlive their connection | no connection is missed; the one closed is the one read |
| **non-blocking `recv` demo** `01_blockIO.cpp` | one connection at a time | accept, one `recv`, close | data that comes after the only `recv`; a descriptor never closed | what came early enough is read |
| **Kafka producer and consumer** `src/Kafka/code/source` | local queue, delivery reports, broker log, offset | produce with retry, report, flush; consume | queue full, lost and repeated messages, restart | every line typed is accounted for; what was reported is true |
| **WebSocket echo** `src/Websocket/discovery/simple` | a buffer per session, flow control, a counter | receive, write, request a write | buffer reused before it was written; stale `wsi` | each message is echoed once, in order |
| **MySQL demo** `src/MySQL/demo/source` | table `students`, a connection | connect, create, look up, insert, update, select, delete, drop | ignored results, runs that overlap or are cut off, a server that stops | no table stays; the score shown is the one just written |
| **watchdog scripts** `src/Shell/wd.sh`, `ping.sh` | the process table | look, kill, start, note | check-then-act | pings do not pile up; a dead server comes back |
| **`Length`** `src/CMake/CMakeDemo/case2/quantity` | a unit and an amount | compare | unsigned product | equal means equally long |
| shell tutorials, debugging examples, the other CMake demos, Makefile template | – | – | – | – |
| notes, books, headers of librdkafka and MySQL | – | – | not code of this repository | – |

How they interact: the clients of `src/IO_Multiplexing` talk to any one of its
servers over TCP (`README.md:52-67` there); the unpacker is called by the owner
of a TCP connection; producer and consumer meet in the broker's log; runs of the
MySQL demo meet in its table; the watchdog meets whoever else starts processes;
everything else stands alone. Only the threaded servers share memory. Elsewhere the
concurrency is between processes, and between a loop and the kernel or library
that goes on filling sockets and queues while the loop runs. Components in bold
are modelled.

## 2. Modules and the code they model

### The unpacker

* `PacketWire`: the stream. A byte is its offset in the stream, so lost,
  repeated or invented bytes are told apart. `Start` gives the offset of each
  packet's header. `int2byte` and `byte2int` are beside it; a header of the stream
  decodes to its packet's length because of their theorems.
* `PacketStream`: the abstract promise. Bytes are received; whole packets are
  taken in order, unless a piece ended inside a header (`cut`).
* `PacketFramer`: `pac.h`. One action for each piece of control of `packet_in`:
  `PacketIn` (the call), `Enter` (merge the remainder, return on size 0),
  `ReadHeader`, then `NoBody`, `Fill` or `Complete`, the latter going back to
  `Enter` where the code calls itself. `pc` says where the activation stands.
  The recursion is a tail call with nothing on the stack used afterwards, so one
  `pc` is enough. `size` may be negative, as the `int` of the code.
  `packet_out` and `packet_destory` are possible between two calls.

  `Merge` and `Hold` treat `pr` as the code does: `Hold` records how many bytes
  remain and does not store them. What a header made of other bytes than a header
  decodes to is a choice from `JunkLengths`. `InnerBufferSize` is the size of
  `pr->buffer`, 10240 in the code (`pac.h:8`).

### The multiplexing services

* `Tcp` (external): connections as the calls of these programs see them: data,
  end of stream, reset, and the send after a reset that raises `SIGPIPE`; the
  accept queue. Data is readable as soon as it is sent: a delay on the way is a
  delay of the reader, which the interleaving covers. A `send` is never partial:
  messages are a few bytes and the two sides take turns.
* `ClientProcess`, `ReplyClient` (select and poll), `EpollClient`, `AllClients`.
  A client is started, interrupted (`Ctrl+C`, `README.md:24`) and started again
  at any moment. Timeouts of `select` and `poll` only print and change nothing.
* `EpollServer`: one action for each branch of the loop body of
  `epoll/server.cpp`; `events` is the part of `v` still to be handled, in any
  order, because the kernel fixes none. Connections are edge triggered until
  their first `ModFd` and level triggered afterwards; their first event is always
  handled by a `ModFd` or a close, so no edge of theirs is lost and the level
  models both. The listening socket remains edge triggered, which `edge` models.
* `RoundServer`: `select/server.cpp` and `poll/server.cpp`; the variable
  `program` says which one runs. They have the same rounds and differ at the
  descriptor accepted in a round (no bit in `read_fds`, an uninitialised
  `revents`) and at a failed accept (`FD_ISSET(-1)`, which an ordinary build
  takes for a bit nobody looks at and a fortified build aborts on). Between the
  check and the call a client may move: `ready` is remembered, not recomputed.
* `EpollEcho`, `RoundService`: server and clients composed, with the properties.
* `Conversations`: what a service is to each client whatever the others do: they
  talk in turns, the answer is the reply to what this client said last, and
  either may leave. `EpollEcho` implements it with an echo, `RoundService` with a
  welcome.

### The fork and the socket service

* `ForkServer`: `fork/server.cpp` and `socket/server.cpp`; `program` says which one
  runs. `proc` is where each copy of the server stands in its loop, `hold` the
  connection its `accept_fd` refers to. The child goes on in the loop it inherited,
  so each copy has the actions of all. No copy exits and the parent waits for none:
  once `Procs` is used up, `ForkFails`. A connection ends when the last of its
  `Holders` closes. The socket server has the same accept, welcome and close, no
  fork and no `recv`, and ends: `CloseListenFd` closes the connections still in the
  queue. `ListenFd` starts either again while old connections are around, which
  `SO_REUSEADDR` allows.
* `ForkService`: with `fork/client.cpp`, which waits for the welcome, says hello
  and leaves, and `socket/client.cpp`, which says nothing. Interrupting the server
  (`Ctrl+C`) ends every copy.

### The threaded server and the non-blocking demo

* `ThreadedServer`: `02_IO_Multiple.cpp`, whose body `03_select.cpp` repeats, and
  `01_blockIO.cpp`, whose one loop has the same accept and `fcntl` and then a `recv`
  of its own (`RecvOnce`, `RecvOnceNothing`, `CloseOnce`); `program` says which one
  runs. `main` is at `accept`, `fcntl` or within `push_back`, the reader at an entry
  of its pass, in `recv` or before `close`; every two steps interleave. Undefined
  behaviour is a choice: a pass whose range was read during a push, or whose memory
  a push has given back, is `astray`: its next number is any, it ends anywhere, or
  the program crashes (`Crash`). The loads of an empty `fdList` may be hoisted from
  the loop, which has no other effect then: `Lost`. A socket blocks between `accept`
  and `fcntl`: a `recv` that finds nothing on it does not return (`FallAsleep`), and
  is not woken by the `fcntl` of the other thread, only by data or the end.
* `ThreadedService`: with clients that connect, speak and leave (the repository
  has none for these servers).

### The Kafka pipeline

* `RdKafka` (external): the producer's bounded queue, reports that wait to be
  served, the log. A message counts as queued until its report is served. Messages
  may overtake one another, be sent twice (`AnswerLost`) or given up; the request of
  one given up, or deleted with the producer, may still reach the broker
  (`StoreLate`).
* `KafkaProducer`: `producer.cpp`, one action for each branch of the loop;
  `told` is what the program printed about each line. `Retry` is `poll(1000)` and
  the `goto`. `FlushEnds` is possible with messages left: ten seconds are over.
* `KafkaPipeline`: with `consumer.cpp`, which starts at the first offset.
* `Delivery`: the promise. A line may be stored (again and again, and also after it
  was told failed), one that is stored may be told delivered, one that is not told
  may be told failed, and a consumer sees the log from its begin. `KafkaPipeline`
  implements it: what is printed as delivered is in the log, what is refused is not,
  and each line is told one fate at most.

### The WebSocket echo

* `Lws` (external): frames in both directions, requests for a WRITEABLE callback
  and the flow control of what the server receives.
* `EchoServer`: one action for each `case` of `server.c`'s callback, and the loop's
  end. `EchoClient`: the same for `client.c`, with `Ask` for the call at the end of
  each turn of the loop. On a connection that failed or was closed that call uses a
  `wsi` that is `NULL` or freed: `AskStale` crashes, or nothing happens.
* `WebsocketEcho`: both composed.
* `Echoes`: the promise. A session says, hears back what it said first and has not
  heard yet, or ends. `WebsocketEcho` implements it, with the fairness: a session
  that lasts hears each of its messages.

### The MySQL demo

* `MySqlServer` (external): the table `students` as the set of the scores of its one
  row, or `NULL` when there is none; sessions; each statement with the states in
  which it fails. The server may stop and start, which ends the sessions.
* `StudentsTable`: `StudentsTable.cpp`, `MySQLDB.cpp` and `main.cpp`: an action for
  each call of `main`, with the statement it sends. The results are ignored, so each
  action has a way to fail that only goes on.
* `StudentsDemo`: any number of runs that overlap, are interrupted anywhere and
  begin again. `cut` and `shared` are history: what the properties must except.

### The watchdog

* `Watchdog`: `wd.sh`, one action for each command, because every two commands are
  processes of their own. `run.sh` and `server_mini` are not in the repository
  and are modelled from how `wd.sh` uses them: `run.sh` starts `server_mini` and
  `ping.sh`, which has to be why `wd.sh` ends the old `ping.sh` before. `unseen` is
  history: the runs by hand since `wd.sh` knew that there was no `ping.sh`.

### Length

* `Quantity`: `Length.cpp`'s comparison, the product modulo `Modulus` (2^32 in
  the build).

## 3. Runs

| run | instance | shows |
|---|---|---|
| `framer` | bodies of 2, 0 and 1 bytes, pieces of 0 to 11 bytes, 325 thousand states | `Framed`, `Prompt`, `Fits`, `ImplementsStream` hold |
| `framer_cut` | one packet, pieces of 0 to 11 bytes | `AlwaysFramed` fails: finding 1 |
| `epoll_echo` | an epoll and two reply clients, 2 descriptors, accept queue of 1, 1.4 million states | `OneInFlight`, `NoStaleEvent`, `NoSigpipe`, `EndIsSeen`, `NoLostWakeup`, `ImplementsConversations` hold |
| `epoll_live` | two clients, a descriptor for each | `Answered`, `Released` hold |
| `epoll_served` | the same, accept queue as in the code | `EveryoneServed` fails: finding 2 |
| `round_service` | three clients, 2 descriptors | `WatchesOpen`, `ReadsWhatIsReady`, `NoLostWakeup`, `ImplementsConversations`, `Served`, `Released`, `RepliersLeave` hold for both programs |
| `fork_service` | three clients, three copies of the server, or the socket server, 133 thousand states | `CallsOnOpen`, `SharedByPair`, `OneWelcome`, `Attended`, `Released` hold |
| `threaded_service` | two clients, 2 descriptors, 3 pushes, or the demo, 233 thousand states | `BlocksOnReused`, `Listed`, `ClosesWhatItRead`, `Heard`, `HeardIfEarly` hold |
| `kafka` | three lines, a queue of 2, at most 2 repeats, 778 thousand states | `TypeOK`, `OnePlace`, `Accounted`, `Accepted`, `ImplementsDelivery` hold |
| `websocket_echo` | two clients with three messages each, 675 thousand states | `EchoInOrder`, `ImplementsEchoes` hold |
| `students` | three runs, interchangeable, 660 thousand states | `NothingLeft`, `ShowsItsScore` hold |
| `watchdog` | `run.sh` by hand three times, 458 states | `OnePinger`, `Restarted` hold |

**Bounds.** The three bodies of the stream are a packet shorter than a header, an
empty one, and one with which the stream ends; a piece of 11 bytes holds two
packets and the begin of a header, so that the recursion, the hold, the merge and
every cut happen, and `packet_destory` comes in every state. `InnerBufferSize` is
`MaxChunk` + 3, the least that suffices. Three clients on two
descriptors are the least where accept fails and where a number is given again
while another descriptor is in the same batch. `Backlog` is 1 in the safety runs
(the code says 5), which lets a connection request find the queue full. `cnt` is
counted modulo `Wrap` = 2: two successive answers differ; select and poll
servers answer every message alike, so there `Wrap` is 1. In `epoll_live`
there is a descriptor for every client: without one a client waits for another
to leave, which nothing forces. Runs of services say `CHECK_DEADLOCK FALSE` because
a stopped server whose clients have left is a proper end.

Three copies are the least where a child forks, a copy accepts beside another and
`fork` fails with copies waiting in each state. Three pushes let a number be in
`fdList` twice and the vector move twice while it is read; four show nothing new.
Three lines for a queue of two let the third find it
full with each mixture of messages and reports; two repeats duplicate one message
twice or two once. The three messages of a WebSocket client are the code's own.
With three runs of the MySQL demo a table is dropped and made again between two
calls of a third. `MaxByHand` = 3 puts a run by hand into three places of one turn
of the watchdog's loop. Every safety
property of the runs is also proved for any number (section 4).

**Fairness.** Weak fairness of the server's steps and of each client's: they are
sequential processes, and one that can take a step is scheduled in the end.
Nobody must connect, be interrupted, or stop. In the unpacker a call runs to its
end (weak fairness), and a caller that keeps calling comes back to the queue, as
`test.cpp:19` does: `PacketOut` is strongly fair, because it is disabled during
each call. Each copy of the fork server, the end of the socket server (`Finish`),
each thread of the threaded server and
each client is weakly fair; a pass that went astray ends or crashes (strong
fairness), because memory is finite. Kafka's producer and consumer go on while
they run, and the library delivers each message or gives it up, as its timeouts
make it do. The service loops of libwebsockets handle every connection that is
ready, and turn at least once a second (`client.c:107`), so that the client asks
again. `wd.sh` goes on (weak fairness of its step); nobody runs `run.sh` by hand
and no process dies because it has to. The MySQL demo has safety properties only.

**What the properties are about.** `Fits` is the capacity of the inner buffer, which
the code never compares with anything: a merge adds a piece to the remainder of a
header, at most three bytes, also after a cut. `OneInFlight` is the invariant behind
the echo: between a waiting client and its server there is exactly one message, the
client's own last one, although `m` is keyed by descriptor numbers that other
clients had before. `NoStaleEvent` is why the loop over `v` may close and accept:
a number freed in a batch has no later entry in it. `EndIsSeen` is why no descriptor
stays behind: whenever a client leaves, in the accept queue, with a message unread
or while its answer is kept, its descriptor is registered for what will report the
end, or for the answer after which it is. `WatchesOpen` and
`ReadsWhatIsReady` are the same question for the two servers that walk a list and
use blocking calls; a poll server may wait in `recv` for a client it has just
accepted, and that wait ends with the client's hello (`Served`). `NoSigpipe`
holds because the two sides take turns: nobody sends twice without a `recv` in
between that sees the reset.

`NoLostWakeup` is the safety half of "everybody is answered": in every state in
which a client waits, something is there that wakes it or the server up for it. A
`ModFd` too few or in the wrong order, or a descriptor missing from a list, leaves a
client with nothing of the kind. It does not say that the server gets to it: a
connection in the accept queue counts as seen to, and finding 2 is about one that
stays there. Its other part, `SleepsAfterEnd`, says that the `break` of
`epoll/client.cpp:93`, after which the client waits for nothing, costs no answer.

`OneWelcome` is not obvious where every copy reads the same accept queue, nor
`SharedByPair` where a descriptor is copied by `fork`; `Attended` says that children
which wait for their own clients keep nobody else waiting, and that a socket server
that ends leaves nobody behind. `CallsOnOpen` is about the descriptor each copy has:
from `accept` to `close` it stands for an open connection, whatever the copy that
shares it has done, and no copy comes back to `accept` with one. `Heard` names all that
keeps the threaded server from reading a message: the lost reader, the crash, and
a reader that sleeps in `recv` for a silent client. `BlocksOnReused` says where that
can happen: only between `accept` and `fcntl`, and only through an entry that an
earlier connection left, or a pass gone astray; the sleeper's connection is never
closed under it. `ClosesWhatItRead` holds in
spite of all three, because only the reader closes. `HeardIfEarly` says how far
`01_blockIO.cpp` gets: what was sent before the accept is read, unless earlier
clients, who spoke too late, have left no descriptor. `OnePlace` is the retry: a line
is in hand, queued, in a report, or told, and never in two of these; `Accounted`
and `ImplementsDelivery` are what the user may conclude from the output.
`EchoInOrder` holds because of the two calls around the buffer that switch
receiving off and on, and `ImplementsEchoes` adds that the echoes come.

`NothingLeft` says that ignored failures leave no table: only a run that is cut off
does. `ShowsItsScore` is why it does no harm: a row left behind makes `INSERT`
fail, and `UPDATE` mends it. `OnePinger` says that killing and starting, which are
not atomic, miss only what was started by hand in between; `Restarted` that a
check that comes too early is made good by the next.

### Findings

1. `pac.h:122-130`: a call that begins a packet reads a header of four bytes
   whatever its size is. A piece of one to three bytes is read past its end, its
   length is made of bytes not handed over, and the next bytes of the header are
   taken for the body (`framer_cut`: the first packet of the stream is wrong).
2. `epoll/server.cpp:125`: one `accept` for one edge of the listening socket. Two
   connections that arrive together leave the second client unserved until a
   third one connects (`epoll_served`).

Beside finding 1 the model has a second way to packets nobody sent: after a complete
packet, a remainder of one to three bytes is counted and never copied to
`pr->buffer` (`pac.h:156-163`; `Hold`), so that the next call merges other bytes in
front of its piece. `framer_cut` has a stream of one packet, where nothing can remain
behind one, so that its trace is the over-read and no mixture. `Framed` excepts both
by `cut`: a piece ended inside a header.

## 4. Proofs

`PacketFramerProofs` proves for every stream (`Start`), every largest piece
(`MaxChunk`) and every set of junk lengths:

* `Typing`: `Spec => []TypeOK`;
* `Inductive`, `Invariance`: `IInv` is inductive;
* `Framing`, `Promptness`: `Spec => []Framed`, `Spec => []Prompt`;
* `Capacity`: `Spec => []Fits`;
* `Refinement`: every behaviour is one of `PacketStream`, step for step.

Assumptions: `StartAssumption` (headers do not overlap, hence lengths are not
negative), `ConstantsAssumption` and `BufferAssumption`. `ConstantsAssumption` keeps
`JunkLengths` in `Nat`: a negative length goes to `malloc` and `memcpy`, where the
program has no defined next state. `BufferAssumption` says that the caller's longest
piece fits the buffer behind three bytes; `test.cpp` hands over 1020 bytes at most,
and the code checks nothing.

Argument: `Framed` speaks of the queue and is not inductive: `Complete` appends
what `pd` has collected and goes on with what `buffer` has left. `InStep` adds
where the activation stands: `buffer` is the run of the stream that ends where
the piece ends and is `size` long (`Position`), `pd` holds the run from its
header to `Position`, and `pr` is `NULL`, since a remainder is only ever kept
when a piece ends inside a header. `Shape` is what remains true after a cut, and
what `TypeOK` needs. `Prompt` follows from `InStep` at `pc = "idle"`. `Fits` needs
`Room`: a remainder is shorter than a header, and what is left of a piece is never
longer than the piece. The lemmas
about `Run` (concatenation and splitting) are the three `memcpy` calls and the
pointer arithmetic of the code.

The same module proves of headers, for every 32-bit int, negative ones included,
that `int2byte` yields four bytes (`HeaderType`) and `byte2int` returns the int
(`LengthSurvives`), and for every four bytes the other way round
(`HeaderSurvives`). One lemma removes the lowest byte and one puts it back; each is
used for the four bytes in turn.

### The services

These four modules have the same shape. `IInv` is a conjunction of named parts, and
there are lemmas for what each call does to one connection (`RecvResult`,
`SendResult`, `CloseResult`), for the accept queue, for each action, and for what
an action leaves alone. The constants are arbitrary: any set of clients, any number
of descriptors but zero, any length of the accept queue, zero included.

`EpollProofs` (`FdAssumption`, `KindsAssumption`, `EpollAssumption`,
`ReplyAssumption`, `BacklogAssumption`): `Typing` (`[]TypeOK`), `SafeSends`
(`[]NoSigpipe`), `FreshEvents` (`[]NoStaleEvent`), `InFlight` (`[]OneInFlight`),
`EndsSeen` (`[]EndIsSeen`), `Registered` (`[]NoLostWakeup`), and `Echoing`:
`Spec => ImplementsConversations`, the whole refinement, because `Conversations`
promises safety only. None of the properties is inductive:

* `Linked` says what the two ends of a connection know of each other: one that is
  closed is gone at the other end, and a process stands in its loop as long as its
  end is open. `NoSigpipe` follows from it: who is about to send has read last, and
  a reset is seen by the read; and `EndIsSeen`: the end a client leaves is readable
  until the server reads it.
* `Descriptors` and `Once`: the open connections are those in the accept queue and
  those with a descriptor, each once.
* `Outgoing` and `Flying` place the message of a client that waits: unread at the
  server, in `m[fd]`, or on its way back. They need each other, because a descriptor
  registered for `EPOLLOUT` must still belong to the client whose text `m` holds.
  Wherever the message is, `NoLostWakeup` finds who has to move next; and as a
  connection the server closed is never open again, a client asleep misses nothing.
* `Reported`: an entry of `v` that was not handled is about a connection that is
  still open and still readable. It survives a close, because the descriptor closed
  has no other entry, and an accept, because a number given again has none.

`Talk` and `UnderWay` are then the conversation: a step of a client or of the server
changes it for one client, as `Say`, `Answer`, `Hear` or `Leave`, and for no other
(`OthersQuiet`); the end of the server is `ServerLeaves`.

`RoundProofs` (the same assumptions), for both programs: `Typing`, `OneEach`
(`[]WatchesOpen`), `Prompt` (`[]ReadsWhatIsReady`), `AskedFor` (`[]NoLostWakeup`),
`Greeted` (`Spec => ImplementsConversations`). `Rounds` is what is true in the middle of a
round: what is left of it is watched, the listening socket comes first, and every
descriptor left has data or the end, but for a `revents` that nobody wrote, which
belongs to a client accepted in this round and about to say hello. `Flying` adds
the third place of a message: read, and about to be answered.

`ForkProofs` (`ProcsAssumption`, `BacklogAssumption`), for any number of copies, and for
`socket_server`: `Typing`, `OpenConnections` (`[]CallsOnOpen`), `Shared`
(`[]SharedByPair`), `WelcomedOnce` (`[]OneWelcome`). `Holding` says that three
copies never have one connection and that of two one is at its close; with it, the
close of one copy is known to leave the connection to the other or to end it.
`Greeting` has the welcome in one place, or the last copy of the connection about to
be closed.

`ThreadedProofs` (`ThreadedAssumption`, `BacklogAssumption`): `Typing`, `NoneMissed`
(`[]Listed`), `ClosesTheRightOne` (`[]ClosesWhatItRead`), `WaitsOnReused`
(`[]BlocksOnReused`). `Reading` says that what is
about to be closed is the descriptor of the client read from; no step of the other
thread can change it, as that thread closes nothing and a number in use is not given
again. `Blocking` has what `BlocksOnReused` rests on: only the connection between
`accept` and `fcntl` blocks (`OneBlocks`), and a pass that has not gone astray meets
numbers of the list only (`InRange`, `MetInList`). `Halves` keeps the two programs
apart.

### The other programs

`KafkaProofs`, for any lines, any size of the queue and any number of repeats
(`RdKafkaAssumption`): `Typing` (`[]TypeOK`), `LinesInOnePlace` (`[]OnePlace`),
`NumberIsRight` (`[]Accounted`) and `Refinement`: every step is one of `Delivery` or
a stutter. `IInv` is `Types`, `Apart` (no line in two places), `NoneLost` (none in no
place), `Truth` (a report of success has its line in the log) and `GivenUp` (a message
that may be stored late is neither in the queue nor told delivered or refused);
`Counting` is
`Accounted` over the cardinalities of the places. `Typing` needs `InBounds`: messages
and reports together never exceed the queue, since a report counts until it was
served.

`WebsocketProofs`, for any number of clients: `Typing`, `InOrder`
(`[]EchoInOrder`), `HeldAWhile` (the server stops receiving only while an echo is to
be written), and `Refinement`: every step of the two programs is one of `Echoes` or
a stutter. `Flow` says that receiving is off exactly while an echo is to be written,
and that the buffer is full then, `Order` that the echoes read, those on the way,
the buffer and the messages on the way are consecutive numbers up to the client's
counter; hence the next echo is the message the client hears in `Echoes`. The lemmas
about `Follows` and `Stretch` are what appending and taking do to consecutive
numbers.

`DemoProofs`, for any number of runs of the MySQL demo (`NullAssumption`: the absent
table is not one of the tables): `Typing`, `CleansUp` (`[]NothingLeft`), `ShowsScore`
(`[]ShowsItsScore`). The strengthening: `OnlyOne`, two runs that have the table are
both `shared`; `KnowsTable`, a run that is not knows what is in the table at each
of its calls, whatever earlier runs left.

For any number of runs of `run.sh` by hand (`ByHandAssumption`): `WatchdogTyping`, and
`OnePingerAlways` (`WdSpec => []OnePinger`). `WatchdogInv` adds that before `run.sh`
there are no more pings than runs by hand that were not seen, and that servers are
bounded by the runs by hand.

Lengths compare equal exactly when they are, as long as no product reaches
`Modulus` (`EqualWhenEquallyLong`); beyond that there are two that differ and
compare equal (`EqualityWraps`).

### Only model-checked

Liveness, which TLAPS does not reach: `Answered`, `Released`, `Served`, `RepliersLeave`,
`Attended`, `Heard`, `HeardIfEarly`, `Accepted`, `Restarted`, and the fairness part of
`ImplementsStream`, `ImplementsDelivery` and `ImplementsEchoes`, whose safety part is
proved in each case (`Refinement`). Every safety property of a passing run is proved.
`TypeOK` is proved of every program; only Kafka's run checks it, where it says more
than types: that no more is outstanding than the queue holds.

## 5. Not modelled

* Wording and output; addresses and socket options but `SO_REUSEADDR`; failures of
  `socket`, `bind`, `listen`, `epoll_ctl` and of the waiting calls themselves;
  partial sends; `malloc` that fails; signals other than the end of a process and
  SIGTERM of the WebSocket programs; time.
* The Kafka producer is not interrupted: a signal would lose its queue, of which it
  promises nothing. Set-up calls that fail end the program before anything happens.
* A message longer than the 64 bytes of the threaded server's buffer. A WebSocket
  client that is run again is another client.
* `packet_size` changes nothing. `StudentsTable::clear` has no caller. `DBInfo` copies
  constants. `src/Websocket/discovery/web/server.c` is empty.
* `src/Debug`: programs that crash, loop or interrupt themselves on purpose for a
  session with the debugger; nothing follows the fault. `src/Shell`'s tutorials
  print. `power` of the CMake demos multiplies `double`s, whose rounding neither TLC
  nor TLAPS knows. `src/Makefile` is a build script with three stubs.
* Bundled headers: `rdkafka.h`, `rdkafkacpp.h` and the `win32` headers of the MySQL
  client are most of the lines under `src/` and belong to other projects; they
  declare, and the programs here call a dozen of the functions they declare. `Lws`,
  `RdKafka`, `MySqlServer` and `Tcp` model what those calls do.

## 6. What remains

What the theorems leave to TLC is liveness, listed above. Of "everybody is answered"
they have the safety half only (`NoLostWakeup`, `EndIsSeen`, `OneWelcome`, `Listed`,
`HeldAWhile`: the next step is there); that the server takes it (`Served`, `Heard`),
and that nothing a dead process left behind stays open (`Released`), depends on
fairness. The lemmas about single connections are stated in `EpollProofs`, in
`RoundProofs` and in `ForkProofs`, with the messages of each; a common module for
them would have the type of a message as a parameter.
