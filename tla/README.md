# E-Ognisko: a TLA+ verification project

E-Ognisko is an audio mixer over the network. Clients send samples from stdin
to a server over UDP; the server mixes what the FIFOs of all clients hold every
few milliseconds and sends the result to every client, which writes it to
stdout. A TCP connection per client gives the client its id and carries reports.
Both programs are single-threaded boost::asio programs: every handler is atomic,
and what interleaves is the order of handlers, datagrams and failures.

## 1. Inventory

| component | state | operations | interacts with |
|---|---|---|---|
| `client_data` (`client_data_on_server/`) | the FIFO of one client, its size, min/max since the last report, the expected UPLOAD number, the last DATA datagrams | after upload, after mixing, statistics, state of the queue, retransmission list | called by `server` |
| `mixer` (`mixer/`) | none between calls | `mix`: sums the ACTIVE queues into the output | called by `server::mixer` with pointers to the queues |
| `server` (`server/`) | the maps endpoint to id and id to `client_data`, datagram number, shared receive buffer and sender endpoint | receive and manage a datagram, ACK, retransmit, mix, report, accept, stop, free resources | all of the above; UDP and TCP |
| `connection`, `connection_manager` | the map id to connection, writes under way | start, stop, stop all, write id, write report | call `server::free_resources` |
| `client`, UDP half (`client/`) | expected DATA number, next UPLOAD number, window, last header, last datagram | registration; the chain receive - stdout - stdin - send | the server; stdin, stdout |
| `client`, TCP half and timers (`client/`) | TCP socket, report buffer, three timers, whether the UDP socket is open, whether the first DATA came | connect, read the id and reports, keepalive, `monitor_connection`, `do_tcp_reconnect` | starts and stops the UDP half; stderr |
| headers, parsers, converters (`common/`, `common_parsers/`, `factories/`, `message_converter/`, `string_converter/`) | none | text to header record and body and back | both programs |
| command lines, mains, scripts | options | parse, start | both programs |

What is hard here:

* one buffer and one sender endpoint are shared by all receives, so the chain
  "receive, handle, (ACK,) receive again" may be neither cut nor forked;
* two maps of the server and the map of connections must agree, while writes
  fail, peers vanish and datagrams arrive late or twice;
* the FIFO is bounded, drops its oldest samples, and its free room is a number
  that clients act on much later;
* client and server run a stop-and-wait protocol over UDP with one datagram of
  memory on the client and none on the server;
* the client's timers are armed from their old deadlines, its sockets are closed
  under pending operations, and expired waits race with what would have moved
  them;
* reports are written to a TCP stream from one buffer per connection and read
  from it in pieces that know nothing of reports, nor of lines;
* a client that is started again looks, to the server, like the old one;
* lengths are counted in samples in some places and in bytes in others.

`PROJECT.json` lists each of these hazards with its line and the properties that
would catch it going wrong. Where the code itself goes wrong in some case, the
property says up to where it holds and the note of the hazard names the rest.

## 2. Modules

| module | models | variables that are code state |
|---|---|---|
| `ClientDataOps` | the methods of `client_data` as operators on a record with the fields of the class | none |
| `ClientData` | one `client_data` under the calls the server makes: `Upload`, `Mix`, `Report` | `cd`, `nr` |
| `SlidingWindow` | abstract: a window on a stream that moves by uploads and mixer intervals; `ClientData` implements it | `head`, `tail` |
| `Mixer` | `mixer::mix`, one step per iteration, for an honest caller and for `server::mixer` | `data`, `len`, `consumed`, `set`, `iteration`, `out` |
| `Server` | the server process with connections, peers and a UDP path that loses, repeats and reorders; peers that come back on their old endpoint, datagrams without a branch | the maps, `read_buf`, `sender`, receives and sends under way, `nr` |
| `Client` | the UDP half of the client process, one operation of its chain at a time (`pc`) | the fields of class `client`, the two channels |
| `Session` | `Client` composed with the server's part for one client and a path that is lossless, lossy or reordering | `cd`, `registered` |
| `Uplink` | abstract: numbered uploads, accepted one by one, the sender at most `Ahead` of what it knows; `Session` implements it with two | `sent`, `received`, `learned` |
| `ClientLink` | how the client keeps in touch: the TCP socket, the three timers with their deadlines, the life of the UDP socket, and how many chains of UDP handlers there are | `expires`, `armed`, `sock`, `link`, `udp`, `chain`, `first` |
| `Reports` | the reports of one TCP connection: `send_raport`, the writes of `connection`, the reads of the client and `raport_buffer_` | `raport`, `writes`, `wire`, `memory`, `size`, `dropped` |
| `ClientDataOpsProofs` | lemmas: what each operation of `client_data` returns, used by `ClientDataProofs`, `ServerProofs` and `SessionProofs` | |
| `ClientDataProofs`, `MixerProofs`, `ServerProofs`, `UplinkProofs`, `SessionProofs`, `ClientLinkProofs`, `ReportsProofs` | proofs about the module of that name | |
| `MC*` | bounds for TLC | |

`ClientData`, `Server` and `Session` use the same `ClientDataOps`, so a FIFO is
the same FIFO in all of them. `Server` takes from `Mixer` what `ConsumedExact`
says (each ACTIVE queue loses the samples of one interval) instead of running
its loop. `Session` is what `Server` does for one client with one receive at a
time, and `ReceiveChain` of `Server` says when that is so. `ClientLink` and
`Client` divide one class: `Client` says what the UDP handlers compute,
`ClientLink` how many chains of them run and what the timers do; the stages of
`chain` there are the values of `pc` here, seen from outside.

Correspondence, in short: a C++ handler is an action, a function it calls is an
operator of that action, an asynchronous operation is a variable that says it is
under way (`receives`, `acks`, `resends`, `writes`, `pc`, `armed`, `reading`,
`chain`), and its completion is an action. A dereferenced null pointer or
`end()`, and an exception nothing catches, is `Crash`, after which nothing
happens. Definitions whose comment says "Deviation" are not part of the
specification: each is a plausible fault in the definition below it, and shows
that a property notices it. Variables commented "history" are not code state
either; they remember what the properties need.

Abstractions worth knowing:

* A sample is its position in the client's stream (`ClientData`, `Session`), a
  number (`Mixer`) or the peer that sent it (`Server`): whatever the properties
  of the module must tell apart.
* A datagram is a record of its header fields; in `Server` it is a sequence of
  cells in the receive buffer, so that stale bytes behind a short datagram are
  visible. In `Reports` a cell is a character: a newline, or one of the text of
  a line that knows its report and its place in it, so that reads and writes
  that end inside a line are visible. Only the line with the id is one cell.
* In `Client` DATA numbers are relative: a datagram knows how many DATA were
  sent after it (`age`), the client how far it is behind (`lag`). The code
  compares nothing else about them. `nr_max_seen_` is assigned before it is
  compared, so the branch that asks for a retransmission is dead and absent.
* A send of the client and its completion are one step, because the handlers
  ignore the outcome; a failed send is a lost datagram. In `ClientLink`, where
  the outcome of a keepalive matters, both outcomes are there.
* An error of the server's receive starts the receive again and changes nothing,
  so it is a stutter. `udp_dgram_timers_` has the keys of `client_data_map_` and
  nothing reads it, so it is left out.
* `ClientLink` counts time in ticks. Handlers that are ready take no time
  (`Quiet`): a period is many orders longer than a handler. stdin and stdout may
  take any time.
* The TCP socket of the client is never closed, and what `connect` does with one
  that was connected before is that of Linux: after a non-blocking connect it
  succeeds once more and fails from then on; a refused or reset socket first
  fails and can then be used. `Connect` in `ClientLink` says so at its top.
* `raport_buffer_` is refilled from its start once it was emptied, and what a
  longer read left in memory stays behind a shorter one; the code prints it as a
  C string that nothing terminates. The read that the id starts is given what
  came behind the id before that is dropped; it begins with a newline, so that
  read is over without having read anything (`dropped`, `ReadDropped`).
* In `Session` an interval of the mixer waits for a DATA datagram that has
  reached the greatest age in flight (`MaxAge`). The theorems hold for every
  `MaxAge`, that is for a datagram as late as one likes.

## 3. What the runs show

| run | question | bounds |
|---|---|---|
| `client_data` | FIFO order, bound, statistics, retransmission list, window; refinement of `SlidingWindow` | FIFO of 5 samples, interval of 2, uploads of 0 to 4, 11 samples and 5 ticks in all, 3 datagrams kept |
| `mixer` | reads, counts, sums, clamping, and that `write_buf_` is large enough | 2 inputs, all queues of up to 4 samples over {-3, 1, 2}, samples of -4 to 3, interval of 7 bytes, `-H` and `-F` 8 |
| `mixer_len` | violated: `len` is twice the bytes there are, and `at` throws | as above with `-H` 5, below the interval |
| `server` | data only for connected clients, who can crash the server, ownership of samples, ACKs, the chain of receives, the maps, readiness | two scenes: two peers, of which the first uploads twice (2 samples and 1) and the other once; or one peer with two ids one after the other, 1 upload, 1 retransmitted datagram, stray datagrams and the stop signal. FIFO of 2 samples, 2 ids, 2 ticks, 1 datagram on the path (which may be repeated), 1 write per connection before a report |
| `server_stop` | violated: the stop handler promises to cancel everything | 1 peer, 1 tick, 1 upload |
| `server_free` | violated: a connection that ends frees its resources | 1 peer, 1 tick, 1 upload |
| `session` | stream intact, overflow only by pipelining, recovery, standstill, progress; refinement of `Uplink` | FIFO of 4 samples, uploads of at most 3, reads of 2 or 4, 6 samples, 2 datagrams to the server, 2 DATA in the socket, age up to 2, three kinds of path |
| `session_resend` | violated: two DATA in a row make the client repeat its last datagram | as above, lossless, 7 samples |
| `client_link` | how many chains, readers and connect loops, what an alarm means and does, that silence is noticed | keepalive and reconnect every 2 ticks, silence after 3, 9 ticks, 2 datagrams, a reconnect deadline at most 6 ticks ahead, connections refused, ended and reset |
| `client_link_reconnect` | violated: `do_tcp_reconnect` leads to a new connection when the server ended the old one | as above, without resets |
| `client_link_late` | violated: `connection_timer_` measures the time since the last communication | as above, without resets |
| `reports` | what reaches stderr, in which order and with which gaps | 3 reports of no line, one line of 3 characters or two of 2, a connection that holds 5 cells, reads of up to 5 |

The bounds are chosen so that every branch is taken. The FIFO overflows and runs
empty; uploads are accepted, repeated and cut by the receive buffer; the
retransmission list drops entries; connections break before and after the
registration; ids and maps of two clients exist at the same time in one scene of
`server`, two ids of one endpoint in the other. FIFO properties depend on
differences of sizes, so a FIFO of a few samples with an interval of two reaches every case of
the code. Two peers are enough for the ownership of samples because the buffer
and the endpoint are single: what one peer's datagram can disturb is the one
handled before it. The peers are symmetric, so in `server` the same one may always
be the first; TLC's symmetry reduction is not used, as liveness is checked in the
same run. In `client_link` nine ticks hold three periods of
silence and four of reconnect, enough for two alarms and for an attempt to
cancel another. In `reports` the longest report fills the connection, so a second
one is cut wherever the room ends, in a line too; writes wait for each other and
are built over; and a read may return any part of what is there, or all of it.
Where section 4 has a theorem, the bounds do not matter.

Deadlock is not checked: a crashed server, a stopped client, a drained stream and
an exhausted bound are legitimate ends.

Fairness.

* `Server!Fairness`: weak fairness of the handlers (the io_service runs every
  ready handler) and strong fairness of a sent ACK: the code retries a failed
  send for ever, and a UDP send that is tried again and again succeeds.
* `Session!Fairness`: weak fairness of the client's and the server's ready
  handlers (stdout among them) and of the mixer timer. Nothing is assumed of
  stdin.
* `ClientLink!Fairness`: weak fairness of the ready handlers and of expired
  waits, of the outcome of a connect (it ends in one way or the other), and
  strong fairness of the clock. Nothing is assumed of datagrams, the server or
  stdin. `MCClientLink` restates it for the steps within its bounds, where it
  asks for less.

Nothing is assumed of peers, connections or the network.

What a reader of the code may not expect, and the properties record:

* `ReceiveChain`: every retransmitted datagram adds one receive for good
  (`do_transmit_data` calls `do_receive` per datagram), and every datagram
  without a branch takes one away: as long as nothing was retransmitted, one of
  them leaves the server deaf. `NeverDeaf` says that nothing else does.
  `OwnSamples` and `AckIsCurrent` are stated until the first retransmitted
  datagram.
* `RetransmitGapless`: `get_last_dgrams` returns the newest datagrams without a
  gap, all above the number asked for and none below it. On the number itself
  code and comment differ: `client_data.hh:53` speaks of numbers above `inf_nr`,
  and the code returns `inf_nr` too, which is the number of the DATA the client
  misses. The property states what both agree on.
* `CrashIsOwn`: what brings the server down is a datagram of a client whose own
  connection broke, whose endpoint was used before, or that arrives after the
  stop signal. The ticks never do (`TicksNeverCrash`).
* `MapsConsistent` goes back from data to endpoint only for endpoints that had
  one client: `client_map_.insert` keeps the id of the old one.
* `ImplementsUplink` is with two uploads ahead, not one, because the first DATA
  resets the last header to CLIENT. With two under way `last_datagram_` has
  forgotten the first.
* `WedgedForGood`: one lost ACK ends the upload for good. The server ignores a
  repeated UPLOAD, the client repeats it for ever and drops every DATA; no
  later event gets the two out of it. `Progress` needs a lossless path.
* `ReconnectConnects` is violated: comments describe a client that connects
  again after an alarm (`client.hh:103`, `client.cc:173-175`) and may then have
  another id (`client.hh:169`). `AlarmIsFinal` is what happens instead: unless the
  network resets the TCP connection, the TCP socket is still connected, so no
  second id is read and the UDP socket stays closed. Before the first DATA
  `connection_timer_` is not even armed (`ReadFails`).
* `ChainPerId`: a datagram the client has no branch for ends its chain of UDP
  handlers (`HandleOther`), as it does on the server.
* `OneConnectLoop` holds up to the second alarm: from then on two attempts cancel
  each other's wait and connect at once, without the pause of the timer.
* `AlarmMeansSilence` holds as long as every DATA met the deadline it moved;
  `client_link_late` shows the case where the first one could not.
* `LinesInOrder` and `ReportsIntact` state what the report path needs. Reads cut
  the stream anywhere, and the rest of a line that was cut is dropped as if it
  were the empty line in front of a report: so lines on the terminal may lack
  their end, and may be missing. But they begin where lines begin, have no
  hole, come once and in order, and no two run together, as long as no report is
  built over one under way (`alone`) and no read was shorter than an earlier one
  (`fresh`: otherwise text of the earlier one is printed again). If besides every
  read ended before a newline (`whole`), nothing is missing. Outside these
  conditions the code prints stale or foreign text, which no property excludes.

## 4. Theorems

All are proved for every value of the constants that satisfies the assumptions
of the modules. Every invariant below is a conjunction that is inductive as a
whole; the properties of the runs follow from it. Every invariant that a passing
run checks is the conclusion of one of them.

Several operators are recursive functions or folds: the loop of
`get_last_dgrams`, the sum over the inputs of the mixer, `FlattenSeq` of the
reports. The library's induction rules take the statement as an operator, which
the provers cannot instantiate, so these modules state induction over a set of
numbers (`Induction`: a set with 0 in it, and with each number the next one, has
all of them), proved from the library's theorem that `Nat` is well-founded, and
each proof names the set of numbers for which its statement holds.

**`ClientDataProofs`.** The assumptions: `-H` is at most `-F` (the parser sees to
it), an upload is smaller than the receive buffer (its size is `-F`, and the
header takes some of it), and `-H` covers one mixer interval. The invariants are
not inductive one by one: that an upload keeps the order of the queue needs the
bound on its size, that the minimum is exact needs the size field to be the
length, so `Invariance` proves the conjunction `Inv` (types, bound, order,
statistics, retransmission list). `TypeCorrect`, `QueueNeverOverflows`,
`QueueKeepsOrder`, `StatisticsCorrect` and `RetransmitListCorrect` follow from
it; `WindowAlwaysOpens` is an action property from the same invariant; and
`Refinement` maps each step to a step of `SlidingWindow` or to a stutter, using
that the head and tail of the window can be read off the queue. `AnswerHasNoGap`
follows the loop of `get_last_dgrams`: by induction along the list it returns
exactly what is not below the number asked for, and as the list holds consecutive
numbers this is the end of it, without a gap.

**`MixerProofs`.** Under `IntervalCovered` (the interval is at most `-H` minus one),
for any finite set of inputs and any queues: the inputs still in the loop are
exactly those with samples left, from which `NeverReadsOutside`,
`ConsumedIsExact`, `OutputIsCorrect` and `WritesStayInside` follow.
`ServerConsumesAlike` is why `server::mixer` may pop `inputs[0].consumed` from
every queue, as it does. `TypeCorrect` needs no `IntervalCovered`: the sum over
any finite set of inputs is an integer (by induction on the size of the set), so
clamped it fits 16 bits.

**`ServerProofs`.** For any number of peers and any options. Besides types, `Inv`
says who is behind an id: there is an assignment of ids to peers (`Owners`) that
the given ids, the CLIENT datagrams under way or in the buffer, and the data all
agree with. Without it a late CLIENT could map an endpoint to somebody else's
data, and `MapsConsistent` would not be kept. `TypeCorrect`, `ReceiveChainHolds`
and `MapsAgree` follow, and `TicksNeverCrash`: no tick of the mixer and no report
dereferences what is not there, nor mixes a queue that is too short.

Two more invariants build on `Inv`. `Kept`: until the stop signal a
connection is kept unless it broke, there are data for connections only, and a
client that was sent DATA has data unless its connection broke; with `Askers`
(only a client that was sent DATA asks for anything) `NoOrphans` and
`CrashesAreOwn` follow. `Own`, until the first retransmitted datagram: by `Chain` there is one receive,
one handler or one ACK under way at a time, so the shared buffer and
`sender_endpoint_` belong to one datagram, its body is its sender's, every queue
holds its owner's samples, and the ACK under way is for the last sender and true.
`SamplesAreOwn` and `AcksAreCurrent` follow; RETRANSMIT forks the chain and breaks
`Own` (section 3), and the number of retransmitted datagrams never falls
(`ResentStays`). `AcksCount` needs `Inv` only.

**`UplinkProofs`** and **`SessionProofs`.** `UplinkInStep` is the invariant of the
abstract uplink for any `Ahead`. `Inv` of `SessionProofs` is: types; before its
first datagram the client has done nothing (`Fresh`); only what was sent is under
way, acknowledged or expected (`Sent`); and on a path that keeps order, ACKs
under way rise (`AcksRise`), and how far the client is ahead depends on what it
handled last (`Distance`: at most two). From it follow `TypeCorrect`,
`TwoAheadAtMost` and `UplinkImplemented`, each step of `Session` a step of
`Uplink` or a stutter. `WedgedStays` shows that the standstill is closed under
every step, on any path. `StreamStaysIntact` needs a second invariant
(`StreamInv`): there is a division `b` of stdin into the uploads, so that every
copy of UPLOAD `k`, on the path or in `last_datagram_`, carries the samples from
`b[k]` to `b[k + 1]`, and the FIFO received them up to the expected number.

A third (`WaitInv`) is about a client that waits for each ACK. There is one
UPLOAD with the newest number, and `last_datagram_` is it (`LastUpload`). Between
two uploads the FIFO only gets emptier, so a window with the current number, under
way (`WindowsHold`) or known to the client (`KnownWindow`), is at most the room
there is; and on a path that keeps order the numbers on their way to the client
never go back (`NeverBack`), so a client that knows the last ACK has no older
window. Hence the one upload that is not acknowledged fits the FIFO until it
arrives (`Waiting`), which is `WaitingNeverOverflows`; `LastIsWhatIsMissing`
follows from the same two.

**`ClientLinkProofs`.** For any periods, with and without resets. `Inv` relates the
socket, the connection and the ids read (`Connection`: one id per connection, and
only a reset allows another), bounds the attempts to connect up to the
second alarm (`Attempts`) and the reads under way (`Readers`),
counts the chains and those that ended (`Chains`), ties the closed UDP socket to the alarm (`Silenced`)
and the deadline to the last DATA (`Deadline`). `OneChainPerId`, `AlarmFinal`,
`OneReaderAtATime`, `OneLoop` and `SilenceMeant` follow.

**`ReportsProofs`.** For any sizes of reads, any shapes of lines, any number of
reports and any connection that holds what is written first (`SendBuffer` of at
least 3: the line with the id and the first character of a report; any real
connection does). What the client has still to see is one sequence (`Pending`):
what is in its buffer, on the wire, and still to be sent of the write under way.
`IdFirst` says that the id comes first and once.
`OneWrite`: as long as no report was built over one under way there is one write,
of what is left of `raport_`. `Ordered`: the texts printed followed by those of
`Pending` rise, and every text, in the output as in `Pending`, has in front of it
what stands in front of it in its report. A read that cuts `Pending` anywhere
drops a part up to a newline, prints what is behind it, or keeps what has no
newline; what is printed so begins behind a newline, which gives
`PrintedInOrder`. `Complete`: as long as every read ended before a newline, the
two together are all that was reported, which is `NothingLost`. The steps rest on
lemmas about `FlattenSeq` (of a sequence with one more element, of a part of it),
by induction on the length.

Only model-checked: liveness (`Progress`, `NeverDeaf`, `SilenceNoticed`), which is
out of this prover's reach.

## 5. Not modelled

* `run_udp_dgram_timer` of the server and `do_retransmit` of the client: nothing
  reaches them.
* SIGINT and SIGTERM at the client: `signals_` is filled and never waited for.
* Text: the characters of headers and reports, debugging output; a stdin read of
  an odd number of bytes. The bytes of DATA: `server.cc:578` hands `async_send_to`
  the buffer of a local string, which is listed as a hazard and has no property.
* `-i` so large for `-F` that an interval does not fit `write_buf_`: the parser
  allows it, `IntervalCovered` excludes it, the hazard says so.
* `-H 0` and `-H 1`, for which the watermark comparison wraps around or takes an
  empty queue for ACTIVE: the assumptions exclude them, the hazards list them.
* Parsing of command lines (boost), the mains, Makefile and scripts.
* The system calls behind boost::asio, but for what `connect` does with a used
  socket.

## 6. Plan

1. Done: every module of section 2, model-checked; the proofs of section 4, with a
   theorem for every invariant and every safety property of an action.
2. Next proofs: what the two halves of a composition promise each other: that
   `Session` with one receive at a time is what `Server` does for one client, and
   that an interval of `Mixer` is what `Server` takes from a queue.
3. Next models: a composition of two clients with the mixer (whose samples reach
   stdout when), and of `ClientLink` with `Server`, so that what a reconnecting
   client does to the server is one behaviour.
