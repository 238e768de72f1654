# Verification of project52

project52 is an SMTP load generator (`src/src/client`) and a family of small
SMTP servers (`src/src/server`) that measure how fast mail can be taken in:
asynchronous, with coroutines, with a thread or a process per connection, each
with an ordinary and a "zero-copy" input buffer (`src/src/zerocopy`).  This
directory holds TLA+ models of its parts, the TLC configurations that check
them and the TLAPS proofs of what matters most.

All paths below are relative to `src/src` unless they start with `src/`.

## 1. The system

| Component | State | Operations | Interaction |
|---|---|---|---|
| zero-copy buffer, `zerocopy/streambuf.h` | list of fragments, get and put area, `inter_size_`, `tail_size_` | `prepare`/`commit`, `sputn`, `sputc`, reads, `underflow`, `consume`, `detach` | filled by a socket (directly or through an underflow handler), read by a parser, handed out as segments |
| segments, iterators, `zerocopy/{segment,fragment,iterator,exp_iterator,read_until}.h` | shared fragments, positions | increment, compare, advance, measure, take a part, append, search for a delimiter | an `exp_iterator` at the end of the data reads from the socket, and the list grows under the other iterators |
| client session, `client/client.h`, `client/smtp_msm.h` | state machine, two counters, socket, `request_` | completion handlers: resolve, connect, write, read | one strand per client on a shared `io_service`; a row of the state machine starts the next operation |
| reply parser, `client/response_parser.h` | automaton | `parse` | called by the read handler |
| task pool, `client/thread_pool.h` | queue, `running_`, threads, two condition variables | `open`, `post`, `close`, `pop` | `mbox/index.h` posts a task per message, closes, reads the results |
| message archive, `client/mbox/*`, `client/message_generator.h` | mapped file, index by size, the order and place of each generator | `open`, `parse`, next message | the index is read once, each client has a generator of its own |
| message fixer, `client/mbox/fix.h` | automaton | `insert` | a task of the pool for each message |
| statistics, `client/stats.h` | total, ring of slots, times, under a mutex | `sample`, `log`, `roll_acc` | a sample per message in flight |
| reactor pool, `client/concurrency/thread_pool.h` | `io_service`s, index of the next | `run`, `stop`, `get_io_service` | accept handlers and the starting thread call it |
| async server, `server/async` | a buffer each way, a chain of handlers | greeting, command, data, reply, goodbye | strand per connection |
| coroutine server, `server/coro` | session coroutine, watchdog coroutine, timer | read with a deadline, parse, reply | both on one strand; the watchdog closes the socket |
| sync and fork servers, `server/sync` | blocking session | accept, fork, reap children | a thread or a process per connection |
| socket buffers, `server/common/{inbuf,outbuf}.h` | 1024 characters in, 16 out | `underflow`, `overflow`, `sync`, `xsputn` | under the streams of the sessions |
| message acceptance, `server/common/rfc822_v2.h`, `common/rfc822_v2` | none | scan for CRLF.CRLF, parse | decides 250 or 451 |
| first RFC 2822 grammar, `common/rfc822` | what its hooks are told | parse | used by its test program only |
| command lines, `common/args` | none | options | read once |

What is hard in it:

* **The zero-copy buffer.**  Eight operations keep five pointers and two
  counters in step over a list of fragments that grows at one end and is popped
  at the other.  Each has separate branches for "get and put area in the same
  fragment", "next to each other" and "apart", and every one of a dozen
  adjustments of `inter_size_` can be wrong without a test noticing.
* **Client sessions.**  Control passes through asio handlers, a state machine
  with a submachine, entry actions and events raised from entry actions; a path
  that starts no operation, or two, hangs or corrupts a session.  Limits are
  kept by counters that start at one.
* **The task pool.**  Two condition variables, notifications to one thread, a
  close that puts an empty task for each thread behind the others and joins.
* **The watchdog of the coroutine sessions** (a wait that has already expired
  when the session sets a new time), **the reactor pool** (an index shared
  without a lock) and **the conversation of client and server** (segmentation,
  replies with two line ends, a message with no body).
* **Characters.**  A message goes through an automaton that is one character
  behind its input, a network that cuts it anywhere, two searches for its end
  that must remember a partial match, and a grammar that never comes back to an
  alternative; a reply goes through a buffer that is not always flushed.
* **Things that go round or run out**: iterators at the end of a list that grows,
  the ring of slots of the statistics, the generator, a file that ends in the
  middle of a message, an accept that finds no descriptor.

The properties that make each component correct are the hazards listed in
`PROJECT.json`, each at the line where it bites.

## 2. Modules

| Module | What it is |
|---|---|
| `ZcStreambuf` | `zerocopy::basic_streambuf`, all operations |
| `ByteQueue` | what it promises: a queue of bytes whose length is `size ()` |
| `ZcStreambufProofs` | lemmas about each operation; theorems of the specification |
| `ZcIterator` | the iterators and segments over a list of fragments |
| `ZcReader`, `ZcReaderProofs` | a session that parses with iterators while it reads: `ZcStreambuf` with `ZcIterator`; theorems about the iterators |
| `SmtpClient`, `SmtpClientProofs` | client sessions: `client.h` and `smtp_msm.h`; theorems about them |
| `SmtpServer` | a session of the servers: async, coroutine and synchronous |
| `SmtpSystem`, `SmtpSystemProofs` | composes `SmtpClient` and `SmtpServer` over a connection; theorems about the pair |
| `TaskPool` | `basic_thread_pool` as `index::open` uses it |
| `WorkQueue` | what it promises: tasks begun in order, all finished when `close` returns |
| `TaskPoolProofs` | theorems of the pool |
| `MessageFixer` | the automaton of `fix.h` |
| `EndOfData` | the two searches for the end of a message: `read_until` and the scan |
| `Rfc822Grammar` | `rfc822_v2`: does a text begin with a message? |
| `ReplyParser` | the automaton of `response_parser.h` |
| `SocketBuffers` | `outbuf` between a stream and a socket that may fail |
| `MessagePath`, `MCMessagePath` | composes these five: one message and the replies around it |
| `MessagePathProofs` | theorems about its session: the output, the input and the replies |
| `MessageArchive`, `Statistics` | the archive with its index and generators; the statistics |
| `LoadRun`, `MCLoadRun` | composes these two with clients that take and log messages |
| `LoadRunProofs` | theorems about the index, the generators and the statistics |
| `ReactorPool`, `ReactorPoolProofs` | one asynchronous `Server` and its pool of `io_service`s; theorem about the choice of reactors |
| `ParsingExpressions` | the parsers of `boost::spirit::classic`, external |
| `Rfc2822Grammar`, `Rfc2822Reader`, `MCRfc2822` | the first grammar and what it tells its hooks |

In every module an operator named `Faulty...` is not part of the model: it is
the operator defined after it with a plausible mistake, and replacing the one
by the other makes a property fail (the pairs are listed in `PROJECT.json`).

### ZcStreambuf

The bytes of all fragments ever allocated are numbered; `b.ends[i]` is where
fragment `i` ends, a pointer of the code is such a position, and `b.get`,
`b.put` say in which fragment the areas lie.  Popping fragments is advancing
`b.get`.  `b.inter` and `b.tail` are `inter_size_` and `tail_size_`, updated
exactly where the code updates them.  Sums that the code builds in a loop over
fragments telescope to differences of positions, and the loop itself becomes
the fragment on which it lands (`Landing`).  Each private helper is an operator
from buffers to buffers and each public operation an action: `Prepare`,
`Commit`, `Sputn`, `Sputc`, `GetChars` (inline reads of the get area),
`UnderflowFound` and `UnderflowRead` (the two outcomes of `underflow`),
`HandlerRead` (the read of `exp_iterator`), `Consume`, `Detach`.  `given` and
`taken` count the bytes put in and taken out.

The contents of bytes are left out, except that `HighBytes` may say at which
positions the stream holds 0xFF, which `do_underflow` cannot tell from end of
file.  `max_size_` is left out: every caller passes 0, no limit.

### SmtpClient

An action is a completion handler.  `client[c].state` is the state of the
machine (states of the submachine stand for themselves, `Close` is left in the
step that enters it because `do_close` raises an event), `pending` the set of
operations in flight, `request` what is in `request_`.  `Ready`, `Error` and
`Connected` are the transition tables, with exit, action and entry in the order
in which the library runs them.  What the network and the server answer is
chosen by `Next`: a reply is "ready" (code 200 to 499), "refused", "partial" or
"bad".  A failed write leaves any non-empty rest of `request_`.  `aborted` is
the `abort ()` in `~client`, reached when a client enters `Destroy`, where it
leaves no operation and so drops its last reference.

### SmtpServer and SmtpSystem

`SmtpServer` is one session of a server, `kind`.  The six sessions have the same
control: greet, read a line, answer it, and after DATA read a message and answer
that.  `server.pc` says whether a write or a read is in flight, `next` what is
being read or comes after the write, `out` what is left of a reply written in
parts, `buf` what has been read and not used.  An action (`Written`, `ReadSome`,
`Hangup`) goes from the end of one socket operation to the start of the next,
which is a handler of the async connection, a stretch between two yields of a
coroutine, or a stretch between two blocking calls of a thread.  The difference
lies in `Data`, what each kind makes of the input after DATA:

* async (both connections): reads to CRLF.CRLF, parses, drops all it has read;
* `session`: scans for CRLF.CRLF and parses what is in front of it, so that a
  message without a body, whose two CRLF are then cut apart, is refused;
* `op_session`, `sync_session`: parse characters as they arrive; refuse without
  waiting for the end, leave what they have not looked at;
* the zero-copy sessions: likewise, but a refused message stays whole, and an
  accepted one is dropped with all that has been read behind it, as in the async
  server.

The last two kinds of session never find the end of a message without a body.  In all but the
async server the reply to a refused message ends in two CRLF, the second of
which is a write of its own.  `Watch` is the second coroutine, `watchdog.wait`
its wait for `timer_` (waiting, or to be resumed because it was cancelled or
because the timer has expired), `due` whether the expiry has passed.  Setting a
new expiry cancels a wait but not one that has expired.

Messages are of three classes: accepted, refused, without a body.  The grammar is
abstracted to its verdict on them.  The buffer of `ZcConnection` is taken as
exact; what `consume` does to its counters is the run `zc_span`.

`SmtpSystem` joins one client (its handlers are those of `SmtpClient`, by
`INSTANCE`) and one server.  `up` and `down` hold what was sent and not yet read;
a message flows in pieces, because a server may answer before its end, and a
client may read the CRLF after a reply with the reply or later.  The connection
may break, and a server that closes with input unread makes the last replies be
lost, or not.

### TaskPool

A critical section of `mux_` is one action.  A wait is a state of the thread
(`idle` for the threads of the pool, `full` for the one that posts); a woken
thread tests its predicate again, and may wake without being notified.
`notify_one` picks any waiting thread.  `close` is three steps (critical section,
`notify_all`, the joins one by one) and happens twice, by hand and in the
destructor.  `ReadResults` is `index::open` using what the tasks produced.

### ZcIterator and ZcReader

A list of fragments is a sequence of intervals of addresses, an iterator a
fragment, an address in it and the flag `after_last_frag_`.  `ZcReader` gives the
addresses so that the end of one fragment is never the beginning of the next, and
drives the iterators with the steps of `ZcStreambuf`: a read may append a fragment
under an iterator that stands at the end.  A part that was parsed may be detached
up to any place and appended to the parts before it, which wraps the fragments at
the cut.  The servers only use what the first half of this allows; the second is
the library as `segment.h` offers it.  Decrement and a negative advance, which
look wrong (iterator.h:141-152), are not instantiated by any code and left out.

### MessagePath

The session writes its greeting through `SocketBuffers`, the client reads it in
pieces with `ReplyParser`, sends DATA, composes a message piece by piece, fixes it
with `MessageFixer` and sends it; the session reads it in pieces of any length,
each given to both searches of `EndOfData` and to `Rfc822Grammar`, and answers.
Characters are those the automata distinguish: CR, LF, a dot, a colon, a blank, a
digit or "x" for any other.  A write fails as a whole, and after that always.
`ForeignGreeting` is the greeting of another server, of two lines, which the
parser of the client has to understand too.

### LoadRun

`IndexMessage` is one round of the loop of `index::open`, `CreateClients` takes
what is within the size limits in any order (`random_shuffle`) and gives each
client a copy of the generator.  `LogSample` logs at a time that `Tick` moves on.
A time of `Statistics` has as many values as twice `Half`, as `last_slot_` begins
with `time_point::min ()` and the first difference wraps.  `roll_acc` reads two
clocks; `late` says which of them is ahead when the difference decides.

An archive is what the program is meant to read: each message has its size in front
of it, in at most ten digits, with anything that does not begin with a digit behind
them on the line, and no message is empty.  Characters may be missing at the end,
but not more than the text of the last message: a file that ends within a size or
its line, where `parse` goes past the end, is not in the model.

### ReactorPool

`next_io_service_` is loaded, stored and tested in steps of their own, by the main
thread and by the handler of accept.  `wild` is undefined behaviour: the index was
found behind the last reactor, and the model stops.  `++next_io_service_ = 0`
counts once more before it stores 0; the model has the 0 only, as compilers do, and
the value left out is behind the last reactor like the one before it.  Handlers of a reactor run
while it has a free thread.  `early` is a ghost: a connection was handled before
all threads were started.

### Rfc2822Grammar and Rfc2822Reader

A parser is a function from positions to positions (`ParsingExpressions`), a rule
of the grammar an expression of such functions, written with the operators of the
library (`**` for `>>`, `^*`, `^+`).  Where a rule keeps what it has matched
(addresses, names, values) there is an operator `...At`.  `Rfc2822Reader` is `top`
with its actions, one step for each field: what a hook was told is not taken back
when the alternative fails after it.  A message of the run is made of header lines
of which it is known what was meant, so that what is told can be compared with it.
The lookaheads at the first letter of a name only save time and are left out, as
are the rules that `top` does not reach (dates, phrases, `obs_angle_addr`).  What
an alternative would take is a parameter of what comes of it (`Taken`,
`FieldData`), so that the grammar is written out once.  `rfc2822_inc.h` and `rfc2822_rules.h` repeat the
grammar in earlier forms.  The component is compiled into no program.

## 3. What the runs show

| Run | Bounds | Shows |
|---|---|---|
| `zc_streambuf` | fragments of 2 or 3 bytes, requests 0 to 4, 11 bytes | all properties of the buffer, and that it implements `ByteQueue` |
| `zc_span` | as above, 9 bytes, `consume` across fragments | `inter_size_` is wrong after such a `consume` (finding) |
| `smtp_client` | two clients, 2 messages a session, 3 in all, 1 retry, 2 failures | all properties of the clients, and that they end |
| `smtp_limit` | one client, 2 messages a session, 3 in all, no failure | a client sends more messages than its limit (finding) |
| `system_async` | client and async server, 3 messages, 2 breaks, 4 connections | they stay in step, never wait for each other, and the client finishes, until a write fails |
| `system_session` | client and the other five, 2 messages, 3 connections | who gets out of step and who waits, and that the watchdog resolves it |
| `message_path` | messages of up to 6 of 5 pieces, any cuts | the fixer, both searches, the grammar, the buffer and the reply parser do what the other models take for granted |
| `zc_reader` | fragments of 2 or 3 bytes, 9 bytes, 3 parts | iterators and segments are right while the list grows |
| `reactor_pool` | 3 reactors of a thread, 3 clients, a failed accept, a signal | connections are shared out, served, and all threads end |
| `load_run` | 2 archives, sizes of one and two digits, 4 limits, a character missing, 2 clients, 2 messages each, 8 units of time | every message in its turn, and each in the statistics |
| `rfc2822` | messages of 1 to 4 lines of 9 kinds, or with one list of up to 3 addresses | which fields are told, with which values, and where the body is |
| `task_pool` | 3 threads, queue of 2, 6 tasks | all properties of the pool, that it closes, and that it implements `WorkQueue` |

The properties:

* *Buffer.*  `PointersOrdered`: no operation leaves a pointer in a popped
  fragment or one that does not exist yet.  `CountersExact`: the counters are
  what the comments at streambuf.h:80-81 say.  `NoByteLost`: no byte is lost,
  read twice or read before it was written.  `EofOnlyWhenEmpty`: underflow says
  eof if and only if there is nothing to read.  `BuffersExact`: `data` and
  `prepare` return exactly the readable and the writable bytes, in order and
  without empty buffers.
  `NeverBackwards`: what was handed out as a segment is never read or written
  again.  `ImplementsQueue`: refinement of `ByteQueue`.
* *Clients.*  `OneOperation`: always exactly one operation is in flight, of a
  kind that fits the socket.  `OneCommand`: until a write fails, what is written
  is the command of the current state alone.  `LimitsKept`: the limit per
  session is kept, and the limit per client is exceeded by at most one message
  for each session after the first.  `SamplesCounted`: every message is in the
  statistics once.  `Terminates`.
* *Client and server.*  `InStep`: what is in flight belongs to the command the
  client is at, in one direction at a time, so no reply is taken for another
  and nothing that `handleData` drops was needed; it holds until commands are
  repeated after a failed write or a server other than the async one refuses a
  message.  Async and `session` never read text of a message as a command even
  then (the others do).  `DeadlockOnlyBodyless`: both
  sides wait only over a message without a body, at a server that parses while
  reading.  `RepliesOrCloses`: at a coroutine server such a wait ends, whatever
  the client sent.  `WatchdogReleased`: the coroutine that ends wakes the other.
  `ClientFinishes`: liveness of the pair with the async server.
* *Pool.*  `PillsLast`: no empty task is called and a thread that ends leaves no
  task behind.  `NoTaskLost`.  `ResultsComplete`: the results are read when they
  are all there.  `QueueBounded`: `max_size_ + 1`.  `PoolCloses`: nobody waits
  for ever.  `ImplementsWorkQueue`.
* *Path of a message.*  `EndFoundExactly`: both searches find the end when its
  last character has arrived, not before, and only there, however the input is
  cut.  `Recoverable`: the receiver can undo what the fixer does.  `ThreeClasses`:
  the verdicts of the three ways of parsing agree as `SmtpServer` assumes.
  `NothingHeldBack`: no reply waits in a buffer while the session reads.
  `OutputInOrder`: what arrives is a prefix of what was written, after failures
  too.  `RepliesUnderstood`: a reply is complete when all of it has been read.
* *Iterators.*  `PlacesExact`: an iterator keeps its place and is equal to
  another exactly if it is at the same byte, also at the end of a list that then
  grows.  `SegmentsExact`: distance, advance and the size of a part agree on how
  many bytes are between two iterators (`DistancesExact`), and parts joined are the
  bytes of all of them, unless the cut is at the edge of a fragment (an empty
  wrapper is made there, which iterators do not skip).
* *Reactors.*  `EvenSpread`: if no connection was handled while threads were
  started, the index stays in range, every reactor has its threads and connections
  are shared out evenly.  `ClientsServed`, `StopEnds`: liveness.
* *Load run.*  `MessagesInTurn`: the index has the messages, only the last of a
  file that lacks something reaches past its end, and no client takes a message
  again before all the others.  `StatisticsExact`: nothing that was logged is lost
  but the first slot, and a window of d slots has all messages of the last d - 1
  slots of time and none older than twice that, counted from when the slot that is
  being filled began.
* *First grammar.*  `LinesUnderstood`: every field of the header is told, in order
  and with its own lines, and the exceptions are those of section 4.
  `ValuesRecovered`: addresses are recovered as written, but for plain ones in
  front of a named one; unfolding takes nothing but folds.  `BodyFound`.

**Why the bounds are enough.**  Two fragments "apart" need three fragments
between get and put, which 11 bytes in fragments of 2 and 3 give several times;
requests of 4 bytes span three fragments.  Two failures reach a failure during
the handling of a failure (`Quit` after an error) in every state, and two
sessions are needed for what survives from one to the next.  Six tasks, a queue
of two and three threads make the poster wait, make threads wait, and leave both
more tasks than threads and fewer tasks than threads at the time of `close`.

Two messages a session, three in all, make a
second session follow on a first one in which anything happened; classes of
messages mix, and commands left over from one connection reach the next.

Six pieces make a message in which the end mark, all its prefixes, and a prefix in
front of the mark occur, at the beginning, in a folded line and at the end.  The
replies of `MessagePath` have the lengths of those of the code, and lie on both
sides of the 16 characters of the buffer.  Nine bytes put an iterator two fragments
behind another.  A ring of three slots of two units is filled, left out and
overrun in eight units of time.  Three reactors are needed for the index to be
right, wrong and past the end.  Four header lines have a line without a colon
between two fields and a trace after resent fields.

**Fairness.**  `SmtpClient`: weak fairness of each client, since
`io_service::run` delivers the completion of every operation (a server that never
answers has no counterpart in the client, which has no timeout, and is a broken
assumption).  Termination needs a limit on the number of messages, one that does
not allow just one message per session, and finitely many failures, which
`MaxFailures` gives: a connect that times out is tried again without limit.
`TaskPool`: weak fairness of the posting thread and of each thread of the pool,
that is of the scheduler and the mutex; spurious wake-ups have no fairness.
`SmtpSystem`: weak fairness of the client, of the session and its watchdog (the
reactor delivers what has ended; a thread is scheduled) and of time, which passes;
none of broken connections.
`ReactorPool`: weak fairness of the main thread, of the handlers of accept, of each
reactor that has a free thread, and of the handler of the signal: `io_service::run`
goes on with what is ready.  Neither clients, errors nor signals have to come.
`ZcStreambuf` and the modules about characters, archive and statistics are
sequential or have safety properties only.

**Deadlock** is checked in `task_pool`, where the end is a step of its own.  The
client and system runs stop when the process has aborted, or at a bound, and
`DeadlockOnlyBodyless` states what a deadlock is there; the buffer runs
stop at `MaxBytes`.  `message_path` stops when the message is answered or the
session has ended, `load_run` and `reactor_pool` at their bounds, `rfc2822` when
the text is parsed.

## 4. Findings

* `zc_span`: `consume` (streambuf.h:637-643) extends the get area to the end of
  the first fragment without taking these bytes off `inter_size_`, which by its
  comment counts the bytes between `egptr` and `pbase`.  `size ()` is then too
  large.  It happens when the bytes to consume lie in several fragments: in the
  async server, for a message that is rejected.
* `smtp_limit`: `sent_total` is not incremented for the last message of a
  session, so that the limit "messages per thread" (common/args/client.h:46-47)
  is exceeded by one for each session after the first; with one message per
  session a client never ends.

Also seen while modelling, and described by the models: the first client that
ends aborts the process with all the others in the middle of their sessions
(client.h:69); a failed write leaves its command to be sent in the next session
(client.h:156); the queue of the pool may hold one task more than `max_size_`.
From the composition: a message without a body makes a client of the synchronous
servers wait for ever; the empty line after the reply to a refused message, if it
arrives late, is taken for the reply to the next command; commands left over from
a failed write put the next session out of step, and with DATA among them a
client of the async server may wait for ever; a watchdog whose wait has just
expired closes a session that has just begun a new read.

From the modules of characters and of the start:

* the greeting is not flushed (coro/session.h:65) and reaches the client because
  its 20 characters do not fit into the 16 of the buffer;
* a failed write makes `outbuf` move its put pointer on by one (outbuf.h:78), a
  second one perhaps past the buffer: no harm, as nothing is written after it;
* the comment at fix.h:10 says LF is added after CR, the code adds CR before LF
  and leaves a lone CR alone; the receiver can undo it all the same;
* the threads of the pool and the connections take turns of one index, without a
  lock (thread_pool.h:45, :87, server/async/server.h:69): a connection accepted
  between the starts of two threads takes the turn of the second, so that one
  reactor gets two threads and another none, where threads.h:94 promises "threads
  per reactor", and the clients of that reactor are never served; the index may also
  pass the end of the vector.  `EvenSpread` excludes this by `early`, and
  `ThreadsPerReactor` without that condition is violated in `ReactorPool`;
* an archive that lacks its end has an entry that reaches past the mapping
  (index.h:103; `MessagesInTurn` describes this, it does not exclude it), and one
  without a message within the limits fails an assertion;
* messages of the first slot are left out of the total or not, depending on which
  of two clocks is ahead (stats.h:245-252), and a slot may last nearly twice its
  length, as it is closed by the next message;
* in the first grammar: a Return-Path without a Received is told twice
  (rfc2822_grammar.h:1678); a line without a colon takes the line after it along,
  the blank one too (:451); plain addresses in front of a named one become its
  name (:628); the mark behind an empty body is taken for the body (:1130); a
  fold at the start of a value or behind a fold is not undone (unfolding.h:38).

## 5. What is proved

For every value of the constants that satisfies the assumptions:

* **Buffer** (`ZcStreambufProofs`): `TypeCorrect`, `PointersStayOrdered`,
  `CountersStayExact` (if `consume` is never called across fragments),
  `NoByteIsLost` and `EofIsTrue` (if the stream has no byte 0xFF),
  `PointersNeverGoBack` (no assumption), `BuffersAreExact` and `BufferIsAQueue`: the
  buffer implements `ByteQueue` (if neither happens).  The inductive invariant is `Sound` of
  `ZcStreambuf`: types, order of the pointers, `tail_size_` exact, and
  `inter_size_` exact or, with `consume` across fragments, at least large
  enough.  The order of the pointers alone is not inductive: that no counter
  wraps, and that there is a fragment to go to, follows from the counters being
  right.  There is one lemma per operator (what it does to a
  `Sound` buffer), the theorems combine them.  That underflow is right when it
  says eof needs that `inter_size_` is not too small (else it would stop at the
  end of a fragment), not that it is exact.

* **Iterators** (`ZcReaderProofs`): `IteratorsKeepTheirPlace` and `ReadersAreUsers`,
  both for input without the byte 0xFF.  `ReadersAreUsers` is a refinement: the
  sessions of `ZcReader` use the buffer as `ZcStreambuf` allows, so that all
  theorems above hold of them.  `Stands` says where an iterator is: in which
  fragment, at which byte, and that `after_last_frag_` is set exactly at the end
  of that fragment.  This is preserved by all that only prolongs the list
  (`Prolongs`), because fragments keep their places; but a byte at the end of a
  fragment has two places as soon as there is another fragment, the end of the
  one and the beginning of the next, and `Equal` and `Dereference` are shown to
  take them for the same.  `PlacesExact` is not inductive without `Room`: the put
  area is never full while there is a fragment behind it.  Otherwise `end ()` would
  be in front of the place at which an iterator that is equal to it may stand.

* **Pool** (`TaskPoolProofs`): `TypeCorrect`, `PillsComeLast`, `NoTaskIsLost`,
  `ResultsAreComplete`, `QueueStaysBounded`, and the refinement
  `PoolIsAWorkQueue`: each step of the pool is a step of `WorkQueue` or none.
  The inductive invariant adds that `running_` agrees with the place of the posting
  thread, that threads already joined have ended, and that whatever is behind an
  empty task is empty too.  `ResultsComplete` then follows: when `close` returns
  all threads have ended, one of them by taking an empty task, so that no task is
  queued, and none is held.  For the refinement the queue without its empty tasks
  is the queue of `WorkQueue`; the place of the empty tasks makes a `pop` of one
  change nothing.

* **Clients** (`SmtpClientProofs`): `OneOperationPending`, `OneCommandWritten`,
  `LimitsAreKept`, `SamplesAreCounted`, `TypeCorrect`, for any number of clients,
  any limits and any failures.  The inductive invariant says of each client by
  itself what it waits for in each state (`Waits`), whether its socket is open,
  what is in `request_`, and how the counters of the machine relate to what was
  sent (`Bounds`): before a message of a session begins, the messages begun lag
  behind `sent_total` and the number of sessions by two, afterwards by one.  The
  limits alone are not inductive, for they say nothing of the counters the guards
  test.  One lemma for each entry action and event says what it makes of a client
  whose operation has ended, one for each handler puts them together.

* **Client and server** (`SmtpSystemProofs`): `ClientAndServerStayInStep`,
  `NoOtherDeadlock` and `WatchdogsAreReleased`, for each of the six servers, any
  limits, any messages and any number of broken connections.  The inductive
  invariant has a part for the session by itself (`SessionInv`: among others, a
  session that waits for input has not yet got what it waits for), one for the
  client by itself (`ClientInv`: what it waits for in each state, and the state of
  its socket), and one for both (`Together`), which is about pairs whose connection
  is up and where no write has failed: it says, for each state of the client, what
  may be in `up`, `down`, the input of the session and its unsent output.  `InStep`
  alone is not inductive, as it says nothing of what the other side has taken out
  of a channel and not yet acted upon.  What a refused message leaves behind
  are cases of their own there, one for each kind of server.

* **Reactors** (`ReactorPoolProofs`): `ReactorsTakeTurns`, for any number of
  reactors, threads, clients and failures.  What has been shared out is always
  some full rounds and a part of one; `IInv` says so also for the states between
  the load, the store and the test of the index, and that only one of the two
  callers is in `get_io_service` unless a connection was early.

* **Output of a session** (`MessagePathProofs`): `WhatArrivesIsInOrder` and
  `NothingIsLeftBehind`, for any messages.  The buffer by itself guarantees neither:
  what a session still has to write (`LeftToWrite`) must end in a flush or in a
  string that is longer than the buffer, and after a failed write, which makes the
  buffer one character longer than it is, few enough writes may follow
  (`OutInv`).

* **Input of a session** (`MessagePathProofs`): `EndIsFound` and
  `MessagesAreRecoverable`, for any text and however it is cut, if no piece is
  empty (`PiecesAssumption`; the archive does not allow an empty message).
  `InputInv` says what each search knows between two pieces: how much of the mark is
  at the end of what it has read, and that the whole mark was not in it.  The rest
  is about the text: the mark ends a fixed message and occurs nowhere else in it,
  and what the fixer inserts can be told from what was there.

* **Replies** (`MessagePathProofs`): `RepliesAreUnderstood`, however the output is
  cut and whatever writes fail.  `ReplyInv` says which reply the client is reading,
  what of it is still to come, and in which state the parser must be after the
  part that has been read (`Awaits`).

* **Index and generators** (`LoadRunProofs`): `TurnsAreKept`, for any archives and
  limits and any number of clients.  The file is shown to be one line after the other
  with its message (`LinesAt`), so that `parse`, started where message k begins, ends
  where it ends, whatever digits and line ends are in the texts.  `IndexInv` says that
  the entries in the index are those of the messages in front of `pos`, sorted by
  size, `ClientInv` that the last n messages a client has taken are the ones its
  generator gives in the order in which it gives them, where n is how many are within
  the limits; that none of these is taken twice is not inductive without.

* **Statistics** (`LoadRunProofs`): `StatisticsAreExact`, for slots of any length,
  any number of them, any times of logging, and either outcome of the two clocks; if
  no run is longer than a clock can count (`ClockAssumption`), and if the first slot
  is left out no longer than two slots take, as in the code, where both constants are
  15 seconds.  `RingInv` says when each slot began and that it has what was logged
  from then until the next began, `TotalInv` that the first slot is still being
  filled, or that the total and the slot being filled have everything, with the first
  slot or without it.

Where a proof must go along a text it takes the first place (or the last) at which
the claim fails: a set of numbers has a least element, which the library states
without an operator as a parameter.  For this the functions on texts are
recursive functions, not folds.

Not proved, only model-checked:

* liveness, which is beyond the prover: `Terminates`, `PoolCloses`, `RepliesOrCloses`,
  `ClientFinishes`, `ClientsServed` and `StopEnds`;
* what folds with an operator, and recursive operators, compute for every input,
  which needs induction over data: `SegmentsExact`, `ThreeClasses`, `LinesUnderstood`,
  `ValuesRecovered` and `BodyFound`.

## 6. Plan

Done: `ZcStreambuf` over `ByteQueue` with proofs; `SmtpClient` with proofs;
`TaskPool` over `WorkQueue` with proofs; `SmtpServer` and `SmtpSystem` with proofs;
`ReactorPool` with proofs; the algorithms on characters, joined in `MessagePath`, with
proofs for the output, the input and the replies; iterators and segments in `ZcReader`, with proofs for the
iterators; archive and statistics in `LoadRun`, with proofs; the first grammar.

To come, in this order:

1. the coroutine session against a silent peer on its own: a session that makes
   progress is closed only in the race described above;
2. the input buffer of the sessions (`inbuf`), the fork server's children.

## 7. Not modelled

Command lines, thread affinity, formatting of statistics, the accumulators of
times and speeds, the strategies and the old sync server that are not compiled, and
start-up code; the accept loops of the coroutine, sync and fork servers, which share
no state with their sessions; the actions of the `rfc822_v2` grammar, which keep and
print fields and change nothing the servers look at; rules of the first grammar
that nothing reaches; backward movement of iterators, which nothing instantiates.
`PROJECT.json` lists these components as not modelled or partly modelled.
