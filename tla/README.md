# Verification of spdystream-rs

TLA+ models, TLC runs and TLAPS proofs for the SPDY/3.1 server library in this
repository. Line numbers refer to `src/src/`.

## 1. The system

| Component | Code | State | Operations |
|---|---|---|---|
| Connection | `connection.rs` | `streams` map behind a mutex, `last_client_stream_id`, `gone_away`, `close` watch, `ping_map`, frame channel (64), one channel per worker (128) | `serve`, `close`, `ping`, `stream_count`, `wait_closed` |
| Read task | `connection.rs:248-431` | the frame in hand | one branch per frame type, the shutdown after the loop |
| Workers (5) | `connection.rs:193-234` | the frame in hand | spawn the handler, push data, close, remove |
| Write task | `connection.rs:179-190` | compression context | take a frame, write it, die of an error |
| Stream, receiving | `stream.rs:53-61, 134-165` | data channel (64) behind a mutex, `remote_closed` watch | `push_data`, `close_remote`, `read_data` |
| Stream, sending | `stream.rs:63-132` | `replied` with its `Notify`, `local_fin_sent` | `send_reply`, `write_data`, `reset` |
| Stream as AsyncRead/AsyncWrite | `stream.rs:172-279` | remainder buffer | `poll_read`, `poll_write`, `poll_shutdown` |
| Framer | `framer.rs`, `frame.rs` | one zlib context per direction | `read_frame`, `write_frame` |
| Upgrade handshake | `server.rs` | the bytes read so far, the run of CR and LF | `parse_upgrade_request`, `send_upgrade_response`, `accept` |
| Dictionary, errors | `dictionary.rs`, `error.rs` | none | none |

How they interact:

* The read task hands frames of a known stream to worker `sid % 5` over a bounded
  channel and waits when it is full. It answers pings and refusals itself, over
  the bounded frame channel, and waits there too.
* A worker never waits for a channel. It calls `push_data`, `close_remote` or
  the handler, and takes the `streams` mutex to remove a reset stream.
* Application tasks share an `Arc<Stream>`. They meet the worker in the data
  channel and the watch, and the worker's SYN_REPLY branch in `replied`.
* All frames for the client go through one frame channel to the write task. A
  `send(..).await` queues for room in it, the `try_send` of a poll function does not.
  The close watch tells `wait_closed` that the end has come.
* `accept` reads the request from the socket, answers, and gives the same socket to
  `serve`; the read task's framer continues at the next byte.
* `ping` meets the read task in `ping_map`. The write task lives as long as somebody
  holds a sender of the frame channel: the connection, the read task, or a stream.

What is hard here: every `await` is a point where other tasks change what was
just read, and where the caller may drop the future; the checks of `gone_away`,
`local_fin_sent`, `replied` and `remote_closed` are separate from what they
guard; two bounded channels in a row can stall; a failing write task is silent;
the drain of `close()` depends on the client; the transport may end inside a frame,
and both compression contexts must see every header block once and in order. `PROJECT.json` lists each hazard
with its line and the properties that cover it.

What makes each component correct:

* Connection: an id is registered once; its handler runs once and before its
  data; data stay in order and FIN comes last; one GOAWAY, consistent with the
  streams that are served; no stream is left open at the end; `close` returns.
* Receive half: nothing but an overflow loses data; EOF does not come early; a
  close or a chunk wakes a reader; a dropped reader blocks nobody.
* Send half: no data before the reply; a FIN is last up to the races the code
  allows; no lost wake-up; `local_fin_sent` tells the truth.
* Framer: decode inverts encode within the limits of the length fields, with the
  contexts used in one order; what arrived whole is returned before the end is.
* Upgrade: not a byte after the request is consumed, the request is the client's.
* Stream as AsyncRead/AsyncWrite: bytes in order and none lost, one FIN, a
  shutdown returns.
* Lifetime: a ping succeeds by its own echo only and always returns; the end of the
  connection reaches every task.

## 2. Modules

| Module | Models | Status |
|---|---|---|
| `Connection` | read task, workers, write task, `close()` | done |
| `MCConnection` | its instances for TLC | done |
| `ConnectionProofs` | its theorems | every safety property: types, ids, GOAWAY, handler, order of data and FIN, end of the read task |
| `StreamRecv`, `MCStreamRecv` | `push_data`, `close_remote`, `read_data` | done |
| `ReadContract` | the abstract receive half, every call one step, that `StreamRecv` implements | done |
| `StreamRecvProofs` | its theorems | every safety property, and the refinement |
| `StreamSend`, `MCStreamSend` | `send_reply`, `write_data`, `reset` | done |
| `StreamSendProofs` | its theorems | every safety property |
| `FrameCodec` | layout of frames and name/value blocks, both directions, as operators | done |
| `Framer`, `MCFramer` | `write_frame` and `read_frame` over a transport that is cut | done |
| `FrameChannel` | the abstract ordered channel that `Framer` implements | done |
| `FramerProofs` | theorems about the codec and the reader | the codec both ways, every safety property, and the refinement |
| `Upgrade`, `MCUpgrade` | `accept` up to `Connection::serve` | done |
| `UpgradeProofs` | its theorems | every safety property |
| `StreamIO`, `MCStreamIO` | `poll_read`, `poll_write`, `poll_shutdown` of an owner, on the shared frame channel | done |
| `StreamIOProofs` | its theorems | every safety property |
| `Lifetime`, `MCLifetime` | `ping`, `wait_closed`, dropped handles, ends of the tasks | done |
| `LifetimeProofs` | its theorems | every safety property |
| `SequenceLemmas` | what flattening a sequence of sequences gives and where its pieces are, ordered lists of finite sets | used by `FramerProofs`, `StreamIOProofs`, `UpgradeProofs` |

### Connection

The state is that after `serve()` has returned. `readPc`, `cur` and `reply` are the
read task's position, the frame in hand and the frame it is sending. Frames are
numbered as they arrive (`n`), and the number stands for the payload. `out` is
every frame ever put into the frame channel and `written` how many the write
task has taken, so the channel holds `Len(out) - written` frames and the history
needs no second variable. `accepted`, `spawned` and `received` record what
happened to a stream. Each caller of `close()` has its own `closerPc`.

A step of a task ends where another task can see it: an `await` that may block,
an atomic access, a critical section. Examples: a SYN_STREAM is `ReadSynStream`
(check and load of `gone_away`, lines 268-303), `RegisterStream` (the map, 313-324),
`StoreLastId` (327), `Dispatch` (330); a RST_STREAM is `WorkerRst` (214) and
`WorkerRemove` (215-216); `close()` is `CloseSwap`, `CloseLoadLast`,
`CloseSendGoAway`, `CloseBroadcast`, `CloseReturn`, and `CloseDropped` at its
awaits. The `streams` mutex needs no variable: no critical section awaits inside,
except in the StreamInUse branch, which `NoStreamInUse` shows unreachable.

Atomic accesses are sequentially consistent in the models. The code uses
acquire/release on single flags and no property compares two of them from a third
task, so the weaker order adds nothing here. Frames that applications send
are not in `out`; they take room in the channel, which a slow write task also does.

### StreamRecv, ReadContract

`buf` is the data channel; `version` the version of the watch (its value is true
from version 1 on); `lockQ` the mutex, holder first, then the waiters in order.
A call is `Call`, `TryRecv`, `CheckClosed`, `CloneWatch`, then `SelectData`, or
`SelectClosed` and `Drain`; `Cancel` drops the future. `dropped`, `delivered`,
`closeMark` and `callMark` are history. The environment is the worker (`Push`, then
`PushFin` for a FIN) and every other source of `close_remote`.

`ReadContract` is what the callers may rely on: chunks arrive in a bounded queue, a task
begins a call, and one later step answers it, with the first chunk, with the end (closed,
and nothing left of what was there when the call began), or by giving up without a chunk.
The refinement `Contract` maps its queue to `buf`, `calling` to the tasks that are not
idle, `closed` to the value of the watch; the mutex, the two tries and the select become
stutters. `CallsAreAtomic` is `Contract!Spec`.

### StreamSend

`replied`, `localFin` and `wakeups` are the fields; `wakeups` counts the calls of
`notify_waiters`, and the ticket of a `Notified` future is the count at its creation,
which is tokio's contract. `out`, `written` and `writer` are as in `Connection`.
`flagAt`, `finReturned`, `late`, `peerReplied` and `abandoned` are history; `flagAt` is how many
frames were in `out` when `local_fin_sent` was set.

`OneStragglerPerTask` counts from the moment sending is closed (`Closed`): `local_fin_sent` is set,
by whichever call, or the FIN of a `write_data` is in the channel. `send_reply` puts its FIN in at
line 92, sets `replied` at 96 and the flag at 99. A task that runs between 96 and 99 passes
the check of the flag as often as it likes, so any number of Data frames can follow that FIN; the
property says nothing of those, and bounds what comes after the store.

### FrameCodec, Framer, FrameChannel

`FrameCodec` has one operator per layout: `EncodeHeaders` and `ParseHeaderBlock` for the
name/value block, `EncodePayload` with `ControlHeader` and `DataHeader` for the writers,
`ParsePayload` and `Refused` for the parsers. A byte has `Byte` values, a parameter,
since arithmetic on 2^32 is beyond TLC: with 16 values a 32-bit word is below 65536, and
the mask of 31 bits, the shift of the priority and the split of flags and id in SETTINGS
are written in terms of `Byte`. It begins with the types of the frames, as the structs of
`frame.rs` have them, and `IsHeaderMap`, what a block can carry: names that are not empty, no
NUL in names or values, lengths that fit their fields. `InOrder` lists a finite set in order;
the community modules' `SetToSortSeq` rests on operators of TLC that the provers do not know.

`Framer` has the peer's framer at one end of the wire and the read task's at the other.
`WriteHeader` and `WritePayload` are the two `write_all`s, `ReadHeader` and
`ReadPayload` the two `read_exact`s, `Cut` ends the transport after any number of the
bytes on their way, `ReadEof` is the end met inside a header or a payload.
`WriteMalformed` puts bytes on the wire that are no frame, one sample for each refusal of
the parser, and `MalformedAssumption` says that they are no frames, so that `NoFrameRefused` and
`DeliversFrames` are about frames only. zlib is external: the k-th block of a direction inflates only after the k - 1
before it and then gives the bytes deflated; its output is symbols that say which block
they are of, so a lost, repeated or reordered block shows.

The refinement `Channel` maps `sent` to the frames written, with what the wire has no
room for taken off (`OnTheWire`: reserved bits, flags of types without flags, unknown
GOAWAY codes), `delivered` to the frames read, `up` to the reader not having returned
an error. `DeliversFrames` is `Channel!Spec`.

### Upgrade

A byte is CR, LF, SP, a colon or a word. `ReadByte` is one turn of the loop with, at the
fourth CR or LF in a row, the parse. The client sends byte by byte, may send SPDY bytes
ahead of the answer, and may leave at any byte. The `requests` of a client is `{r}` when its
text is `Render(r)`, which `RequestsAssumption` makes sure of, and empty when it is not a
well-formed request. The clients of `MCUpgrade` are seven rendered requests, among them one
without `Upgrade`, one with another protocol, one with an empty header value and one at the
limit, and nine texts that are not rendered: other line ends, no version, no colon, an
empty name, a bare LF in a value, bytes that are not UTF-8, no end at all.

### StreamIO

The poll functions take `&mut Stream`, and a stream is handed out as an `Arc`: its
owner has it alone only after the map, the queues and other tasks have let go, that is
after a reset or after the end of the connection. So nothing is pushed any more, and
`poll_read` never has to be woken by a close. `Fill` is the copy into a caller's
buffer, with the rest to `unread`; `ShutdownPoll` is the poll of `poll_shutdown` that is
ready, and a pending one changes nothing but wakes its own task.

A `poll_read` that reports the end of the stream changes nothing and is no step, and no property
says that the end comes after the last byte, because in the code it may not. `poll_read` takes
`Pending` of `poll_recv`, with `remote_closed` set, for the end (lines 215-217), and tokio says `Pending`
also with messages queued: a task that has received too often within one poll (the cooperative
budget) is told to yield, and the documentation of `poll_recv` allows spurious failures besides.
`ReadsAreTheStream` is about the bytes: what was left at such an end is returned by whoever reads on.
`read_data` is not exposed to this, in `StreamRecv` or here: its two looks at the channel are
`try_recv`, which has no budget, and an early `Pending` of its `select!` is only a longer wait.

The owner is alone on its stream but not on the frame channel: other streams, pings and
the read task send on the same one. It is tokio's channel: `used` counts the permits taken,
`ahead` and `behind` the other senders in the queue for permits, before and after the owner. A
frame written gives its permit to the first in that queue (`Release`), and only when nobody waits
does it become free. `send(..).await` in `write_data` and `send_reply` waits in the queue (`SendWaits`,
`SendGranted`, or `SendGivenUp` for a dropped future and a closed channel); `try_send` in `poll_write`
and `poll_shutdown` needs a free permit and stands in no queue. `OtherSend` is any send of the others.

### Lifetime

Here a frame is a ping with its id or one of no interest, and one stream and one worker
stand for all. `ConnectionAlive`, `StreamAlive` and `SenderAlive` say who holds a sender
of the frame channel; they are computed from the tasks instead of counted. A call of
`ping()` is `PingBegin` (the id), `PingRegister` (the map), `PingSend`, and an end by its
oneshot (`PingAnswered`), a closed channel, the timeout or a dropped future, which leave
the entry in the map (`Gone`). The peer echoes what it has received, late and more than
once if it likes. `ReadFails` ends the read task at any time, `WriteFail` the write task.
`onWire` and `call` are history: which calls' pings were written.

## 3. Runs

| Run | Question | Bounds |
|---|---|---|
| `conn` | Types, ids, handler, order of data and FIN, end of the read task | every frame type, ids 1-3, 2 workers with 2 slots, frame channel of 1, one closer, 3 frames; 818 000 states |
| `conn_close` | One GOAWAY, one stream beyond it, handler and `close()` make progress | ids 1 and 3, 2 workers with 1 slot, two closers, 2 frames; 86 000 states |
| `conn_goaway` | violated: "Refuse new streams after GoAway" | 2 frames, one closer |
| `recv` | Conservation, EOF, wake-ups, calls as one step | 2 readers, 3 calls, buffer of 2, 3 chunks, 2 closes besides FINs; 75 000 states |
| `recv_eof` | violated: "Returns None on EOF" | 1 reader, 2 chunks |
| `send` | Reply first, FIN last, no lost wake-up | 2 tasks, 3 calls, frame channel of 1; 197 000 states |
| `send_fin` | violated: "Whether a local FIN has been sent" | 1 task, 2 calls |
| `framer` | The pair of framers implements the channel, refuses nothing it wrote, reports the end rightly, reads on | 10 frames of the 9 types, 6 malformed ones, 2 of them in a row, every cut; `Byte` 16; 28 000 states |
| `framer_grow` | violated: "Grow output buffer if needed." | two header blocks, one that shrinks to a sixteenth |
| `upgrade` | The end of the request, its parse, its limit, termination | 16 clients, a limit of 22; 7 000 states |
| `streamio` | Bytes kept and in order, FIN, shutdown | 4 buffers with chunks of 0 to 3 bytes, rooms of 0 to 2, frame channel of 1 with 2 others in line, 3 frames of the owner; 323 000 states |
| `lifetime` | Pings and the end of the connection | 2 tasks that ping, frame channel of 1, 3 events of pings and frames of the peer and the handler; 66 000 states |

Why the bounds are enough. Three frames allow open-reset-reopen of an id,
open-data-data and open-data-FIN, the shortest ways to break the properties of
`conn`; two workers are needed to break an order between them, and channels of one or
two slots fill at once. Two closers are needed for two GOAWAYs. A buffer of two
overflows with three chunks, and two readers make one wait behind the other. Two
tasks make a straggler; three calls are a FIN and two stragglers (the client may have
replied), or a reply, a FIN and a late write. Two others in line for a permit keep it from a
`try_send` for ever, and put the owner's own send before, between and behind them. Two frames are enough for a block inflated in a context that has
seen one and for a frame behind a malformed one; the sample values set every reserved
bit and fill every field, so that a field at the wrong place or width is read back
wrong. `Ratio`, `Growth` and `Slack` scale the buffer of `decompress_headers`: in `framer` deflate
gains no more than `Growth` and no block is cut, in `framer_grow` it gains more. A limit of 22 lies
between the shortest request and the longest. Rooms and chunks meet in every relation:
smaller, equal, larger, empty. Three events are a ping that times out, a second
one and the late echo of the first, or two pings at once and an echo, or a stream, its
handler's frame and its reset or the peer's GOAWAY. Each property has a mutant of the code that the same run
refutes within these bounds, listed in `PROJECT.json`. `MaxFrames`,
`MaxChunks`, `MaxCloses`, `MaxCalls`, `MaxBuf`, `MaxWrites`, `MaxWaiters` and `MaxEvents` are
bounds of the model and nothing else.
Deadlock is not checked: a system whose client has gone quiet stops.

Fairness. The tokio runtime polls a woken task, so a step of the read task, of a
worker, of a caller inside `close()`, of a reader or of a writer that stays possible is
taken (weak fairness per task). Nothing is assumed of the client, of the
application's wish to call or cancel, of failures, or of the write task, which may
wait for ever on a peer that does not read. `CloseReturns` therefore has the
movement of the frame channel as its premise, and `AcceptedIsServed` needs none.
In `close()` the timeout is an event that may come at any time, and weak fairness
says that it comes. `Framer` assumes the scheduling of the reader only. `Upgrade` assumes
that of the task in `accept`, and that the answer is taken or fails; `AcceptReturns` has
the client's blank line or its leaving as its premise, since there is no timeout.
`StreamIO` and `Lifetime` assume also that the transport takes what the write task writes
or fails: without that, a shutdown polls a full channel and a ping waits for room in it for
ever, because `PING_TIMEOUT` covers only the wait for the echo. The queue of tokio's
channel is first come, first served, so a sender that waits gets its turn among others
(strong fairness of `PingSend` and of the read task's steps in `Lifetime`). A polled `try_send`
is in no queue and has no turn: `ShutdownReturns` has weak fairness of the poll and, as its
premise, that the others on the connection send no more at some time.

What the four violated runs show is written down in `PROJECT.json` under `findings`:

* `conn_goaway`: a stream served beyond the announced last good id. `AtMostOneBeyondLastGood`
  bounds it.
* `recv_eof`: an end of stream reported ahead of data. A further call gets the data
  (`EofAccountsForCall`).
* `send_fin`: a FIN flag without a FIN. Only a dropped or failed call does it (`FinFlagAccounted`).
* `framer_grow`: a header block cut short because it compressed too well. A block of more than
  about 600 bytes that repeats the one before it deflates to a few bytes, and 4 times these
  plus 512 is less than the block; the connection ends.

Met on the way, and visible in the models or in the code without a run of their own:

* `serve` is documented to run until "all handles are dropped" (`connection.rs:136-138`).
  The read task holds an `Arc` of the connection, so dropping the handles ends nothing;
  `EndReachesEveryone` therefore needs the peer's close as its premise.
* `wait_closed` is documented for an "I/O error" (`connection.rs:436`). An error of the write
  task does not set the watch; the wait goes on until the read side ends too.
* The test "AsyncRead should correctly reassemble a large DATA frame" (`connection.rs:883`) reads
  through `read_data`, so no test reaches `poll_read` and the early end described with `StreamIO`.
* `poll_shutdown` and `poll_write` can starve. Without the premise of `ShutdownReturns`, TLC answers
  with a loop: another sender waits for a permit, a frame is written, the permit goes to that
  sender, the shutdown is polled and finds the channel full, and another sender waits.
* When the connection ends, waiting pings are not failed: `ping_map` lives in the
  connection that the caller itself holds, and they sit out `PING_TIMEOUT`. `Lifetime`
  never reaches the "dropped" oneshot before the ids wrap around.
* The end of the request is any four CR or LF bytes (`server.rs:43`), not the CRLFCRLF of
  the comment at line 36. For a client that uses CR LF the two are the same, which is
  `SpdyUntouched`; a client that sends four LF is accepted as well.
* `poll_write` looks neither at `replied` nor at `local_fin_sent`: data may go out before the
  reply or after the FIN, so `StreamIO` claims nothing about the order of data and FIN.
* `send_reply` does not look at `local_fin_sent` either: called after a FIN, or twice with FIN, it sends a
  second one, which is the exception in `OneFin`.
* An empty Data frame without FIN reads as the end of the stream in `poll_read`.

## 4. Proofs

TLC checks each invariant on one instance; the theorems hold for all values of the
constants that satisfy the assumption of the module, and for every length of the run. The
bounds `MaxFrames`, `MaxCalls`, `MaxChunks`, `MaxCloses`, `MaxEvents`, `MaxWrites` and `MaxWaiters` are
constants too, so they take nothing away. Assumptions on constants say that channels have
room for one frame, bounds are naturals, a byte has a multiple of 8 and at least 16 values,
`IdSpace` is even and above twice the number of pings (the code's is 2^32; what happens
when ids come round is listed as a hazard), and clients send bytes. `FramesAssumption` says that
the frames the peer sends are frames of `frame.rs` with header maps as above, and that no
payload is longer than its length field can say; `MalformedAssumption` and
`RequestsAssumption` were described with their modules. TLC evaluates all of them on the
instances of the runs. One hypothesis stands in the theorems and not in a module:
`FramesAccepted`, `EndAccountedFor` and `FramesDelivered` have `Ratio <= Growth`, "deflate gains
no more than `decompress_headers` reserves". `framer_grow` violates it, and there the property fails.
Nothing else is assumed.

Each proof has the same plan. A named inductive invariant, `...Inv`, in parts, one per
concern; one lemma that `Init` implies it and one that every action keeps it, an action at a
time; a theorem that weakens it to the property, with `PTL` for the temporal step. TLC
checked each invariant before it was proved, except where one asks for a sequence that no
variable holds (`FramerInv`); there it checked the parts that are about variables.

`ConnectionProofs`:

* `TypeCorrect`. `TypeOK` is not inductive: registering needs `cur.id \in StreamIds`
  while the read task is about to register. `TypeInv` adds that.
* `StreamNeverInUse`, from `IdInv`: every registered id is at most
  `last_client_stream_id`, except the one in the map but not yet stored, and an
  admitted id is above it.
* `OneGoAway`, from `GoAwayInv`: one caller at most is past the swap, and a GOAWAY
  in the channel is that caller's, who is past its send.
* `OneStreamBeyondLastGood`, from `LastGoodInv`, which needs the two before: for
  each last good id loaded or announced, at most one registered id is above it, and
  none while the read task holds an admitted one. Admission needs `gone_away` unset,
  so no such id exists then.
* `EveryStreamClosedAtEnd`, from `ClosedInv`: a registered stream is in the map or
  closed, since a worker closes a stream before it removes it.
* `DataInOrder`, from `QueueInv` and `ReceivedInv`. `ReceivedInOrder` speaks only of
  what has arrived, so the invariant follows the frame from the socket: its number
  is the largest so far while the read task holds it, numbers increase along each
  channel, a channel holds frames of its own streams only (so no second worker can
  overtake), the frame a worker has in hand is older than its channel, and what a
  stream has received is older than all three.
* `FinComesLast`, an action property, from `QueueInv` before and after the step: the
  worker that closes a stream holds a frame older than all that is left for it.
* `HandlerOnce`, from `SynInv`: a SYN_STREAM in hand or in a channel belongs to a
  registered stream without a handler and is the only one for it; a registered
  stream has its handler or its SYN_STREAM on the way. It needs `IdInv` where a
  stream is registered (its id is new) and `QueueInv` where a worker takes a frame
  (other channels hold nothing of that stream).
* `HandlerFirst`, from the same invariant: any other frame in a channel belongs to a
  stream with a handler or is behind its SYN_STREAM, so at the head it has one.

`StreamSendProofs`, for any set of tasks:

* `TypeCorrect`: `TypeOK` is inductive.
* `DataFollowsReply`, from `ReplyInv`: a SYN_REPLY is in `out` once a task is past its send,
  and as soon as `replied` is set by other than the client; a task past the wait of
  `write_data` has seen `replied`, which nobody takes back.
* `FinFlagHonest`, from `FinInv`: the steps only a call with FIN takes are taken with FIN, and
  a reply with FIN that has not set the flag has sent its frame.
* `FewStragglers`, from `StragglerInv`: from the store of `local_fin_sent` on nobody passes the
  check, so a task that has sent Data since is not past it. Without that second half
  `OneStragglerPerTask` is not inductive. `AfterFlag` says what lies behind the store and that the
  Data frames with FIN do, since `write_data` sets the flag first.
* `FinIsFinal`, an action property, from `LateInv`: a call that began after a FIN returned
  cannot be between the check and the send.
* `WakeupNotLost`, from `WakeInv`: a task that waits while `replied` is set has had its
  wake-up or will get it from a task or worker in `notify`. It is the reason for
  `ReplyWakesWriters`, whose liveness stays with TLC.

`StreamRecvProofs`, for any set of readers:

* `TypeCorrect` and `MutexKept`, from `TypeOK` and `QueueInv`: the queue of the mutex holds each
  reader inside `read_data` once. A cancelled reader leaves from any place of the queue, so the
  lemmas about a sequence without its i-th place come first.
* `ChunksKept`, from `ChunkInv`: `delivered`, then `buf`, is the sequence of all chunks pushed
  less those dropped.
* `EofAfterCall` and `EofAfterWakeup`, action properties, from `EofInv`: a reader that goes on to
  look at `remote_closed` has found the channel empty since its call began.
* `ImplementsContract`: the initial state maps to the initial state of `ReadContract`, and every
  step of `Spec` to a step of it or a stutter, under `RecvInv` and `DrainInv` (a reader woken by
  the watch is woken after the close). `Drain` and `CheckClosed` are where the end is reported;
  `EofInv` gives the guard of `End` there.

`LifetimeProofs`, for any set of tasks that ping:

* `EntryKept` and `OkMeansEchoed`, from `IdInv` (a call's id is twice its number), `WireInv` (the
  peer knows ids of written pings only) and `MapInv`. The two properties are one invariant:
  an entry with a waiter belongs to an unanswered call, and an echo is of the call whose
  id it carries because ids differ.

`UpgradeProofs`, for any set of clients and any limit:

* `RunInv`: `consecutive_crlf` is the length of the longest run of CR and LF at the end of what
  was read. `ReadInv`: there are no four such bytes in a row before the last byte read, and
  none at all while the loop runs. `FrontInv`: what was read is the front of what was sent.
* `TooLargeIsTooLarge`: no four such bytes, so no blank line, when the limit is met.
* `SpdyBytesLeft`: the other direction. Four such bytes are a blank line only for a client that
  ends its lines in CR LF, and the run began behind the last other byte. The client must
  send a blank line of its own: a request without one, followed by SPDY bytes that begin with LF LF,
  is a counterexample the proof attempt brought up, and the property now says so.
* `RequestReadBack`: an accepted request is the one the client rendered, for every path, every number of
  headers and every value. `ResultInv`: an accepted request is what the parser makes of
  all that was read. `RequestIsLined`: a rendered request is a sequence of lines without CR and LF, none
  empty but the last, so its one blank line is its end and all of it has been parsed. Then the
  parser undoes `Render` in the order in which it works: `LinesBack` cuts where the lines were
  joined, `RequestLineBack` at the two spaces of the first, `FieldBack` at the first colon of each
  other, whose value may contain more, and `ParseBack` puts them together.

`FramerProofs`, for any `Byte` that `ByteAssumption` admits, 256 among them:

* `NumberOfBigEndian`: reading undoes writing for numbers of 2, 3 and 4 bytes that fit.
* `ControlHeaderReadBack`, `DataHeaderReadBack`: what `read_frame` finds in the 8 bytes that
  `write_frame` made. A data frame is never taken for a control frame, because the masked id
  leaves the top bit of the first byte clear.
* `HeaderBlockReadBack`: `ParseHeaderBlock` of `EncodeHeaders` is the header map, for every number of
  names and values. The parser's loop starts each pair where the one before it ended, and
  these places are the sums of the lengths of the pairs written, by induction over the pairs; a value
  list is split at the NULs that joined it, since values have none.
* `FrameFieldsReadBack`: for every control frame, SETTINGS with any number of entries included,
  `ParsePayload` of `EncodePayload` is `OnTheWire` of the frame, nothing is refused, and the
  block behind the fixed fields is cut out where it was put. `At(s, m, t)`, "t is in s
  from its m-th byte on", and how it passes to longer sequences carry these proofs.
* `FramesAccepted` (`NoFrameRefused`), `EndAccountedFor` (`EofAccountsForFrames`) and
  `FramesDelivered` (the refinement `DeliversFrames`), from `FramerInv`. None of the three is
  inductive: a frame is found behind others only if each of those was read whole, was accepted
  and left the decompressor right. So `FramerInv` speaks of the whole stream of bytes ever
  written, which is no variable: there is a sequence `s` in which every frame stands between
  its ends, with its header, its payload and its block deflated in the place of that block
  (`Writes`); while the reader goes on, what it has not consumed is the rest of `s`, and its
  decompressor has inflated the blocks of the frames returned and no other (`Reading`); what it
  returned is what was written, as `OnTheWire` says (`Delivered`); and once it has seen the end,
  the number of bytes it had consumed tells a cut frame from a closed connection (`AtEnd`).
  A step of the reader is then an instance of the theorems about the codec above, and a
  malformed frame is refused because `NoFrame` says so, whatever it is.

`StreamIOProofs`:

* `FinSentOnce` (`OneFin`), from `FinInv`. A FIN may wait for a permit while the flag is set, and the
  owner makes no other call then; so a frame that waits is the only FIN of a `write_data`, and
  none was in the channel when its call began. `poll_shutdown` sends only while no flag is set, and then
  none is out.
* `ReadsComplete` (`ReadsAreTheStream`), from `ReadInv`: the bytes given out, the remainder and the
  chunks still in the channel are together the bytes of the chunks that were pushed, whatever
  rooms the callers offered; in their order too, unless `read_data` overtook a remainder. It says
  nothing of when the end is reported.

`SequenceLemmas` does what an induction over data would: it takes the set of lengths for which
a fact holds, which has 0 and is closed under successor, and so is `Nat`
(`NatInductionSet`). This form needs no operator as a parameter. What a recursive function computes
is handled in the same way in the modules that define one.

Left to TLC is liveness, and only liveness: `AcceptedIsServed`, `CloseReturns`, `CloseUnblocksReaders`,
`DataWakesReader`, `ReplyWakesWriters`, `WholeFrameIsRead`, `AcceptReturns`, `ShutdownReturns`,
`PingReturns` and `EndReachesEveryone`. Fairness and ENABLED are out of reach of the
prover. Of some the safety part is proved: `WakeupNotLost` for `ReplyWakesWriters`,
`FramesAccepted` for `WholeFrameIsRead`.

## 5. What a next step would be

Every module of the table is written, and every safety property the runs check is a theorem. What
is missing is the composition: `Connection` and `StreamRecv` are joined by the calls
`push_data` and `close_remote` in the text of this file and not in a module. An abstract ordered
channel from the client to `read_data`, with loss at one point (the full buffer), refined by
the two together through `ReadContract`, would join them, and would be the place for the
properties of a whole stream: data sent after a reset, a SYN_STREAM with FIN, finished
streams that stay in the map.

## 6. Not modelled

* The dictionary (constant data; `Preamble` stands for its use), the error type, the crate
  root, logging, and the inside of zlib.
* Text below words: the spelling of methods, header names and values, case folding,
  Unicode white space, the words of the 101 answer and the optional
  `X-Stream-Protocol-Version`. `HeaderName` and `HeaderValue` accept every name and value of the
  samples, except an empty name and line ends in a value.
* `initial_window_size` and `ServerConfig`'s timeouts (stored, never read),
  `next_server_stream_id` (never used), `stream_count` (a read), `Connection::new` (an
  unserved connection whose channel is closed), `poll_flush` (does nothing).
* Frames of 2^24 bytes and more, listed as a hazard: the length is truncated by
  `EncodeHeader` as in the code, but no run has such a frame.
* SYN_STREAM frames carry no FIN in `Connection`: the worker ignores that flag, which is
  listed as a hazard.
