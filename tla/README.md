# A TLA+ model of csup

csup is a CVSup client in C: it brings a set of local file collections up to
date from a server. It runs as a handful of POSIX threads over one TCP
connection, which it multiplexes into two byte channels.

This directory holds TLA+ modules translated from that code, the TLC
configurations that check them, and proofs that TLAPS checks. `PROJECT.json`
says, for each definition, which lines of the code it stands for; which mutated
definition breaks each property; and which hazards of the code the properties
are about.

Run `tlc -config X.cfg M` for a module and configuration of the table in section
3, and `tlapm M.tla` for the proofs in a module `M` of section 4: `CircBufProofs`,
`MuxProofs`, `MuxLifeProofs`, `SessionProofs`, `UpdateProofs`, `MergeProofs`,
`ConvergeProofs`, `RcsProofs`.

## 1. The system and its parts

```
   main thread: main.c -> proto.c: greet, login, negotiate, start, wait, end

   lister  --chan 0-->  server  --chan 0-->  detailer
                                               |  ^
                                        chan 1 |  | fixups.c
                                               v  |
   updater <---------chan 1---------  server      |
      |  \________________________________________|
      v
   status.c, rcsfile.c, diff.c, keyword.c, fattr.c: the local files

   mux.c: sender and receiver thread below both channels
   proto.c: killer thread (signals)
```

Channel 0 carries lister -> server and server -> detailer, channel 1 detailer
-> server and server -> updater.

| Part | State | Operations | Interacts through |
|---|---|---|---|
| Circular buffers (`mux.c`) | `buf->data, in, out, size` | `buf_put`, `buf_get`, direct access by sender and receiver | a channel lock, released during I/O |
| Multiplexer (`mux.c`) | per channel `state, flags, sendseq, sendwin, recvseq`, buffers, two condition variables; `sender_waiting`, `sender_lastid` | `chan_listen/accept/connect/read/write/close/wait`, sender loop, receiver loop, `sender_wakeup` | packets to the peer, condition variables to the callers |
| Life of the multiplexer (`mux.c`, `proto.c`) | `closed`, `status`, the threads | `mux_open`, `mux_shutdown`, `mux_close`, killer | `pthread_cancel`, `pthread_join`, signals |
| Session (`proto.c`, `threads.c`, `fixups.c`) | lists of running and dead threads, fixups queue, exit statuses | `threads_*`, `fixups_*`, `proto_run` | shared queue, condition variables, both channels |
| Lister (`lister.c`, `attrstack.c`) | position in the status file, depth of pruning, attribute stack | one batch of file names and attributes | channel 0 |
| Detailer (`detailer.c`) | position in the list, fixup in hand | two batches of requests | channels 0 and 1, fixups |
| Updater (`updater.c`) | position in the updates, temporary file, deletions | two batches of file operations | channel 1, fixups, status file, disk |
| Status file (`status.c`, `pathcomp.c`) | old file read, new file written, depth | sorted merge, `status_get/put/delete/close` | lister reads, updater writes |
| RCS files (`rcsfile.c`, `rcsparse.c`, `rcslex.c`) | delta tree, branches, tags | import, add and delete deltas, write | updater, detailer |
| Streams (`stream.c`) | read and write buffers, filters | `stream_getln`, `stream_write`, `stream_flush`, `stream_close` | channels and files |
| Negotiation and login (`proto.c`, `auth.c`) | protocol phase | request and answer, one after the other | the socket |
| File attributes (`fattr.c`) | mask and values | encode, decode, merge, compare, install | lister, detailer, updater |
| Name filters (`globtree.c`, `fnmatch.c`) | pattern tree | test | lister, detailer, updater |
| Deltas and keywords (`diff.c`, `keyword.c`, `rsyncfile.c`) | edit position | apply a diff, expand keywords, block checksums | updater, detailer |
| User and group cache (`idcache.c`) | hash tables | look up both ways | behind two mutexes |
| Configuration (`config.c`, `parse.y`, `token.l`, `main.c`) | the collections | read once | all |
| Utilities (`misc.c`) | - | paths, backoff timer, RCS numbers | all |

### What is hard, and what makes each part correct

- **Buffers.** Sender and receiver drop the channel lock during `writev()` and
  `read()` and go on using indices and sizes of before. Correct if the slots
  under I/O stay away from the other thread and no byte is lost at a
  wrap-around.
- **Multiplexer.** A credit scheme in 32-bit arithmetic; flags set by many
  threads and sent by one that sleeps; a scan over the channels that locks one
  at a time; `pthread_cond_signal()` on variables with several waiters. Correct
  if every direction is a reliable byte pipe, the peer's checks never fail, no
  thread sleeps for ever.
- **Its life.** Four threads may call `mux_shutdown()`, which cancels and joins
  two of them. Correct if it happens once, everybody wakes up, the status of
  the first one counts, and nothing uses the multiplexer after it is freed.
- **Session.** Three workers that wait for one another through the server, a
  queue from the third back to the second, failures of any of them at any time.
  Correct if all fixups are asked for, success means everything, and the
  program ends.
- **Lister.** Pruned directories and the attribute stack must follow the
  nesting of the status file.
- **Detailer.** Requests depend on what is on disk and in the status file; a
  wrong decision loses an update or local changes.
- **Updater.** A file is replaced only by one whose checksum is right; the
  status file must not claim what is not installed; deletions are limited.
- **Status file.** The merge must keep the order, drop what is deleted and copy
  the rest; `rename()` must not install a truncated file.
- **RCS files.** The delta tree must stay a tree with consistent texts when
  deltas are added and deleted on branches.
- **Streams.** Both ends switch compression on and off in mid-stream, with buffers
  that hold bytes of both parts. Correct if every line arrives, and none is
  waited for that stays in a buffer.
- **Attributes, filters, deltas, keywords.** Sequential algorithms:
  correct if they agree with a reference definition.
- **Negotiation, configuration, id cache.** Flags and lookups, with little
  state that could go wrong over several steps.

## 2. What is modelled

### `CircBuf` (abstract specification: `ByteFifo`)

One `struct buf` of `Size` bytes (array of `Size + 1`), either a send buffer or
a receive buffer. `BufPut` and `BufGet` are `chan_write()`'s and `chan_read()`'s
critical sections. `DrainBegin`, `DrainByte`, `DrainEnd` are the sender's
unlocked `writev()`, byte by byte, in two pieces around the end of the array;
`FillBegin`, `FillByte`, `FillEnd` the receiver's `read()`. A byte is its
position in the stream, so a lost, doubled or displaced byte shows.

### `Mux` (abstract specification: `BytePipes`)

Two ends, `NChan` channels between them, each with its main thread, a writer, a
reader; a sender and a receiver per end. An action is one critical section of a
channel lock, or a step outside of any lock:

- `Open`, `AwaitOpen`: `chan_connect`, `chan_listen`, `chan_accept`;
  `ChanWrite`, `ChanRead`, `ChanClose`, `ChanWait`: those functions, including
  the wait on a condition variable (`asleep`), which a signal ends by removing
  the thread. `ChanWrite` copies what fits and waits if something is left.
- `WakeupRead`, `WakeupSignal`: the two halves of `sender_wakeup()`, which reads
  `sender_waiting` under the multiplexer lock and acts on it after releasing it.
- `ScanFinds`, `ScanFindsNothing`, `BuildPacket`, `WritePacket`, `PostData`: the
  sender. `left` counts the channels it still has to visit; while it is not 0
  the sender holds the multiplexer lock. `pkt` is what it computed before it
  unlocked the channel, used again in `PostData`.
- `ReceiveConnect`, `ReceiveAccept`, `ReceiveWindow`, `ReceiveData`,
  `PayloadRead`, `ReceiveClose`: the cases of `receiver_loop()`. A protocol error
  is the state `"bad"`.

Buffers are stream intervals here (`sin`, `sout`, `rin`, `rout`); `CircBuf` is
the reason this is sound. Sequence numbers are modulo `SeqMod`, for 2^32.

The callers are those of csup: channel 0 is opened by the client, channel 1 by
the server after it was told to (`Opener`, `MayOpen`); a side is closed by the
main thread after its workers are done (`MayClose`).

### `MuxLife`

The client from `mux_open()` to `mux_close()`: the main thread's path through
`proto_mux()` and the end of `proto_run()` (`mpc`), the two I/O threads (`io`),
the workers as far as they block or fail, the killer. `mux_shutdown()` is taken
apart into `ShutdownEnter` (the test of `closed`, the closing of the channels),
`ShutdownCancel` and `ShutdownJoin` for each of the two threads, and any of
four threads may be in it (`sd`). `IoCancelled` is a cancellation point; a
thread that is in `mux_shutdown()` itself is not cancelled.

### `Session`

`proto_run()` (`ThreadsWaitSleeps`, `Reap`, `Return`), `threads.c`, `fixups.c`,
and the three workers as far as they synchronize. What a worker says about one
collection is two items: the `COLL` line and the rest up to its `.`; a batch is
the items of all collections and a final `.`. `litem`, `ditem`, `uitem` say
where the workers are; `lout`, `dout` what has been flushed; `listed`, `sent` what the
server has passed on. The last item of lister and detailer stays in the
stream's buffer until the main thread closes the stream in `Reap`. The updater's
`upc` is its place in `updater()`: in a batch, in `fixups_close()`, about to
signal, at the end. `fixups_put()` and `fixups_close()` are two actions each:
the change under the lock and the signal after it. `puts` and `requests` are
history variables.

`Fails` and `UpdaterFails` let a worker fail wherever it can: because the
connection is down, or for a reason of its own if `Errors`. The memory of a
fixup (`fixups->cur`, freed by the next `fixups_get()`) is not modelled.

### `Status`, `Update`

`Status` has the status file as operators: the order of records
(`statusrec_cmp()`, in which a `DirUp` follows all that is in the directory), the
path compressor, `status_wr()` and `status_wrraw()` with its assertions (`Write`,
`WriteRaw`, `InSync`), `status_get()`, `status_put()`, `status_delete()`, the end
of `status_close()` (`Seek`, `Put`, `Delete`, `Finish`) and the checks of the
reader (`Readable`).

`Update` is one collection, run after run, in checkout or in CVS mode. Its state
is what is on disk (`disk`, `dirs`, the status file `stat`), the server's tree
`srv`, and what the run in progress keeps in memory. `Start` is the lister's walk
(`ListRecord` and the operators before it: one for each case of `lister_coll()`,
with `depth`, `prunedepth` and the attribute stack) and the requests the server
makes of it; `Detail` is `detailer_coll()` and what the server answers. Then
there is one action for each command of `updater_docoll()`: `MakeDir` (`I`),
`RemoveDir` (`i`, `j`), `SetDirAttrs` (`J`), `RemoveFile` (`D`), `UpdateDead` (`u`),
`CheckoutDead` (`c`), `SetAttrs` (`T`), `RecordCvs` (`L`, `l`), `Checkout` (`C`,
`Y`), `Diff` (`U`), `Rsync` (`r`), `Add` (`A`, `a`), `RcsFixup` (`X`, `x`),
`RcsEdit` and `RcsEditFails` (`V`, `v`). All that install a file do so by
`UpdateFile`, the first half of `updater_updatefile()`: checksum and rename. Its
second half, `RecordFile`, is a step of its own (`pc = "record"`, or `"move"` if the file
changes its place): it looks at the file again and records the attributes it finds
under the revision of the command, so that a user's edit between rename and look
(`updater.c:979`, `:997`) is recorded too. `Unlink` removes a moved file from its old
place. `Close` and `Flush` are `status_close()`: the rename, and the
closing of the stream that writes the data. Faults: `Crash` between any two
steps, `LostConnection`, a transfer with a wrong checksum, the deletion limit, and
`UserEdits`, a user who changes, touches or removes a file at any time. `Again`
is the next run.

`Start` and `Detail` take all files at once, although lister, detailer and
updater run at the same time: for each file they act in this order and look at
this file only, so that an order with all of the lister's steps first can be
found for every run, as long as the user's edits of one file may fall anywhere
between the three.

Left out: the commands `N`, `n`, `R`, `S`, `Z`, `H`, `h` (links, appending, unchanged
checkouts, block checksums), changes of tag or date, `-s`, name filters, refused
names, `delete` turned off; names that are a file on one side and a directory on
the other; dead files that are not RCS files. An attribute and the version it
belongs to are one value. Deleting a file never fails.

### `Rcs`, `Diff`

`Diff` has `diff_apply()` and `diff_reverse()` line by line, with the checks of
`diff_geteditcmd()`. `Rcs` has one RCS file: `Parse` builds the delta tree as
`rcsfile_importdelta()` does, placeholders included (`ImportReadOnly` is the short
form for the detailer); `DeleteRev`, `AddDelta`, `SetBranch`, `DeleteTag`, `AddTag`
are the commands of `updater_rcsedit()`; `WriteRcs` is `rcsfile_write()`, with the
order of deltas (`WriteDeltas`) and of texts (`WriteTexts`), and the texts made as
`rcsfile_puttext()` does. The two loops over a stack are folds with one turn for each
delta of the table; that this is enough, and the stack empty at the end, is proved for
the deltas, and for the texts `TextsWritten` would fail if it were not. `Install` compares
the result with the server's file, which stands for the MD5 checksum.

States, authors, logs, keyword expansion, locks and a missing newline at the end
of a file are left out, and three checks that no file of a server fails: the end of an
import at a text of an unknown revision (`rcsparse.c:324`), the error for a delta
that is there twice (`rcsfile.c:1077`), and `diff_reverse()`'s own look at positions, after
`diff_apply()` has looked at them.

### `Stream`

A writer and a reader of `stream.c`, each with its buffer, a second one when the
zlib filter is on, and what `deflate()` and `inflate()` hold back. `StreamWrite`,
`StreamFlush`, `StartDeflate`, `StopDeflate`, `CloseWriter` are the functions
called; `FlushDefault` and `ZFlush` are the flush methods, one call of `deflate()`
per step; `Fill` and `ZFill` the fill methods, one `read()` or `inflate()` per
step; `GetLn`, `GetLast`, `GetNothing` the ways `stream_getln()` can end;
`StartInflate`, `StopInflate` the filter at the reading end. Reads return any
number of bytes, `deflate()` and `inflate()` take and give any amount that their
documentation allows.

A compressed byte is as long as a plain one. Writes are not partial (`FlushDefault`
loops until all is written) and do not fail. Left out: the MD5 filters,
`stream_read()`, `stream_truncate()`, `stream_rewind()`, streams over a buffer. The
writer never waits for an answer of the reader, as no conversation of csup over a
filtered stream does, so what a flush leaves in the compressor is not seen.

### Assumptions about what is outside

- The server is not in this repository. In `Mux` both ends run `mux.c`; in
  `Session` the server passes items on one by one and in order; in `MuxLife` it
  answers as long as the connection lives.
- TCP delivers in order or fails.
- No `chan_write()` is larger than the send buffer (`MuxAssumption`): the code
  would wait for room without waking up the sender, but no caller does it.
- In `Session`, `stream_close()` in the main thread does not block.
- In `Update` no name of a collection is empty, none is a file and a directory at
  once, none has a directory called Attic, which is component 0, and none has as many
  components as `INT_MAX`, which is what `prunedepth` is when nothing is pruned
  (`UpdateAssumption`). The server does not change between runs, sends commands in the order of
  the status file, asks for what differs from its tree, and sends a fixup as a whole
  file. In `Rcs` it keeps the client's head revision, deletes no branchpoint before its
  branches, deletes before it adds, sends a delta only after the one it is a
  diff of, and sends anew the deltas whose predecessor changes.
- In `Stream` both sides start and stop the filter at the same lines, and stop it
  before they close.

## 3. What is checked

| Run | Module, configuration | Bounds | Shows |
|---|---|---|---|
| `circbuf` | `MCCircBuf`, `CircBuf.cfg` | 4 bytes, pieces up to 3, 12 bytes | the buffer is a FIFO under unlocked I/O |
| `mux_one` | `MCMux`, `Mux_one.cfg` | 1 channel, buffers and segments of 2, sequence numbers modulo 3, 3 bytes up and 1 down, spurious wakeups | flow control, order, no lost wakeup, reliable pipe, everything is delivered and closed |
| `mux_two` | `MCMux`, `Mux_two.cfg` | 2 channels, buffers of 1 | the sender's scan over channels, the server's channel |
| `muxlife` | `MCMuxLife`, `MuxLife.cfg` | 2 workers, interrupts, connection lost after `proto_mux()` | one shutdown, orderly success, the program ends |
| `session` | `MCSession`, `Session.cfg` | 2 collections, up to 2 fixups each, failures anywhere | fixups, wakeups, assertions, scan time, success, the program ends |
| `update` | `MCUpdate`, `Update.cfg` | 3 files in nested directories, two of them RCS files, at most 2 changed on the server, 1 fault | the merge, the walk, an honest status file, convergence, nothing left to ask for |
| `rcs` | `MCRcs`, `Rcs.cfg` | 7 revisions, 2 histories, from any of 51 trees to any other with the same head | the delta tree, the file written, the texts |
| `stream` | `MCStream`, `Stream.cfg` | 4 conversations of up to 15 bytes, buffers of 2 and 5 | all lines arrive, whole |

Four more runs show where the code does not do what it says; see section 5.

Why the bounds are enough:

- `circbuf`: 12 bytes through 5 slots turn both indices round more than twice;
  pieces of up to 3 give every split at the end of the array.
- `mux_one`: the sequence numbers wrap after 3, and the client sends 3 bytes
  through a window of 2, so that it runs out of credit and needs an update.
  `SeqMod` is the smallest value that tells a full window from an empty one.
- `mux_two`: two channels are all that csup opens. Bytes only go down, which is
  enough for the sender's lock over its scan to matter.
- `muxlife`: two workers give one that fails and one that blocks.
- `session`: with two collections the detailer must keep a fixup of the second
  one over the end of the first section; with two fixups in a row the queue is
  found not empty, and no signal is sent.
- `update`: `<<1, 1, 1>>`, `<<1, 2>>`, `<<2, 1>>` give directories that are opened
  and closed two at a time and a file after a subdirectory; with two changes one
  can be before, after or in the directory of the other, and directories come
  and go. One fault gives every place for a crash; with `MaxFaults = 2` and the
  invariants alone (4.8 million states, four minutes) nothing else was found.
- `rcs`: a trunk of three, two branches at one revision, and a branch on a branch:
  every shape that the two writers treat differently.
- `stream`: buffers of 2 are shorter than a line and must grow, those of 5
  hold bytes of two parts; each conversation is one that csup has (a header
  before a compressed list; one that is not flushed; long lines; a file).

### The properties

- `CircBuf`: `LeaseIsSafe` (the slots used without the lock are out of reach of
  the other thread), `StreamIntact` (array, I/O under way and output together are
  the stream), `ImplementsFifo` (refinement of `ByteFifo`).
- `Mux`: `NoProtocolError` (none of the receiver's checks ever fails),
  `FlowControl` (credit and data in flight together never exceed the peer's
  buffer), `StreamInOrder` (the next byte the receive buffer gets is the one after
  its last, each packet in flight continues the stream where the one before it
  ends, and the last one ends where the sender thread is), `NoLostWork` (in `mux_two`:
  the sender does not sleep on work unless a wakeup is on its way: the comment in `sender_wakeup()` about the
  benign race), `NoMissedSignal`, `WindowNeverShrinks` (action property),
  `ImplementsPipes` (refinement of `BytePipes`), `Completes` (liveness).
- `MuxLife`: `OneShutdown`, `SuccessIsOrderly` (action property), `MainReturns`
  (liveness).
- `Session`: `FixupsInOrder`, `NoLostWakeup`, `AssertionsHold`, `ScanTimeKnown`,
  `SuccessIsComplete`, `Returns` (liveness).
- `Update`: `MergeIsExact` (old and new records together are always what was put plus
  the old ones of other files), `StatusReadable`, `ListerReports`, `StatusIsHonest`
  (the recorded attributes go with the recorded revision), `Converges` (a run without
  errors leaves the server's files), `NextListIsRight` (and nothing to ask for the next
  time), `EventuallySynced` (liveness: runs repeated after whatever faults end there).
- `Rcs`: `TreeSound`, `WrittenTree`, `TextsWritten` (the new file gives back the
  contents of every revision), `DetailsComplete`, `ReverseIsInverse`.
- `Stream`: `Delivers` (the lines as written, all of them, no thread waiting for
  what the other keeps in a buffer).

Each has a mutant in `PROJECT.json`: a plausible slip in one definition (an
index that does not wrap, a lock that is not taken, a signal on the wrong
condition, `++size == 0` for `size++ == 0`, an error path that skips
`fixups_close()`), with which TLC finds the property violated.

### Fairness

Weak fairness of a thread means that the scheduler runs it. Where a thread
competes for a mutex (`sender_wakeup()`, the receiver), strong fairness
stands for a mutex that is granted in the end to one who keeps asking. In
`MuxLife`, strong fairness of `ReadFails` says that a lost connection is noticed
by the pending `read()`, of `IoCancelled` that a cancelled thread reaches a
cancellation point, of `WorkerEnds` that a worker does not talk for ever. In
`Session` the server answers (weak fairness of its two steps) while the
connection is up, and a read fails once it is down. `FairSpec` of `Mux`
also says that spurious wakeups end: without it two threads may exchange them for
ever. `LiveSpec` of `Update` is weak fairness of `Run`, which includes `Again`:
csup is run again, by its user or by cron, and faults end because they are counted.
In `Stream`, weak fairness of the writer and of the reader. No
fairness is assumed of failures, signals, lost connections, crashes or edits.

## 4. What is proved

The proofs hold for every value of the constants that satisfies the `ASSUME` of
the module:

| Assumption | Says |
|---|---|
| `BufAssumption` | buffers and pieces have a positive size |
| `MuxAssumption` | any positive number of channels, sizes of buffers and of segments, limit on packets in flight; the sequence numbers can tell a full window from an empty one (2^32 is more than a buffer has); no write is larger than the send buffer |
| `LifeAssumption` | any finite set of workers, with or without signals, whether or not the connection may be lost early |
| `SessionAssumption` | any positive number of collections, any bound on the fixups, with or without failures |
| `UpdateAssumption` | any finite set of files with non-empty names outside of any Attic, shorter than `INT_MAX`, none a file and a directory at once; any subset of them RCS files, any deletion limits, any number of faults |
| `RevsAssumption` | any finite set of revisions, each one pair of numbers or several; any contents and any dates |

TLC checked every inductive invariant below on the instance of the run of that
module before it was proved; that of `Update` also with two faults.

### `CircBufProofs`

`BufferIsCorrect == Spec => [](TypeOK /\ LeaseIsSafe /\ StreamIntact)`: the
conjunction is inductive. The index arithmetic comes first: moving an index twice
is moving it by the sum, different distances lead to different slots, the two
pieces of an access are the slots found by going round. Then there is one lemma
for each action. `LeaseIsSafe` is what the others rest on: it keeps the slots
that `BufPut` writes apart from those the sender still reads, and the slots the
receiver fills apart from those between `out` and `in`. `IndicesInRange` and
`UnlockedIOIsSafe` state two of the conjuncts by themselves.

`BufferRefinesFifo == Spec => ImplementsFifo`: with that invariant every step is a
step of `ByteFifo` or a stutter.

### The multiplexer: `MuxProofs`

The module begins with data: sequence numbers that wrap (`Plus`, `Minus`), and a line
of packets to which one thread appends and from which another takes the first:
what such a line still owes the other side, whether it continues a stream, which
windows it offers.

After that it has what one end knows by itself, `Local`: `TypeOK`; threads hold what
their program counters say (`ThreadsHold`); the packet the sender built is the
beginning of what is in the send buffer, although the lock was released in
between (`SendHolds`); the receiver's payload fits (`RecvHolds`); how far the main
thread is, and the state of its channel (`MainKnows`); nothing is written before
the channel is open (`NothingYet`); the flag for data stands for data that no
packet has yet (`DataPending`). Gives `TypesHold`.

Then comes what the two ends know of one another, `Cross`. Everything on its way
to the peer is one line: the payload that the peer is reading, the network, the
packet that the sender is writing. Flags not yet sent and the one just picked
come after it.

| Part of `Cross` | Says |
|---|---|
| `NoProtocolError` | none of the receiver's checks has failed |
| `Handshake` | how far the two sides are in opening the channel |
| `Tokens` | what each packet on its way implies of both sides; those that open and close are sent once |
| `AcceptFirst` | the answer to `CONNECT` comes before anything else |
| `Closing` | a side closes after all was written, and the other side's data read |
| `InOrder` | data packets continue the stream from the receive buffer to the send buffer |
| `Credit` | the distance of the two ends modulo `SeqMod` is the true one and stays in the window; windows on their way only get larger |

`NoProtocolError` is not inductive without the rest: that an `ACCEPT` finds its
channel connecting needs `Tokens`, that no data arrives before it needs
`AcceptFirst`, that data fits in the buffer needs `Credit`, and that the peer agrees
about the sequence number needs `InOrder`.

The theorems follow:

- from `Local /\ Cross`: `NeverAProtocolError`, `CreditIsSound` (`FlowControl`),
  `BytesStayInOrder` (`StreamInOrder`), `WindowsOnlyGrow` (`WindowNeverShrinks`, an
  action property), and `ChannelsArePipes == Spec => ImplementsPipes`, the
  refinement of `BytePipes`;
- from `Sleeps` as well (what a thread that sleeps waits for; no two of them sleep on
  one condition variable, so `pthread_cond_signal()` wakes the right one):
  `NobodyOversleeps` (`NoMissedSignal`);
- from `Scans` as well: `NoWorkIsLost` (`NoLostWork`). The scan looks at one channel
  after another and holds the multiplexer lock all the while. `Scans` says that if
  there is work on a channel that it has passed already, the thread that made this
  work is waiting for that lock; when the sender sleeps, this thread is still on
  its way to the signal.

### `MuxLifeProofs`

The invariant is `TypeOK`; whoever is in `mux_shutdown()` has a reason
(`ArgKnown`); one caller at most is past the test of `closed` (`SingleCloser`);
before `chan_connect()` only the receiver can have failed (`StartedFirst`); no
channel opens again after the shutdown (`StaysClosed`); the main thread alone asks
for `SUCCESS`, when all workers are reaped and the channels closed
(`SuccessIsLast`); it gets to `mux_close()` through a shutdown (`ClosedByThen`).
Theorems: `LifeTypes`, `OneThreadShutsDown` (`OneShutdown`), `SuccessComesLast`
(`SuccessIsOrderly`, an action property), `ReturnsSuccessRightly` (a `SUCCESS` that
`proto_run()` returns means that all workers ended and both channels were
closed), `ClosedBeforeFreed` (the `assert(m->closed)` of `mux_close()`).

### `SessionProofs`

All the safety properties of `Session`, as invariants of `Spec`. Each is the
consequence of one that is inductive with the help of those before it:

| Inductive invariant | Says | Gives |
|---|---|---|
| `TypeOK /\ Progress` | no thread is ahead of the one it reads from | `Types` |
| `Control` | where `updater()` is with respect to `fixups_close()` | `NoAssertionFails` |
| `NoLostWakeup` | inductive by itself | `NoWakeupIsLost` |
| `Scanned` | the scan times set so far | `ScanTimeIsKnown` |
| `Queue` | `FixupsInOrder` position by position | `FixupsAreInOrder` |
| `Sections` | fixups are put in the order of the collections, so none of a section that is over is left or can still come | with `Outcome`: |
| `Outcome` | every failure is on its way to `proto_run()` | `SuccessIsForAll` |

The interesting one is `Sections`. `detailer_batch()` only finds out that a
collection has no more fixups by taking one of a later collection, or the end of
the queue. That this leaves none behind depends on the updater going through the
collections in the same order and never being behind the section that the
detailer is in.

### `UpdateProofs`

`Types == Spec => []TypeOK` and `Honesty == Spec => []StatusIsHonest`: the attributes
that the status file records for a checked-out file are those of the revision it
records, except where a user changed the file between the detailer's look at it
and the updater's, or between the updater's rename and its last look (`raced`). This
holds through crashes, lost connections, wrong checksums, the deletion limit and the
raw copying of what a run did not reach.
The invariant is `IInv`:

| Part | Says |
|---|---|
| `TypeOK` | types of the disk, the server's tree, the files, what is on its way |
| `Book` | every record is honest: those of the status file, those read and not yet merged, those already in the new file |
| `Plan` | what is on its way are commands that the server sends: for its own files, in the right mode, at its revision, the fixups too |
| `Told` | when only attributes are to be set (`T`), the file is at the revision the server names, or a user has changed it since |
| `Installed` | a file that was installed and is not recorded yet is at the revision the server names, or a user has changed it since |

`Honesty` alone is not inductive: `SetAttrs` and `RecordFile` record what they find on
disk under the revision in the command, and only `Told` and `Installed` say that they
belong together. `Told` in turn holds because `Detail` compared the file with the server's attributes, and no
command for one file changes another.

The lister's walk, the detailer's answers and the copying of the status file are
folds over sequences. What they preserve is proved by induction on the length of
the sequence, stated without an operator as a parameter: a set of natural numbers
with 0 and all successors is `Nat` (`NatSet`, from the least element of a
non-empty set), from which the values of a fold exist (`FoldExists`) and grow one
by one (`FoldUp`).

### `MergeProofs`

What happens to the status file, on top of `UpdateProofs`:

- `MergesExactly == Spec => []MergeIsExact`: at every moment of a merge the old records
  that are left, the one in hand and the new ones written are exactly the records
  that were put and the old ones of all other files, and no file has two.
- `WritesReadable == Spec => []StatusReadable`: a file written out completely is
  sorted and opens and closes its directories, as `status_rdraw()` requires.
- `KeepsPlace == Spec => []ListerReports`: the lister lists every file whose directories
  exist, under its own path, and ends where it began. It needs `ModeInv` as well: the
  records of the status file are those of the mode csup runs in.

First comes the order. `Digit` spells a record: the components of its path, then a
last digit that is below every component, or for a `DirUp` above. `statusrec_cmp()`
is the lexicographic order of these spellings, and hence total and transitive on
records of different places (`Same`); what lies between a `DirDown` and its `DirUp` lies in
the directory. `Order` and `StatusOf` sort by rank, so they need that a
rank in a finite linear order is taken by one member.

A sequence of records is `Increasing`, and `Linked`: each record is in the directory
in which the one before leaves the path compressor, so that `status_wrraw()`
can write it with no mark in between. `Sound(dir, recs)` is both, and says that the
compressor ends in `dir`. `Merged` says of an open status file that what was
written is `Sound`, that the record in hand and the old ones left follow one another
in the same sense, and that they come after what was written.
`status_get()`, `status_put()`, `status_delete()` and `status_close()` keep this if the
key is above all that was written (`Below`), which is so because the server sends
its commands in order. The invariant is `MergeInv`:

| `pc` | `MergeInv` says |
|---|---|
| any | the status file is `Increasing` and `Linked` from the root; the fixups are sorted |
| `detail` | the requests are `InOrder`: sorted, each about a file or a directory as its letter says, an `i` before each `j` |
| `apply`, `record`, `move`, `unlink` | `Working`: the open file is `Merged` into `want`, the commands left are in order and none is below what was written; and they come after the fixups queued |
| `flush` | the status file is `Sound` and ends at the root |

Fixups are queued in the order of the updates, which is what makes the second merge
of a run possible.

For the lister, `Way` relates counters to records: `depth` is the nesting so far, the stack
holds the directories of `here` and no pruned one, `prune` is `Far` or the depth at which
a directory was missing. With `Linked` the record read next is in the directory where the
record before left off, so a pruned one ends at its own `DirUp`.

### `ConvergeProofs`

`Convergence == Spec => []Converges`: a run that met no error, and no user's edit, leaves
every file as the server has it, whatever earlier runs left behind: crashes half-way,
garbled transfers, an aborted merge, files in two places. Relative to `IInv`, `MergeInv`
and `ModeInv`, the invariant `SyncInv` is:

| Part | Says |
|---|---|
| `OnePlace` | a file is in the Attic and outside of it only while it is moved, or in `split`, where the code left it so |
| `Asked` | requests, commands and fixups ask for what the server has, at its revision and in the right place |
| `Written` | a status file that is not rewritten says what it should; the second batch leaves no fixups |
| `Others` | the commands that follow a file being moved are about others |
| `Settled`, if no error and no edit so far | every file that no request, command or fixup is left for is as the server has it; what the commands not begun (`Ahead`) take for granted (`Fit`) is so |

`Settled` is what `Converges` becomes before the run is over, and the argument follows
the run:

1. `Start`: a file the server does not ask about (`NotAsked`) is listed as the server
   has it, and by `ReportAgrees` what is listed is what is there. Here `Walk` and
   `Order` must neither lose a file nor name it twice.
2. `Detail`: every request gets its answer (`DetailSettled`), and the answer fits what
   the detailer saw (`AnswerFits`).
3. A command leaves its own file as the server has it, or queued as a fixup
   (`CommandOwn`, `RecordAgrees`, `UnlinkAgrees`), and all others as they were (`CommandLeaves`,
   `CommandFits`). A garbled transfer is the case for which `Fit` and `Due` are needed: the file
   is not right, but it is due. So is one that is installed and not recorded yet; by
   `Installed` it is recorded as the server has it.
4. `Close` writes out exactly `want`, which follows from `MergeInv`, and the fixups become the
   commands of a second batch. That batch sends whole files, so none is left when the
   run ends.

### `RcsProofs`

`IInv` says what the three things of an edit are at any time:

| `pc` | `IInv` says |
|---|---|
| any | the client's file is `Shaped` after some tree of the server: each delta once, none in front of the one it depends on, a text for each |
| `edit` | `Edited`: what the struct has is `Left`, the kept revisions, those not deleted yet and those already added; it is `Sound` for this set (table and lists are ordered and have it, branches hang at their branchpoints); a delta that stays depends on one that stays, or is the head; additions begin when no deletion is left |
| `written` | `Made`: the struct is `Sound` for the goal, and the deltas written are those of the goal, once each, in an order that can be read back |

The theorems are `TreesSound` (`TreeSound`), `TreesWritten` (`WrittenTree`), `DetailsFound`
(`DetailsComplete`) and `FilesComplete` (`TypeOK`). The argument has four parts:

1. *Orders.* `rcsnum_cmp()` is a linear order on the numbers (`RevLessTransitive`,
   `RevLessTotal`); a finite set in a linear order has exactly one ordered sequence
   (`Enumerated`); the three loops that look for the place of a delta or a branch
   keep a list ordered (`InsertSorted`), and removing keeps it (`RemovedFirst`). With these, `Before`
   and `NextIn` are inverse to each other (`NextFacts`), and no two deltas have the same next
   one on their branch (`BeforeInjective`).
2. *Folds.* A fold is the last of a sequence of states (`FoldSteps`), so that what each turn
   keeps holds at the end. It is induction over the turns, as a statement about a set of
   numbers (`NatSet`).
3. *Reading and editing.* One delta read takes what is `Parsed` of some of the tree to what
   is `Parsed` of it with one more (`ImportDeltaKeeps`), with the placeholder for its next one;
   at the end no placeholder is left, because every delta announced is there
   (`ParseShaped`). A deletion and an addition take `Edited` to `Edited` (`DeleteEdited`,
   `AddEdited`): the server keeps whole paths to the head (`KeptFacts`), so the base of
   what stays is never deleted.
4. *Writing.* `Stack` is the invariant of the loop of `rcsfile_write()`: on the stack is,
   once each, just what depends on a delta that has been written and has not been written
   itself. A turn takes one delta from it and puts on what depends on that one: the next
   one (`ListNext`) and the heads of its branches (`FirstsFacts`). With an empty stack
   the written set contains the head and all that depends on its members, so it is the tree;
   and as each turn writes another delta, as many turns as there are deltas empty it.

### Only model-checked

- Liveness: `Completes`, `MainReturns`, `Returns`, `EventuallySynced`. The provers
  used here do not prove liveness under fairness, nor `ENABLED`.
- `Update`: `NextListIsRight`. Its first part says that a directory is compared with its own
  attributes: `status_wrraw()` would accept a `DirUp` of another directory of the same
  parent, and that there is never one depends on which directories were put
  and deleted over many runs, which `Linked` does not keep. Its second part is about
  the records of directories, of which `SyncInv` says nothing.
- `Rcs`: `TextsWritten`, and `ReverseIsInverse` of `Diff`. What a script of any length
  does to a text of any length is induction over both, and the text of a revision is
  a recursion along the path to the head. `RcsProofs` is about the tree, whatever the texts.
- `Stream`: `Delivers`, which is about the end of a conversation as much as about
  its steps.

## 5. Where code and comments disagree

- **`muxlife_early`**: `mux_shutdown()` "is used every time we need to wake up all
  the worker threads to abort the program" (`mux.c:681`), but `chan_connect()`,
  `chan_listen()` and `chan_accept()` never look at `closed`. If the connection
  is lost before the main thread has put the channel in its waiting state, it
  waits for ever. `muxlife` therefore assumes that the connection lives
  until both channels are open (`DropEarly = FALSE`).
- **`muxlife_assert`**: `assert(val == PTHREAD_CANCELED)` (`mux.c:745`, `mux.c:751`)
  fails if sender and receiver both notice the lost connection: the second one
  returns by itself.
- **`muxlife_free`**: "Close all the channels, terminate the sender and receiver
  thread" (`mux.c:680`) is not true of a call that is not the first; the main
  thread may free the multiplexer while another one is still shutting it down.

- **`update_assert`**: "At this point, the necessary DirDowns and DirUps should have
  already been emitted" (`status.c:338`) is not so if the run ends, by an error,
  the deletion limit or a lost connection, after a directory's `i` and before its `j`:
  the `DirDown` is deleted, the `DirUp` is not, and `status_close()` copies the
  records that are left raw. csup aborts; nothing the run did is recorded.

Met on the way, without a run of their own.

*Status file, lister.*

- `status_put()` expects to find the `DirUp` of a directory that a file replaces
  (`status.c:710`), but a key for a `DirUp` never compares equal: the assertion fails.
- `j` is documented to delete the `DirUp`, but calls `status_delete(name, 0)`; old
  records of a directory that is removed otherwise stay in the file, as do those
  of a directory that was pruned because it is missing.
- `status_close()` renames the new file before its data is written out; a crash
  in between leaves a part of it, perhaps a readable one (`Flush`, `Crash`). An
  error of this last write is reported to nobody.
- The loop at the end of `lister_coll()` that frees the attribute stack after an
  error frees half of it.

*Updater.*

- A file that moves in or out of the Attic is removed from its old place after
  `updater_updatefile()`, which returns no error for a wrong checksum: the file
  is missing until the fixup or the next run (`Unlink` after a bad `RcsEdit`). One
  that moves without an edit would not even be installed; the comment at
  `updater.c:1777` says that servers always send one, and the model assumes it
  (`Edits`).
- After a crash between installation and removal there are two copies, for good
  (`split`, excepted in `Converges`).
- `updater_setattrs()` takes the attributes of whatever is there by then (`updater.c:890`),
  and so does `updater_updatefile()` after the rename (`updater.c:979`, `:997`): in checkout
  mode a user's edit between detailer and updater, or between rename and look, is recorded
  as the server's revision, and no later run sees it. Such files are in `raced`, and
  excepted in `StatusIsHonest`, `Converges` and `EventuallySynced`. In CVS mode the record
  has no revision: the next list shows the attributes, and the server sends the file again.

*RCS files.*

- `rcsfile_write_deltatext()` ends its loop at a branch without deltas
  (`rcsfile.c:504`), where `rcsfile_write()` goes on: texts of other branches are not
  written. The checksum shows it, and the file is sent as a whole (`Hidden`,
  `Complete`).
- `rcsfile_getbranch()` uses the branchpoint without a look whether it was found, so
  "No branch point for adding delta" is never said. `rcsfile_deleterev()` and
  `rcsfile_free()` free a branch whose deltas are still linked.

*Streams.*

- `zfilter_flush()` never returns if nothing is new since the last flush:
  `deflate()` gives `Z_BUF_ERROR` without progress, and the loop starts again
  (`stream.c:1091`). The detailer flushes after every line from the server
  (`detailer.c:325`), also after a warning (`!`), for which it writes nothing. A
  conversation with two flushes in a row while the filter is on violates
  `Delivers`; those of the run have none.

*Multiplexer.* `sender_loop()` tests `error == EPIPE` although
`error` is -1 there (`mux.c:883`), so that a broken pipe is never a transient
failure; `chan_insert()` returns without unlocking if there is no free channel
(`mux.c:631`); the error path of `mux_open()` cancels and joins threads that may
not exist; a second `CLOSE` would make `receiver_loop()` call `mux_shutdown()` with
the channel locked, which locks it again (`mux.c:1086`; `NoProtocolError` shows that
a peer with this code does not send one); `chan_read()` reports the end of file
in `CS_RDCLOSED` with data still in the buffer (`mux.c:450`), which the order of
the sender's flags avoids.

## 6. What is not modelled, and why

- *Negotiation and login* (`proto.c`, `auth.c`): one thread, one request and one
  answer at a time, mostly parsing and formatting.
- *Configuration, utilities, id cache, fnmatch*: read-once input, pure helpers,
  one critical section per operation, and a library function.
- *`rcsparse.c`, `rcslex.c`, `rsyncfile.c`, `keyword.c`*: syntax, block checksums and
  the wording of keywords.
- *Timeouts*: the code has none after the connection is made.
- *Attributes* (`fattr.c`): an attribute is one value in `Update`; what the masks do
  for single fields is not stated. *Name filters* (`globtree.c`): a pure function of
  pattern and name that no state depends on.
- What section 2 says is left out of `Update`, `Rcs` and `Stream`.

## 7. Plan

Done: `CircBuf`, `Mux`, `MuxLife`, `Session`, `Update` and `Rcs` with their proofs, `Status`,
`Diff`, `Stream`. `Session` composes the workers over what `Mux` promises
(`BytePipes`); `Update` takes the order of the workers' messages from `Session`.

To prove, if there is more:

1. `Stream`: no byte is lost or doubled between the buffers and the two filters.
2. `Update`: the first part of `NextListIsRight`, with the directories that were put
   and deleted in earlier runs.
3. `Rcs`: which texts are written, all but those that are `Hidden`, from the tree alone.

To model: the masks of `fattr_merge()` and `fattr_override()`, the walk of
`globtree_test()`.
