------------------------------- MODULE Stream -------------------------------
(***************************************************************************)
(* A stream over a channel (stream.c): buffered writing and reading, line  *)
(* by line, and the zlib filter, which both sides start and stop at agreed *)
(* places of the conversation.  The reader cannot know how much belongs to *)
(* which filter before it has read it, so what it read too much of changes *)
(* sides with the buffers.                                                 *)
(*                                                                         *)
(* A byte is a number, those divisible by 10 are newlines.  On the wire a  *)
(* byte is plain or compressed; deflate() also writes a mark at the end of *)
(* each flush and one at the end of its stream.  How compression changes   *)
(* the number of bytes is left out, but not that deflate() and inflate()   *)
(* may hold bytes back and leave input when their output is full.          *)
(***************************************************************************)
EXTENDS Integers, Sequences, SequencesExt

CONSTANTS
    Scripts,      \* what a writer may do: sequences of operations
    BufSizes,     \* sizes for STREAM_BUFSIZ; the server's may be another one
    SyncRoom      \* room that deflate() needs for Z_SYNC_FLUSH

ASSUME StreamAssumption == SyncRoom \in Nat /\ \A n \in BufSizes : n >= SyncRoom /\ n > 0

VARIABLES
    script,       \* the operations: put, flush, start, stop, close
    w,            \* the writer: its stream, and the operation it is at
    wire,         \* written and not read
    closed,       \* the writer has closed
    r,            \* the reader: its stream, and the operation it is at
    got           \* the lines it has read
vars == <<script, w, wire, closed, r, got>>

Plain(b) == <<"plain", b>>
Packed(x) == <<"zip", x[2]>>
Unpacked(x) == Plain(x[2])
Sync == <<"sync", 0>>
End == <<"end", 0>>
IsNewline(x) == x[1] = "plain" /\ x[2] % 10 = 0

-----------------------------------------------------------------------------
(* struct buf *)

BufNew(size) == [data |-> <<>>, off |-> 0, size |-> size]
Count(b) == Len(b.data)
Avail(b) == b.size - b.off - Len(b.data)
Grow(b, need) ==
    [b EXCEPT !.size = Min({s \in {(b.size + 1) * 2^k - 1 : k \in 1..6} : s >= need})]
\* buf_prewrite()
Prewrite(b) ==
    LET g == IF Count(b) = b.size THEN Grow(b, 0) ELSE b
    IN IF Count(g) > 0 /\ Avail(g) = 0 THEN [g EXCEPT !.off = 0] ELSE g
More(b, data) == [b EXCEPT !.data = @ \o data]
Less(b, n) ==
    [b EXCEPT !.data = SubSeq(@, n + 1, Len(@)),
              !.off = IF n = Count(b) THEN 0 ELSE @ + n]

-----------------------------------------------------------------------------
(* zlib *)

\* deflate(): what it may do with input, given the room for output.  A second
\* Z_SYNC_FLUSH with nothing new is no progress, Z_BUF_ERROR.
Deflate(pend, last, in, room, flush) ==
    IF room = 0 \/ (flush = "sync" /\ last = "sync" /\ in = <<>> /\ pend = <<>>)
    THEN {[pend |-> pend, last |-> last, ate |-> 0, out |-> <<>>, rv |-> "buf"]}
    ELSE LET All(n) == pend \o [i \in 1..n |-> Packed(in[i])]
                       \o (IF n < Len(in) \/ End \in ToSet(pend) THEN <<>>
                           ELSE <<IF flush = "sync" THEN Sync ELSE End>>)
             Call(n) == [pend |-> SubSeq(All(n), room + 1, Len(All(n))),
                         last |-> IF Len(All(n)) > room THEN "none" ELSE flush,
                         ate |-> n,
                         out |-> SubSeq(All(n), 1, Min({room, Len(All(n))})),
                         rv |-> IF flush = "finish" /\ n = Len(in) /\ Len(All(n)) <= room
                                THEN "end" ELSE "ok"]
         IN {Call(n) : n \in {k \in 0..Len(in) : k < Len(in) => Len(All(k)) >= room}}

\* "inflate: incorrect header check" and the like
NotZipped(in) ==
    \E i \in DOMAIN in : in[i][1] = "plain" /\ \A j \in 1..i : in[j] # End

\* inflate(): bytes may be held back unless a mark follows, and anything if
\* there is no room; the end is only seen when everything is out.
Inflate(pend, ended, in, room) ==
    IF ended \/ NotZipped(in) THEN {[pend |-> pend, ate |-> 0, out |-> <<>>, end |-> ended]}
    ELSE
    LET Bytes(n) == pend \o [i \in 1..Len(SelectSeq(SubSeq(in, 1, n), LAMBDA x : x[1] = "zip"))
                               |-> Unpacked(SelectSeq(in, LAMBDA x : x[1] = "zip")[i])]
        Marks(n) == {i \in 1..n : in[i] \in {Sync, End}}
        Sure(n) == IF Marks(n) = {} THEN 0 ELSE Len(Bytes(Max(Marks(n))))
        ends == {i \in DOMAIN in : in[i] = End}
        most == IF ends = {} THEN Len(in) ELSE Min(ends)
    IN {[pend |-> SubSeq(Bytes(c[1]), c[2] + 1, Len(Bytes(c[1]))),
         ate |-> c[1], out |-> SubSeq(Bytes(c[1]), 1, c[2]),
         end |-> c[1] \in ends] :
          c \in {d \in (0..most) \X (0..room) :
                   /\ d[2] <= Len(Bytes(d[1]))
                   /\ d[2] < room => d[1] = most /\ d[2] >= Sure(d[1])
                   /\ d[1] \in ends => d[2] = Len(Bytes(d[1]))}}

-----------------------------------------------------------------------------
(* Writing *)

WOp == script[w.at]
Writes(op) == w.at <= Len(script) /\ WOp.op = op /\ w.flush = "no"
Idle == UNCHANGED <<script, r, got>>
Calm == UNCHANGED <<wire, closed>>

\* stream_write(): the buffer is flushed if there is no room for all of it.
StreamWrite ==
    /\ Writes("put")
    /\ LET n == Len(WOp.bytes)
           b == IF n > w.buf.size THEN Grow(w.buf, n) ELSE w.buf
       IN w' = IF n > Avail(b) THEN [w EXCEPT !.buf = b, !.flush = "sync"]
               ELSE [w EXCEPT !.buf = More(b, [i \in 1..n |-> Plain(WOp.bytes[i])]),
                              !.at = @ + 1]
    /\ Calm /\ Idle

\* stream_flush()
StreamFlush ==
    /\ Writes("flush")
    /\ w' = [w EXCEPT !.flush = "sync", !.at = @ + 1]
    /\ Calm /\ Idle

\* stream_filter_start(), zfilter_init(): what was not flushed goes first.
StartDeflate ==
    /\ Writes("start")
    /\ w' = [w EXCEPT !.zip = TRUE, !.zbuf = w.buf, !.buf = BufNew(w.buf.size),
                      !.pend = <<>>, !.last = "none", !.at = @ + 1]
    /\ Calm /\ Idle

\* stream_filter_stop(), zfilter_fini()
StopDeflate ==
    /\ Writes("stop")
    /\ w' = [w EXCEPT !.flush = "finish", !.at = @ + 1]
    /\ Calm /\ Idle

\* stream_close() after stream_filter_stop()
CloseWriter ==
    /\ Writes("close")
    /\ wire' = wire \o w.buf.data
    /\ w' = [w EXCEPT !.buf = Less(@, Count(@)), !.at = @ + 1]
    /\ closed' = TRUE
    /\ Idle

\* stream_flush_default()
FlushDefault ==
    /\ w.flush # "no" /\ ~w.zip
    /\ wire' = wire \o w.buf.data
    /\ w' = [w EXCEPT !.buf = Less(@, Count(@)), !.flush = "no"]
    /\ UNCHANGED closed /\ Idle

\* zfilter_flush(), one call of deflate(); afterwards, if it is done, the
\* default flush, and the end of the filter if it is to be stopped.
ZFlush ==
    /\ w.flush # "no" /\ w.zip
    /\ LET first == \/ Avail(w.zbuf) < SyncRoom /\ w.flush = "sync"
                    \/ w.rv = "buf" \/ Avail(w.buf) = 0
           z == IF first THEN Less(w.zbuf, Count(w.zbuf)) ELSE w.zbuf
       IN \E c \in Deflate(w.pend, w.last, w.buf.data, Avail(z), w.flush) :
            LET rest == Less(w.buf, c.ate)
                full == More(z, c.out)
                again == \/ w.flush = "sync" /\ Count(rest) > 0
                         \/ w.flush = "finish" /\ c.rv # "end"
                         \/ c.rv = "buf"
                done == [w EXCEPT !.flush = "no", !.rv = "ok", !.pend = c.pend,
                                  !.last = c.last, !.buf = rest,
                                  !.zbuf = Less(full, Count(full))]
            IN /\ wire' = wire \o (IF first THEN w.zbuf.data ELSE <<>>)
                               \o (IF again THEN <<>> ELSE full.data)
               /\ w' = IF again
                       THEN [w EXCEPT !.rv = c.rv, !.pend = c.pend, !.last = c.last,
                                      !.buf = rest, !.zbuf = full]
                       ELSE IF w.flush = "sync" THEN done
                       ELSE [done EXCEPT !.zip = FALSE, !.buf = done.zbuf]
    /\ UNCHANGED closed /\ Idle

Writer == StreamWrite \/ StreamFlush \/ StartDeflate \/ StopDeflate \/ CloseWriter
          \/ FlushDefault \/ ZFlush

-----------------------------------------------------------------------------
(* Reading *)

\* The reader reads the lines and starts and stops the filter where the writer
\* does, then reads on to the end.
Reading ==
    SelectSeq(script, LAMBDA o : \/ o.op \in {"start", "stop"}
                                 \/ o.op = "put" /\ Last(o.bytes) % 10 = 0)
ROp == IF r.at <= Len(Reading) THEN Reading[r.at].op ELSE "rest"
Quiet == UNCHANGED <<script, w, closed>>
Newlines == {i \in DOMAIN r.buf.data : IsNewline(r.buf.data[i])}

\* Whether the reader is in a fill method: stream_getln() without a newline in
\* the buffer, or zfilter_fini() without the end of the compressed stream.  In
\* the mutant, zfilter_fini() takes it for granted.
EndTaken == FALSE
EndMissing == ~r.end /\ ~r.filled
Filling ==
    /\ r.ok /\ ~r.done
    /\ \/ ROp \in {"put", "rest"} /\ Newlines = {} /\ ~r.dry
       \/ ROp = "stop" /\ EndMissing

\* buf_prewrite() in stream_fill(), which zfilter_fini() does not call.
Room == IF ROp = "stop" THEN r.buf ELSE Prewrite(r.buf)

\* stream_fill_default(), into the buffer of the stream or of the filter
Fill ==
    LET b == IF r.zip THEN r.zbuf ELSE Room
        Into(c) == IF r.zip THEN [r EXCEPT !.zbuf = c] ELSE [r EXCEPT !.buf = c]
    IN /\ Filling
       /\ r.zip => Count(r.zbuf) = 0
       /\ \/ /\ wire # <<>>
             /\ \E n \in 1..Min({Max({Avail(b), 1}), Len(wire)}) :
                  /\ r' = [Into(More(b, SubSeq(wire, 1, n))) EXCEPT !.ok = Avail(b) > 0]
                  /\ wire' = SubSeq(wire, n + 1, Len(wire))
          \/ /\ wire = <<>> /\ closed
             /\ r' = [r EXCEPT !.dry = TRUE, !.filled = TRUE]
             /\ UNCHANGED wire
       /\ UNCHANGED got /\ Quiet

\* zfilter_fill(), one call of inflate().  Without new bytes and without the
\* end it goes back to read more.
ZFill ==
    /\ Filling
    /\ r.zip /\ Count(r.zbuf) > 0
    /\ \E c \in Inflate(r.pend, r.end, r.zbuf.data, Avail(Room)) :
         r' = [r EXCEPT !.buf = More(Room, c.out), !.zbuf = Less(@, c.ate),
                        !.pend = c.pend, !.end = c.end,
                        !.filled = c.out # <<>> \/ c.end,
                        !.dry = c.out = <<>> /\ c.end,
                        !.ok = Avail(Room) > 0 /\ (r.end \/ ~NotZipped(r.zbuf.data))]
    /\ UNCHANGED <<wire, got>> /\ Quiet

Take(n) ==
    /\ got' = Append(got, SubSeq(r.buf.data, 1, n))
    /\ r' = [r EXCEPT !.buf = Less(@, n), !.dry = FALSE, !.filled = FALSE,
                      !.at = IF ROp = "rest" THEN @ ELSE @ + 1]
    /\ UNCHANGED wire /\ Quiet
\* stream_getln()
GetLn ==
    /\ r.ok /\ ROp \in {"put", "rest"} /\ ~r.done
    /\ Newlines # {} /\ Take(Min(Newlines))
\* "Last line of the stream."
GetLast ==
    /\ r.ok /\ ROp \in {"put", "rest"} /\ ~r.done
    /\ r.dry /\ Count(r.buf) > 0 /\ Take(Count(r.buf))
\* NULL, which is an error unless all has been read
GetNothing ==
    /\ r.ok /\ ROp \in {"put", "rest"} /\ ~r.done
    /\ r.dry /\ Count(r.buf) = 0
    /\ r' = IF ROp = "rest" THEN [r EXCEPT !.done = TRUE] ELSE [r EXCEPT !.ok = FALSE]
    /\ UNCHANGED <<wire, got>> /\ Quiet

\* stream_filter_start(), zfilter_init(): what was read too much is compressed.
StartInflate ==
    /\ r.ok /\ ROp = "start"
    /\ r' = [r EXCEPT !.zip = TRUE, !.zbuf = r.buf, !.buf = BufNew(r.buf.size),
                      !.pend = <<>>, !.end = FALSE, !.filled = FALSE, !.dry = FALSE,
                      !.at = @ + 1]
    /\ UNCHANGED <<wire, got>> /\ Quiet
\* stream_filter_stop(), zfilter_fini(): what was read too much is not.
StopInflate ==
    /\ r.ok /\ ROp = "stop" /\ ~EndMissing
    /\ r' = [r EXCEPT !.zip = FALSE, !.buf = r.zbuf, !.filled = FALSE, !.dry = FALSE,
                      !.at = @ + 1]
    /\ UNCHANGED <<wire, got>> /\ Quiet

Reader == Fill \/ ZFill \/ GetLn \/ GetLast \/ GetNothing \/ StartInflate \/ StopInflate

-----------------------------------------------------------------------------
Init ==
    /\ script \in Scripts
    /\ \E n \in BufSizes :
         w = [at |-> 1, buf |-> BufNew(n), zbuf |-> BufNew(0), zip |-> FALSE,
              pend |-> <<>>, last |-> "none", flush |-> "no", rv |-> "ok"]
    /\ wire = <<>> /\ closed = FALSE
    /\ \E n \in BufSizes :
         r = [at |-> 1, buf |-> BufNew(n), zbuf |-> BufNew(0), zip |-> FALSE,
              pend |-> <<>>, end |-> FALSE, filled |-> FALSE, dry |-> FALSE,
              ok |-> TRUE, done |-> FALSE]
    /\ got = <<>>

\* An error of the reader is the end of the run, too.
Finished == (r.done \/ ~r.ok) /\ UNCHANGED vars
Next == Writer \/ Reader \/ Finished
Spec == Init /\ [][Next]_vars /\ WF_vars(Writer) /\ WF_vars(Reader)

-----------------------------------------------------------------------------
(* Properties *)

AllBytes ==
    FlattenSeq([i \in DOMAIN script |->
                  IF script[i].op # "put" THEN <<>>
                  ELSE [j \in DOMAIN script[i].bytes |-> Plain(script[i].bytes[j])]])

\* Whatever the sizes of buffers, reads and compressed pieces, stream_getln()
\* returns the lines that were written, whole and in order; no assertion of
\* stream.c fails, inflate() never sees what was not compressed and the reader
\* never what was.
LinesIntact ==
    /\ r.ok
    /\ IsPrefix(FlattenSeq(got), AllBytes)
    /\ r.done => FlattenSeq(got) = AllBytes
    /\ \A i \in DOMAIN got : \A j \in DOMAIN got[i] :
         IF j < Len(got[i]) THEN ~IsNewline(got[i][j])
         ELSE IsNewline(got[i][j]) \/ FlattenSeq(got) = AllBytes
\* And all of them: neither side waits for bytes that stay in a buffer of the
\* other, or turns round in zfilter_flush() for ever.  As got only grows and
\* an error is for good, what is intact at the end has always been.
Delivers == <>[](r.done /\ LinesIntact)
=============================================================================
