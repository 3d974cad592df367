-------------------------------- MODULE Mux --------------------------------
(***************************************************************************)
(* The channel multiplexer, mux.c, between two ends of one TCP connection. *)
(*                                                                         *)
(* At each end run a sender thread, a receiver thread and, for every       *)
(* channel, the threads that use it: a main thread that opens and closes   *)
(* it, a writer and a reader.  An action is one critical section of a      *)
(* channel lock, or one step done without it.  The multiplexer lock is     *)
(* held from one step to the next by the sender alone, while it scans.     *)
(*                                                                         *)
(* The server (cvsupd) is not part of this repository: both ends run the   *)
(* code of mux.c.  The circular buffers are stream intervals here: the     *)
(* send buffer holds the bytes sout..sin, the receive buffer rout..rin;    *)
(* module CircBuf justifies this.                                          *)
(***************************************************************************)
EXTENDS Naturals, Sequences, FiniteSets

CONSTANTS
    NChan,       \* channels in use, MUX_MAXCHAN in the code
    SBSize,      \* CHAN_SBSIZE
    RBSize,      \* CHAN_RBSIZE
    MSS,         \* CHAN_MAXSEGSIZE
    SeqMod,      \* 2^32, the modulus of sequence numbers
    WriteSizes,  \* the sizes passed to chan_write()
    ReadSizes,   \* the sizes passed to chan_read()
    NetCap,      \* packets the socket holds before write() blocks
    Spurious,    \* bound: whether pthread_cond_wait() returns unsignalled
    Total        \* bound: Total[k] bytes are written at side k in all

Ends == {"client", "server"}
Chans == 0..(NChan - 1)
Sides == Ends \X Chans

Peer(e) == IF e = "client" THEN "server" ELSE "client"
Remote(k) == <<Peer(k[1]), k[2]>>

\* A write larger than the send buffer is left out: no caller makes one.
ASSUME MuxAssumption ==
    /\ NChan \in Nat \ {0}
    /\ SBSize \in Nat \ {0}
    /\ RBSize \in Nat \ {0}
    /\ MSS \in Nat \ {0}
    /\ SeqMod \in Nat /\ SeqMod > RBSize
    /\ WriteSizes \subseteq 1..SBSize
    /\ ReadSizes \subseteq Nat \ {0}
    /\ NetCap \in Nat \ {0}
    /\ Spurious \in BOOLEAN
    /\ Total \in [Sides -> Nat]
    /\ \A c \in Chans : Total[<<"server", c>>] > 0

VARIABLES
    state,     \* chan->state
    flags,     \* chan->flags: the packets the sender is asked to send
    sendseq,   \* chan->sendseq
    sendwin,   \* chan->sendwin
    recvseq,   \* chan->recvseq
    sin,       \* stream position of chan->sendbuf->in
    sout,      \* stream position of chan->sendbuf->out
    rin,       \* stream position of chan->recvbuf->in
    rout,      \* stream position of chan->recvbuf->out
    mpc,       \* what the main thread does with the channel next
    wleft,     \* bytes of the chan_write() under way not yet buffered
    eof,       \* chan_read() returned 0
    asleep,    \* threads in pthread_cond_wait() on rdready or wrready
    wake,      \* progress of the sender_wakeup() a thread is in
    spc,       \* where the sender thread is
    sid,       \* mux->sender_lastid, or the channel being scanned
    left,      \* channels still to scan; the mux lock is held if not 0
    waiting,   \* mux->sender_waiting
    what,      \* the kind of packet the sender picked
    pkt,       \* the packet the sender built
    vpc,       \* where the receiver thread is
    vpkt,      \* the data packet whose payload the receiver reads
    net        \* net[e]: packets on their way from end e to its peer

chanVars == <<state, flags, sendseq, sendwin, recvseq>>
bufVars == <<sin, sout, rin, rout>>
appVars == <<mpc, wleft, eof>>
senderVars == <<spc, sid, left, waiting, what, pkt>>
receiverVars == <<vpc, vpkt>>
vars == <<chanVars, bufVars, appVars, asleep, wake, senderVars, receiverVars,
          net>>

-----------------------------------------------------------------------------
(* Threads, packets, sequence numbers *)

Apps == Ends \X Chans \X {"main", "writer", "reader"}
Receivers == Ends \X {0} \X {"receiver"}
Callers == Apps \cup Receivers

Main(k) == <<k[1], k[2], "main">>
Writer(k) == <<k[1], k[2], "writer">>
Reader(k) == <<k[1], k[2], "reader">>
Receiver(e) == <<e, 0, "receiver">>

\* Neither blocked on a condition variable nor inside sender_wakeup().
Ready(a) == a \notin asleep /\ wake[a] = "no"

Kinds == {"CONNECT", "ACCEPT", "RESET", "WINDOW", "DATA", "CLOSE"}
States == {"UNUSED", "LISTENING", "CONNECTING", "ESTABLISHED",
           "RDCLOSED", "WRCLOSED", "CLOSED"}

\* One shape for all packets: fields a kind does not use are 0.  The payload
\* of a data packet is the stream interval from..from+len.
Packet(kind, c, win, from, len) ==
    [type |-> kind, id |-> c, win |-> win, from |-> from, len |-> len]

Min2(a, b) == IF a <= b THEN a ELSE b

\* uint32_t addition and subtraction.  The mutant does not wrap.
PlusNoWrap(a, n) == a + n
Plus(a, n) == IF a + n >= SeqMod THEN a + n - SeqMod ELSE a + n
Minus(a, b) == IF a >= b THEN a - b ELSE a + SeqMod - b

\* buf_count() and buf_avail() of the two buffers of a channel.
SendCount(k) == sin[k] - sout[k]
SendAvail(k) == SBSize - SendCount(k)
RecvCount(k) == rin[k] - rout[k]
RecvAvail(k) == RBSize - RecvCount(k)

\* The mux lock is held across steps by a scanning sender only.  In the mutant
\* the others do not take it.
MuxUnlocked(e) == TRUE
MuxFree(e) == left[e] = 0


-----------------------------------------------------------------------------
(* The start: both ends are past mux_init(), so the sender threads wait.   *)

NoPkt == Packet("CLOSE", 0, 0, 0, 0)

Init ==
    /\ state = [k \in Sides |-> "UNUSED"]
    /\ flags = [k \in Sides |-> {}]
    /\ sendseq = [k \in Sides |-> 0]
    /\ sendwin = [k \in Sides |-> 0]
    /\ recvseq = [k \in Sides |-> 0]
    /\ sin = [k \in Sides |-> 0]
    /\ sout = [k \in Sides |-> 0]
    /\ rin = [k \in Sides |-> 0]
    /\ rout = [k \in Sides |-> 0]
    /\ mpc = [k \in Sides |-> "open"]
    /\ wleft = [k \in Sides |-> 0]
    /\ eof = [k \in Sides |-> FALSE]
    /\ asleep = {}
    /\ wake = [a \in Callers |-> "no"]
    /\ spc = [e \in Ends |-> "wait"]
    /\ sid = [e \in Ends |-> 0]
    /\ left = [e \in Ends |-> 0]
    /\ waiting = [e \in Ends |-> TRUE]
    /\ what = [e \in Ends |-> "NONE"]
    /\ pkt = [e \in Ends |-> NoPkt]
    /\ vpc = [e \in Ends |-> "idle"]
    /\ vpkt = [e \in Ends |-> NoPkt]
    /\ net = [e \in Ends |-> <<>>]

-----------------------------------------------------------------------------
(* Condition variables *)

\* The client connects channel 0 and the server the others (proto_mux()).
Opener(c) == IF c = 0 THEN "client" ELSE "server"

\* Who waits on wrready and on rdready; the mutant has one for the other.
WrWaiters(k) ==
    asleep \cap ({Writer(k)} \cup
        IF mpc[k] = "await" /\ Opener(k[2]) = k[1] THEN {Main(k)} ELSE {})

RdWaiters(k) ==
    asleep \cap ({Reader(k)} \cup
        IF mpc[k] = "await" /\ Opener(k[2]) = k[1] THEN {} ELSE {Main(k)})

\* pthread_cond_signal(): one of the waiters, if any, goes on.
Signal(waiters) ==
    IF waiters = {} THEN UNCHANGED asleep
    ELSE \E a \in waiters : asleep' = asleep \ {a}

\* POSIX allows pthread_cond_wait() to return without a signal.
SpuriousWakeup(a) ==
    /\ Spurious
    /\ a \in asleep
    /\ asleep' = asleep \ {a}
    /\ UNCHANGED <<chanVars, bufVars, appVars, wake, senderVars,
                   receiverVars, net>>

SenderSpuriousWakeup(e) ==
    /\ Spurious
    /\ spc[e] = "wait"
    /\ spc' = [spc EXCEPT ![e] = "scan"]
    /\ UNCHANGED <<chanVars, bufVars, appVars, asleep, wake, sid, left,
                   waiting, what, pkt, receiverVars, net>>

\* sender_wakeup(): sender_waiting is read under the mux lock ...
WakeupRead(a) ==
    /\ wake[a] = "lock"
    /\ MuxFree(a[1])
    /\ wake' = [wake EXCEPT ![a] = IF waiting[a[1]] THEN "signal" ELSE "no"]
    /\ UNCHANGED <<chanVars, bufVars, appVars, asleep, senderVars,
                   receiverVars, net>>

\* ... and acted upon without it.
WakeupSignal(a) ==
    /\ wake[a] = "signal"
    /\ wake' = [wake EXCEPT ![a] = "no"]
    /\ spc' = [spc EXCEPT ![a[1]] = IF @ = "wait" THEN "scan" ELSE @]
    /\ UNCHANGED <<chanVars, bufVars, appVars, asleep, sid, left, waiting,
                   what, pkt, receiverVars, net>>

CallNothing(a) == UNCHANGED wake
CallWakeup(a) == wake' = [wake EXCEPT ![a] = "lock"]

-----------------------------------------------------------------------------
(* The threads that use a channel.  They follow the discipline of          *)
(* proto_mux() and proto_run(): the channels are opened one by one, the    *)
(* passive side listens before the other connects, the server's last bytes *)
(* answer all of the client's, the client closes when its workers are      *)
(* done, the server at end of file.                                        *)

\* The mutant connects without having been told that the peer listens.
MayOpenUntold(k) ==
    \A c \in Chans : c < k[2] => mpc[<<k[1], c>>] \notin {"open", "await"}
MayOpen(k) ==
    /\ \A c \in Chans : c < k[2] => mpc[<<k[1], c>>] \notin {"open", "await"}
    /\ Opener(k[2]) = k[1] => state[Remote(k)] # "UNUSED"

MayWrite(k, n) ==
    /\ sin[k] + n <= Total[k]
    /\ k[1] = "server" /\ sin[k] + n = Total[k]
         => rout[k] = Total[Remote(k)]

ReaderDone(k) ==
    /\ wake[Reader(k)] = "no"
    /\ IF k[1] = "client" THEN rout[k] = Total[Remote(k)] ELSE eof[k]

Closed(k) == mpc[k] \in {"drain", "done"} /\ wake[Main(k)] = "no"

WriterDone(k) ==
    /\ wake[Writer(k)] = "no"
    /\ wleft[k] = 0
    /\ sin[k] = Total[k]

\* proto_run() closes the channels one by one once all the workers are done,
\* then waits for them one by one.  The mutant only waits for the writer.
MayCloseWritten(k) == WriterDone(k)
MayClose(k) ==
    /\ WriterDone(k)
    /\ ReaderDone(k)
    /\ k[1] = "client" =>
         /\ \A c \in Chans : WriterDone(<<k[1], c>>) /\ ReaderDone(<<k[1], c>>)
         /\ \A c \in Chans : c < k[2] => Closed(<<k[1], c>>)

MayWait(k) ==
    k[1] = "client" =>
      /\ \A c \in Chans : Closed(<<k[1], c>>)
      /\ \A c \in Chans : c < k[2] => mpc[<<k[1], c>>] = "done"

\* chan_connect() up to its wait, or chan_listen().
Open(k) ==
    /\ mpc[k] = "open"
    /\ MuxFree(k[1])
    /\ MayOpen(k)
    /\ state[k] = "UNUSED"
    /\ mpc' = [mpc EXCEPT ![k] = "await"]
    /\ IF Opener(k[2]) = k[1]
       THEN /\ state' = [state EXCEPT ![k] = "CONNECTING"]
            /\ flags' = [flags EXCEPT ![k] = @ \cup {"CONNECT"}]
            /\ CallWakeup(Main(k))
       ELSE /\ state' = [state EXCEPT ![k] = "LISTENING"]
            /\ UNCHANGED <<flags, wake>>
    /\ UNCHANGED <<sendseq, sendwin, recvseq, bufVars, wleft, eof, asleep,
                   senderVars, receiverVars, net>>

\* The waiting loop of chan_connect() and of chan_accept().
AwaitOpen(k) ==
    /\ mpc[k] = "await"
    /\ Ready(Main(k))
    /\ IF state[k] \in {"LISTENING", "CONNECTING"}
       THEN /\ asleep' = asleep \cup {Main(k)}
            /\ UNCHANGED mpc
       ELSE /\ mpc' = [mpc EXCEPT ![k] =
                         IF state[k] = "ESTABLISHED" THEN "opened" ELSE "failed"]
            /\ UNCHANGED asleep
    /\ UNCHANGED <<chanVars, bufVars, wleft, eof, wake, senderVars,
                   receiverVars, net>>

\* chan_write(), from taking the channel lock to leaving it, for a sleep in
\* the middle of the call or at its end.
ChanWrite(k, n) ==
    /\ mpc[k] = "opened"
    /\ Ready(Writer(k))
    /\ IF wleft[k] = 0 THEN MayWrite(k, n) ELSE n = wleft[k]
    /\ state[k] \in {"ESTABLISHED", "RDCLOSED"}
    /\ LET put == Min2(n, SendAvail(k)) IN
         /\ sin' = [sin EXCEPT ![k] = @ + put]
         /\ wleft' = [wleft EXCEPT ![k] = n - put]
         /\ IF put = n
            THEN CallWakeup(Writer(k)) /\ UNCHANGED asleep
            ELSE asleep' = asleep \cup {Writer(k)} /\ UNCHANGED wake
    /\ UNCHANGED <<chanVars, sout, rin, rout, mpc, eof, senderVars,
                   receiverVars, net>>

\* chan_read().
ChanRead(k, size) ==
    /\ mpc[k] = "opened"
    /\ Ready(Reader(k))
    /\ ~ReaderDone(k)
    /\ IF state[k] \in {"RDCLOSED", "CLOSED"} THEN
          /\ eof' = [eof EXCEPT ![k] = TRUE]
          /\ UNCHANGED <<flags, recvseq, rout, asleep, wake>>
       ELSE IF RecvCount(k) = 0 THEN
          /\ asleep' = asleep \cup {Reader(k)}
          /\ UNCHANGED <<flags, recvseq, rout, eof, wake>>
       ELSE
          /\ LET n == Min2(RecvCount(k), size) IN
               /\ rout' = [rout EXCEPT ![k] = @ + n]
               /\ recvseq' = [recvseq EXCEPT ![k] = Plus(@, n)]
          /\ flags' = [flags EXCEPT ![k] = @ \cup {"WINDOW"}]
          /\ CallWakeup(Reader(k))
          /\ UNCHANGED <<eof, asleep>>
    /\ UNCHANGED <<state, sendseq, sendwin, sin, sout, rin, mpc, wleft,
                   senderVars, receiverVars, net>>

\* chan_close(), once the workers of this end are done with the channel.
ChanClose(k) ==
    /\ mpc[k] = "opened"
    /\ MayClose(k)
    /\ mpc' = [mpc EXCEPT ![k] = "drain"]
    /\ IF state[k] \in {"ESTABLISHED", "RDCLOSED"}
       THEN /\ state' = [state EXCEPT ![k] =
                           IF @ = "ESTABLISHED" THEN "WRCLOSED" ELSE "CLOSED"]
            /\ flags' = [flags EXCEPT ![k] = @ \cup {"CLOSE"}]
            /\ CallWakeup(Main(k))
       ELSE UNCHANGED <<state, flags, wake>>
    /\ UNCHANGED <<sendseq, sendwin, recvseq, bufVars, wleft, eof, asleep,
                   senderVars, receiverVars, net>>

\* chan_wait().
ChanWait(k) ==
    /\ mpc[k] = "drain"
    /\ Ready(Main(k))
    /\ MayWait(k)
    /\ IF state[k] # "CLOSED"
       THEN asleep' = asleep \cup {Main(k)} /\ UNCHANGED mpc
       ELSE mpc' = [mpc EXCEPT ![k] = "done"] /\ UNCHANGED asleep
    /\ UNCHANGED <<chanVars, bufVars, wleft, eof, wake, senderVars,
                   receiverVars, net>>

-----------------------------------------------------------------------------
(* The sender thread *)

NextChan(c) == IF c + 1 >= NChan THEN 0 ELSE c + 1

\* The flags sender_scan() sees: it adds CF_DATA itself.
Work(k) ==
    IF state[k] = "UNUSED" THEN {}
    ELSE flags[k] \cup
         IF sendseq[k] # sendwin[k] /\ SendCount(k) > 0 THEN {"DATA"} ELSE {}

\* "By order of importance".
Rank == [CONNECT |-> 1, ACCEPT |-> 2, RESET |-> 3, WINDOW |-> 4, DATA |-> 5,
         CLOSE |-> 6]
MostImportant(f) == CHOOSE x \in f : \A y \in f : Rank[x] <= Rank[y]

\* One turn of the loop of sender_scan(), the first one takes the mux lock.
ScanFinds(e) ==
    LET k == <<e, NextChan(sid[e])>> IN
    /\ spc[e] = "scan"
    /\ Work(k) # {}
    /\ what' = [what EXCEPT ![e] = MostImportant(Work(k))]
    /\ flags' = [flags EXCEPT ![k] = Work(k) \ {MostImportant(Work(k))}]
    /\ sid' = [sid EXCEPT ![e] = NextChan(@)]
    /\ left' = [left EXCEPT ![e] = 0]
    /\ waiting' = [waiting EXCEPT ![e] = FALSE]
    /\ spc' = [spc EXCEPT ![e] = "got"]
    /\ UNCHANGED <<state, sendseq, sendwin, recvseq, bufVars, appVars, asleep,
                   wake, pkt, receiverVars, net>>

\* No work on this channel: look at the next one, or go to sleep (which
\* releases the mux lock) after the last one.
ScanFindsNothing(e) ==
    LET more == (IF left[e] = 0 THEN NChan ELSE left[e]) - 1 IN
    /\ spc[e] = "scan"
    /\ Work(<<e, NextChan(sid[e])>>) = {}
    /\ sid' = [sid EXCEPT ![e] = NextChan(@)]
    /\ left' = [left EXCEPT ![e] = more]
    /\ IF more = 0
       THEN /\ spc' = [spc EXCEPT ![e] = "wait"]
            /\ waiting' = [waiting EXCEPT ![e] = TRUE]
       ELSE UNCHANGED <<spc, waiting>>
    /\ UNCHANGED <<chanVars, bufVars, appVars, asleep, wake, what, pkt,
                   receiverVars, net>>

\* The window given to the other end, the size of a data packet.  The mutants
\* offer the room there is now, and forget the window of the other end.
WindowOfRoom(k) == Plus(recvseq[k], RecvAvail(k))
Window(k) == Plus(recvseq[k], RBSize)
SizeNoWindow(k) == Min2(SendCount(k), MSS)
DataSize(k) ==
    Min2(Min2(SendCount(k), MSS), Minus(sendwin[k], sendseq[k]))

\* sender_loop() fills in the header, with the channel locked again.
Header(k, kind) ==
    CASE kind \in {"CONNECT", "ACCEPT", "WINDOW"} ->
           Packet(kind, k[2], Window(k), 0, 0)
      [] kind = "DATA" -> Packet(kind, k[2], 0, sout[k], DataSize(k))
      [] OTHER -> Packet(kind, k[2], 0, 0, 0)

BuildPacket(e) ==
    /\ spc[e] = "got"
    /\ pkt' = [pkt EXCEPT ![e] = Header(<<e, sid[e]>>, what[e])]
    /\ what' = [what EXCEPT ![e] = "NONE"]
    /\ spc' = [spc EXCEPT ![e] = "write"]
    /\ UNCHANGED <<chanVars, bufVars, appVars, asleep, wake, sid, left,
                   waiting, receiverVars, net>>

\* sock_write() or sock_writev(), without any lock.
WritePacket(e) ==
    /\ spc[e] = "write"
    /\ Len(net[e]) < NetCap
    /\ net' = [net EXCEPT ![e] = Append(@, pkt[e])]
    /\ IF pkt[e].type = "DATA"
       THEN spc' = [spc EXCEPT ![e] = "post"] /\ UNCHANGED pkt
       ELSE /\ spc' = [spc EXCEPT ![e] = "scan"]
            /\ pkt' = [pkt EXCEPT ![e] = NoPkt]
    /\ UNCHANGED <<chanVars, bufVars, appVars, asleep, wake, sid, left,
                   waiting, what, receiverVars>>

\* What leaves the send buffer: what the packet held.  The mutant looks at the
\* buffer again.
BufferedNow(e) == Min2(SendCount(<<e, pkt[e].id>>), MSS)
PostSize(e) == pkt[e].len

\* After a data packet: the bytes leave the send buffer.
PostData(e) ==
    LET k == <<e, pkt[e].id>> IN
    /\ spc[e] = "post"
    /\ sendseq' = [sendseq EXCEPT ![k] = Plus(@, PostSize(e))]
    /\ sout' = [sout EXCEPT ![k] = @ + PostSize(e)]
    /\ Signal(WrWaiters(k))
    /\ spc' = [spc EXCEPT ![e] = "scan"]
    /\ pkt' = [pkt EXCEPT ![e] = NoPkt]
    /\ UNCHANGED <<state, flags, sendwin, recvseq, sin, rin, rout, appVars,
                   wake, sid, left, waiting, what, receiverVars, net>>

-----------------------------------------------------------------------------
(* The receiver thread.  "bad" is a protocol error: mux_shutdown() follows. *)

\* The receiver reads a header and takes the channel with chan_get().
Arrives(e, kind) ==
    /\ vpc[e] = "idle"
    /\ wake[Receiver(e)] = "no"
    /\ MuxFree(e)
    /\ net[Peer(e)] # <<>>
    /\ Head(net[Peer(e)]).type \in kind
    /\ net' = [net EXCEPT ![Peer(e)] = Tail(@)]

ReceiveConnect(e) ==
    LET p == Head(net[Peer(e)])
        k == <<e, p.id>>
    IN /\ Arrives(e, {"CONNECT"})
       /\ IF state[k] = "LISTENING"
          THEN /\ state' = [state EXCEPT ![k] = "ESTABLISHED"]
               /\ sendwin' = [sendwin EXCEPT ![k] = p.win]
               /\ flags' = [flags EXCEPT ![k] = @ \cup {"ACCEPT"}]
               /\ Signal(RdWaiters(k))
          ELSE /\ flags' = [flags EXCEPT ![k] = @ \cup {"RESET"}]
               /\ UNCHANGED <<state, sendwin, asleep>>
       /\ CallWakeup(Receiver(e))
       /\ UNCHANGED <<sendseq, recvseq, bufVars, appVars, senderVars,
                      receiverVars>>

ReceiveAccept(e) ==
    LET p == Head(net[Peer(e)])
        k == <<e, p.id>>
    IN /\ Arrives(e, {"ACCEPT"})
       /\ IF state[k] = "CONNECTING"
          THEN /\ state' = [state EXCEPT ![k] = "ESTABLISHED"]
               /\ sendwin' = [sendwin EXCEPT ![k] = p.win]
               /\ Signal(WrWaiters(k))
               /\ UNCHANGED <<flags, wake>>
          ELSE /\ flags' = [flags EXCEPT ![k] = @ \cup {"RESET"}]
               /\ CallWakeup(Receiver(e))
               /\ UNCHANGED <<state, sendwin, asleep>>
       /\ UNCHANGED <<sendseq, recvseq, bufVars, appVars, senderVars,
                      receiverVars>>

ReceiveWindow(e) ==
    LET p == Head(net[Peer(e)])
        k == <<e, p.id>>
    IN /\ Arrives(e, {"WINDOW"})
       /\ IF state[k] \in {"ESTABLISHED", "RDCLOSED"}
          THEN /\ sendwin' = [sendwin EXCEPT ![k] = p.win]
               /\ CallWakeup(Receiver(e))
          ELSE UNCHANGED <<sendwin, wake>>
       /\ UNCHANGED <<state, flags, sendseq, recvseq, bufVars, appVars, asleep,
                      senderVars, receiverVars>>

\* The header of a data packet: the channel is unlocked for the payload.
\* A reset is a protocol error whatever the channel.
ReceiveData(e) ==
    LET p == Head(net[Peer(e)])
        k == <<e, p.id>>
    IN /\ Arrives(e, {"DATA", "RESET"})
       /\ IF \/ p.type = "RESET"
             \/ state[k] \notin {"ESTABLISHED", "WRCLOSED"}
             \/ p.len > RecvAvail(k)
             \/ p.len > MSS
          THEN vpc' = [vpc EXCEPT ![e] = "bad"] /\ UNCHANGED vpkt
          ELSE /\ vpc' = [vpc EXCEPT ![e] = "data"]
               /\ vpkt' = [vpkt EXCEPT ![e] = p]
       /\ UNCHANGED <<chanVars, bufVars, appVars, asleep, wake, senderVars>>

\* The payload is in the buffer: buf->in moves, a reader is woken up.
PayloadRead(e) ==
    LET k == <<e, vpkt[e].id>> IN
    /\ vpc[e] = "data"
    /\ rin' = [rin EXCEPT ![k] = @ + vpkt[e].len]
    /\ Signal(RdWaiters(k))
    /\ vpc' = [vpc EXCEPT ![e] = "idle"]
    /\ vpkt' = [vpkt EXCEPT ![e] = NoPkt]
    /\ UNCHANGED <<chanVars, sin, sout, rout, appVars, wake, senderVars, net>>

ReceiveClose(e) ==
    LET p == Head(net[Peer(e)])
        k == <<e, p.id>>
    IN /\ Arrives(e, {"CLOSE"})
       /\ IF state[k] \in {"ESTABLISHED", "WRCLOSED"}
          THEN /\ state' = [state EXCEPT ![k] =
                              IF @ = "ESTABLISHED" THEN "RDCLOSED" ELSE "CLOSED"]
               /\ Signal(RdWaiters(k))
               /\ UNCHANGED vpc
          ELSE /\ vpc' = [vpc EXCEPT ![e] = "bad"]
               /\ UNCHANGED <<state, asleep>>
       /\ UNCHANGED <<flags, sendseq, sendwin, recvseq, bufVars, appVars, wake,
                      senderVars, vpkt>>

-----------------------------------------------------------------------------

AppStep(k) ==
    \/ Open(k)
    \/ AwaitOpen(k)
    \/ \E n \in 1..SBSize :
         (wleft[k] = 0 => n \in WriteSizes) /\ ChanWrite(k, n)
    \/ \E n \in ReadSizes : ChanRead(k, n)
    \/ ChanClose(k)
    \/ ChanWait(k)

WakeupStep(a) == WakeupRead(a) \/ WakeupSignal(a)

SenderStep(e) ==
    \/ ScanFinds(e)
    \/ ScanFindsNothing(e)
    \/ BuildPacket(e)
    \/ WritePacket(e)
    \/ PostData(e)

ReceiverStep(e) ==
    \/ ReceiveConnect(e)
    \/ ReceiveAccept(e)
    \/ ReceiveWindow(e)
    \/ ReceiveData(e)
    \/ PayloadRead(e)
    \/ ReceiveClose(e)

\* The program ends here: mux_shutdown() and mux_close() follow.
Done == \A k \in Sides : mpc[k] = "done"
Finished == Done /\ UNCHANGED vars

SpuriousStep ==
    \/ \E a \in Apps : SpuriousWakeup(a)
    \/ \E e \in Ends : SenderSpuriousWakeup(e)

Next ==
    \/ \E k \in Sides : AppStep(k)
    \/ \E a \in Callers : WakeupStep(a)
    \/ \E e \in Ends : SenderStep(e) \/ ReceiverStep(e)
    \/ SpuriousStep
    \/ Finished

Spec == Init /\ [][Next]_vars

(* The threads of one end are scheduled: those that use a channel as long  *)
(* as one of them can go on, the sender and the receiver each.  A mutex is *)
(* granted in the end to one of those who keep asking for it.  Spurious    *)
(* wakeups may but need not happen.                                        *)
Fairness ==
    \A e \in Ends :
      /\ WF_vars(\E c \in Chans : AppStep(<<e, c>>))
      /\ SF_vars(\E a \in Callers : a[1] = e /\ WakeupStep(a))
      /\ WF_vars(SenderStep(e))
      /\ SF_vars(ReceiverStep(e))

FairSpec == Spec /\ Fairness /\ <>[][~SpuriousStep]_vars

-----------------------------------------------------------------------------
(* Properties *)

Packets ==
    [type : Kinds, id : Chans, win : 0..(SeqMod - 1), from : Nat, len : Nat]

\* The types of the variables.  The channel, sender and receiver structures
\* of mux.c hold nothing else.
TypeOK ==
    /\ state \in [Sides -> States]
    /\ flags \in [Sides -> SUBSET Kinds]
    /\ sendseq \in [Sides -> 0..(SeqMod - 1)]
    /\ sendwin \in [Sides -> 0..(SeqMod - 1)]
    /\ recvseq \in [Sides -> 0..(SeqMod - 1)]
    /\ sin \in [Sides -> Nat]
    /\ sout \in [Sides -> Nat]
    /\ rin \in [Sides -> Nat]
    /\ rout \in [Sides -> Nat]
    /\ mpc \in [Sides -> {"open", "await", "opened", "failed", "drain", "done"}]
    /\ wleft \in [Sides -> Nat]
    /\ eof \in [Sides -> BOOLEAN]
    /\ asleep \subseteq Apps
    /\ wake \in [Callers -> {"no", "lock", "signal"}]
    /\ spc \in [Ends -> {"wait", "scan", "got", "write", "post"}]
    /\ sid \in [Ends -> Chans]
    /\ left \in [Ends -> 0..NChan]
    /\ waiting \in [Ends -> BOOLEAN]
    /\ what \in [Ends -> Kinds \cup {"NONE"}]
    /\ pkt \in [Ends -> Packets]
    /\ vpc \in [Ends -> {"idle", "data", "bad"}]
    /\ vpkt \in [Ends -> Packets]
    /\ net \in [Ends -> Seq(Packets)]

\* Neither receiver ever meets what mux.c calls a protocol error: data
\* beyond the room or the segment size it offered (receiver_loop checks
\* both), data or a close in a state that does not allow it, a reset.
NoProtocolError == \A e \in Ends : vpc[e] # "bad"

\* The first byte after those the sender thread has handed to the socket.
Lag(k) == IF spc[k[1]] = "post" /\ pkt[k[1]].id = k[2] THEN pkt[k[1]].len ELSE 0
Written(k) == sout[k] + Lag(k)

\* The credit scheme: what was handed to the socket and not yet read by the
\* application at the other end fits in its receive buffer, wherever it is;
\* the modular sequence numbers say how much that is, and the window never
\* promises more than the buffer holds.
FlowControl ==
    \A k \in Sides :
      LET r == Remote(k) IN
      /\ Written(k) - rout[r] \in 0..RBSize
      /\ Minus(Plus(sendseq[k], Lag(k)), recvseq[r]) = Written(k) - rout[r]
      /\ sendwin[k] # 0 \/ sendseq[k] # 0 =>
            Minus(sendwin[k], recvseq[r]) \in (Written(k) - rout[r])..RBSize

\* The packets of one direction that the receiver is not through with, oldest
\* first, whatever their channel.
Flight(k) ==
    (IF vpc[Peer(k[1])] = "data" THEN <<vpkt[Peer(k[1])]>> ELSE <<>>)
    \o net[k[1]]

\* The data packets of channel c in q continue the stream one after the other,
\* from position a to position b, and none of them is empty.
Chained(q, c, a, b) ==
    LET mine == {i \in DOMAIN q : q[i].type = "DATA" /\ q[i].id = c}
        end(i) == IF i = 0 THEN a ELSE q[i].from + q[i].len
        start(j) == IF j = Len(q) + 1 THEN b ELSE q[j].from
    IN /\ \A i \in mine : q[i].len > 0
       /\ \A i \in mine \cup {0}, j \in mine \cup {Len(q) + 1} :
            i < j /\ (\A m \in mine : m <= i \/ j <= m) => end(i) = start(j)

\* What the receive buffer gets next is the byte after the last one it got:
\* the data packets in flight continue the stream, and the last one ends where
\* the sender thread is.
StreamInOrder ==
    \A k \in Sides : Chained(Flight(k), k[2], rin[Remote(k)], Written(k))

\* "if he wasn't waiting then he won't go to sleep before having sent what
\* we want him to" (sender_wakeup): when the sender sleeps although there is
\* work, a thread is on its way to wake it up.
NoLostWork ==
    \A k \in Sides :
      spc[k[1]] = "wait" /\ Work(k) # {}
        => \E a \in Callers : a[1] = k[1] /\ wake[a] # "no"

\* No thread sleeps on rdready or wrready past the moment its condition
\* became true.  mux.c uses pthread_cond_signal(), which wakes up one thread
\* only, on variables that several threads wait on at different times.
NoMissedSignal ==
    \A k \in Sides :
      /\ Reader(k) \in asleep =>
            RecvCount(k) = 0 /\ state[k] \in {"ESTABLISHED", "WRCLOSED"}
      /\ Writer(k) \in asleep =>
            SendAvail(k) = 0 /\ state[k] \in {"ESTABLISHED", "RDCLOSED"}
      /\ Main(k) \in asleep =>
            IF mpc[k] = "await" THEN state[k] \in {"LISTENING", "CONNECTING"}
            ELSE state[k] # "CLOSED"

\* A right edge once given to the other end is never taken back, although
\* the flag is set by readers and the packet built later by the sender.
WindowNeverShrinks ==
    [][\A k \in Sides :
         LET r == recvseq[Remote(k)] IN
         state[k] \in {"ESTABLISHED", "RDCLOSED"} =>
           Minus(sendwin'[k], r) >= Minus(sendwin[k], r)]_vars

\* The channels implement bounded byte pipes with an orderly end.
Pipes == INSTANCE BytePipes WITH
    Dirs     <- Sides,
    Capacity <- SBSize + RBSize,
    sent     <- sin,
    received <- [k \in Sides |-> rout[Remote(k)]],
    shut     <- [k \in Sides |-> state[k] \in {"WRCLOSED", "CLOSED"}],
    ended    <- [k \in Sides |-> eof[Remote(k)]]

ImplementsPipes == Pipes!Spec

\* Everything is delivered and every channel is closed at both ends.
Completes == <>(Done /\ \A k \in Sides : rout[Remote(k)] = Total[k])
=============================================================================
