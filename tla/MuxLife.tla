------------------------------ MODULE MuxLife -------------------------------
(***************************************************************************)
(* The life of the multiplexed connection in the client, from mux_init()   *)
(* to mux_close(): who shuts it down, whom that wakes up, who is cancelled *)
(* and joined, and what the main thread returns.                           *)
(*                                                                         *)
(* The main thread runs proto_mux() and the end of proto_run(); beside it  *)
(* run the sender and the receiver of mux.c, the workers (lister,          *)
(* detailer, updater) and the killer, which turns a signal into a          *)
(* shutdown.  The traffic itself is module Mux; here a channel only opens  *)
(* and closes, a thread is blocked or not, and the peer may drop the       *)
(* connection.                                                             *)
(***************************************************************************)
EXTENDS Naturals, FiniteSets

CONSTANTS
    Workers,    \* the worker threads of proto_run()
    DropEarly,  \* whether the connection may be lost during proto_mux()
    Signals     \* whether the user may interrupt the program

ASSUME LifeAssumption ==
    /\ IsFiniteSet(Workers)
    /\ DropEarly \in BOOLEAN
    /\ Signals \in BOOLEAN

Io == {"sender", "receiver"}
Closers == Io \cup {"main", "killer"}
Statuses == {"SUCCESS", "FAILURE", "TRANSIENT", "INTERRUPTED"}
Chans == {0, 1}

VARIABLES
    mpc,      \* where the main thread is in proto_mux() and proto_run()
    mstatus,  \* the variable status of proto_run()
    cstate,   \* the states of channels 0 and 1
    closed,   \* mux->closed
    status,   \* mux->status
    io,       \* the sender and the receiver threads
    cancel,   \* io threads with a pending pthread_cancel()
    sd,       \* progress of the mux_shutdown() a thread is in
    sdarg,    \* the status it was called with
    work,     \* the workers
    killer,   \* the killer thread
    signal,   \* a signal waits for sigwait()
    dropped,  \* the peer is gone
    freed,    \* mux_close() freed the multiplexer
    failed,   \* an assert() failed: the program aborts
    result    \* what proto_run() returns

vars == <<mpc, mstatus, cstate, closed, status, io, cancel, sd, sdarg, work,
          killer, signal, dropped, freed, failed, result>>

muxVars == <<cstate, closed, status>>
threadVars == <<io, cancel>>
envVars == <<signal, dropped>>

Init ==
    /\ mpc = "connect"
    /\ mstatus = "SUCCESS"
    /\ cstate = [c \in Chans |-> "UNUSED"]
    /\ closed = FALSE
    /\ status = "NONE"
    /\ io = [t \in Io |-> "idle"]
    /\ cancel = {}
    /\ sd = [t \in Closers |-> "no"]
    /\ sdarg = [t \in Closers |-> "NONE"]
    /\ work = [w \in Workers |-> "unborn"]
    /\ killer = "none"
    /\ signal = FALSE
    /\ dropped = FALSE
    /\ freed = FALSE
    /\ failed = FALSE
    /\ result = "NONE"

-----------------------------------------------------------------------------
(* mux_shutdown() *)

\* Three mutants: the status is not recorded, the test of m->closed is missing,
\* the threads that sleep on a channel are not woken up.
CallWithoutStatus(t, st) ==
    /\ sd' = [sd EXCEPT ![t] = "enter"]
    /\ UNCHANGED sdarg
NeverShut == FALSE
StillBlocked == work

\* A thread calls it; the caller says in its own state where it goes on.
CallShutdown(t, st) ==
    /\ sd' = [sd EXCEPT ![t] = "enter"]
    /\ sdarg' = [sdarg EXCEPT ![t] = st]

\* It returns: to the loop of the killer, to the main thread's next step, or
\* to the end of an io thread, whose value is then NULL.
Returns(t) ==
    /\ sd' = [sd EXCEPT ![t] = "no"]
    /\ io' = [i \in Io |-> IF i = t THEN "exited" ELSE io[i]]

AlreadyShut == closed

\* Every thread that waits for a channel is woken up.
Woken ==
    [w \in Workers |-> IF work[w] = "blocked" THEN "running" ELSE work[w]]

\* The part under the mux lock: only the first call gets past it.
ShutdownEnter(t) ==
    /\ sd[t] = "enter"
    /\ IF AlreadyShut
       THEN Returns(t) /\ UNCHANGED <<closed, status, cstate, work>>
       ELSE /\ closed' = TRUE
            /\ status' = sdarg[t]
            /\ cstate' = [c \in Chans |-> IF cstate[c] = "UNUSED" THEN "UNUSED"
                                          ELSE "CLOSED"]
            /\ work' = Woken
            /\ sd' = [sd EXCEPT ![t] = IF t = "receiver" THEN "cancelS"
                                       ELSE "cancelR"]
            /\ UNCHANGED io
    /\ UNCHANGED <<mpc, mstatus, cancel, sdarg, killer, envVars, freed, failed,
                   result>>

Target(step) == IF step \in {"cancelR", "joinR"} THEN "receiver" ELSE "sender"

ShutdownCancel(t) ==
    /\ sd[t] \in {"cancelR", "cancelS"}
    /\ cancel' = cancel \cup {Target(sd[t])}
    /\ sd' = [sd EXCEPT ![t] = IF @ = "cancelR" THEN "joinR" ELSE "joinS"]
    /\ UNCHANGED <<mpc, mstatus, muxVars, io, sdarg, work, killer, envVars,
                   freed, failed, result>>

\* pthread_join(), then assert(val == PTHREAD_CANCELED).
ShutdownJoin(t) ==
    /\ sd[t] \in {"joinR", "joinS"}
    /\ io[Target(sd[t])] \in {"exited", "cancelled"}
    /\ failed' = (io[Target(sd[t])] = "exited")
    /\ IF sd[t] = "joinR" /\ t # "sender"
       THEN sd' = [sd EXCEPT ![t] = "cancelS"] /\ UNCHANGED io
       ELSE Returns(t)
    /\ UNCHANGED <<mpc, mstatus, muxVars, cancel, sdarg, work, killer, envVars,
                   freed, result>>

-----------------------------------------------------------------------------
(* The sender and the receiver thread: "idle" in the condition wait of the *)
(* one and the read() of the other, "busy" with the multiplexer, or, the   *)
(* sender, "writing".  Idle and writing are cancellation points.           *)

Lives(t) == sd[t] = "no" /\ io[t] \in {"idle", "busy", "writing"}

IoGoes(t, from, to) ==
    /\ Lives(t)
    /\ io[t] = from
    /\ io' = [io EXCEPT ![t] = to]
    /\ UNCHANGED <<mpc, mstatus, muxVars, cancel, sd, sdarg, work, killer,
                   envVars, freed, failed, result>>

\* The sender is woken up, finds something to send or not, sends it.  There
\* is nothing to send before chan_connect().
SenderWakes == "sender" \notin cancel /\ IoGoes("sender", "idle", "busy")
SenderSleeps == IoGoes("sender", "busy", "idle")
SenderWrites == mpc # "connect" /\ IoGoes("sender", "busy", "writing")
SenderWrote == "sender" \notin cancel /\ IoGoes("sender", "writing", "busy")

ReceiverReads == "receiver" \notin cancel /\ IoGoes("receiver", "idle", "busy")

\* The packet the receiver is busy with: ACCEPT for channel 0, CONNECT for
\* channel 1, CLOSE for either, something a worker waits for ...
ReceiverDelivers ==
    /\ Lives("receiver")
    /\ io["receiver"] = "busy"
    /\ io' = [io EXCEPT !["receiver"] = "idle"]
    /\ \/ /\ cstate[0] = "CONNECTING"
          /\ cstate' = [cstate EXCEPT ![0] = "OPEN"]
          /\ UNCHANGED work
       \/ /\ cstate[0] = "OPEN" /\ cstate[1] = "LISTENING"
          /\ cstate' = [cstate EXCEPT ![1] = "OPEN"]
          /\ UNCHANGED work
       \/ /\ \E c \in Chans :
               /\ cstate[c] = "WRCLOSED"
               /\ cstate' = [cstate EXCEPT ![c] = "CLOSED"]
          /\ UNCHANGED work
       \/ /\ \E w \in Workers :
               /\ work[w] = "blocked"
               /\ work' = [work EXCEPT ![w] = "running"]
          /\ UNCHANGED cstate
    /\ UNCHANGED <<mpc, mstatus, closed, status, cancel, sd, sdarg, killer,
                   envVars, freed, failed, result>>

\* ... or nothing that matters here.
ReceiverIgnores == IoGoes("receiver", "busy", "idle")

\* A deferred cancellation takes effect in a cancellation point only.
IoCancelled(t) ==
    /\ t \in cancel
    /\ \E from \in {"idle", "writing"} : IoGoes(t, from, "cancelled")

\* The connection is gone: read() returns 0, writev() fails.  sender_loop()
\* reports every error as STATUS_FAILURE.
IoFails(t, from, st) ==
    /\ Lives(t)
    /\ io[t] = from
    /\ t \notin cancel
    /\ dropped
    /\ io' = [io EXCEPT ![t] = "busy"]
    /\ CallShutdown(t, st)
    /\ UNCHANGED <<mpc, mstatus, muxVars, cancel, work, killer, envVars, freed,
                   failed, result>>

ReadFails == IoFails("receiver", "idle", "TRANSIENT")
WriteFails == IoFails("sender", "writing", "FAILURE")

-----------------------------------------------------------------------------
(* The main thread: proto_mux() *)

Early == {"connect", "connwait", "openfail", "listen", "acceptwait",
          "acceptfail"}

\* chan_connect(): mux->closed is not looked at.
Connect ==
    /\ mpc = "connect"
    /\ cstate[0] = "UNUSED"
    /\ cstate' = [cstate EXCEPT ![0] = "CONNECTING"]
    /\ mpc' = "connwait"
    /\ UNCHANGED <<mstatus, closed, status, threadVars, sd, sdarg, work, killer,
                   envVars, freed, failed, result>>

\* Its wait; mux_open() shuts down if the channel was not established.
Connected ==
    /\ mpc = "connwait"
    /\ cstate[0] # "CONNECTING"
    /\ IF cstate[0] = "OPEN"
       THEN mpc' = "listen" /\ UNCHANGED <<sd, sdarg>>
       ELSE mpc' = "openfail" /\ CallShutdown("main", "FAILURE")
    /\ UNCHANGED <<mstatus, muxVars, threadVars, work, killer, envVars, freed,
                   failed, result>>

\* chan_listen(), and the message to the server, whose fate is not checked.
Listen ==
    /\ mpc = "listen"
    /\ cstate[1] = "UNUSED"
    /\ cstate' = [cstate EXCEPT ![1] = "LISTENING"]
    /\ mpc' = "acceptwait"
    /\ UNCHANGED <<mstatus, closed, status, threadVars, sd, sdarg, work, killer,
                   envVars, freed, failed, result>>

\* chan_accept(), then the start of the killer and of the workers.
Accepted ==
    /\ mpc = "acceptwait"
    /\ cstate[1] # "LISTENING"
    /\ IF cstate[1] = "OPEN"
       THEN /\ mpc' = "wait"
            /\ killer' = "sigwait"
            /\ work' = [w \in Workers |-> "running"]
       ELSE /\ mpc' = "acceptfail"
            /\ UNCHANGED <<killer, work>>
    /\ UNCHANGED <<mstatus, muxVars, threadVars, sd, sdarg, envVars, freed,
                   failed, result>>

-----------------------------------------------------------------------------
(* The main thread: proto_run() *)

\* threads_wait(), then the first failure shuts the multiplexer down.
Reap(w) ==
    /\ mpc = "wait"
    /\ sd["main"] = "no"
    /\ work[w] \in {"ok", "failed"}
    /\ work' = [work EXCEPT ![w] = IF @ = "ok" THEN "reaped" ELSE "buried"]
    /\ IF work[w] = "failed" /\ mstatus = "SUCCESS"
       THEN mstatus' = "FAILURE" /\ CallShutdown("main", "FAILURE")
       ELSE UNCHANGED <<mstatus, sd, sdarg>>
    /\ UNCHANGED <<mpc, muxVars, threadVars, killer, envVars, freed, failed,
                   result>>

\* All workers are gone: chan_close() on both channels if all went well.
CloseChannels ==
    /\ mpc = "wait"
    /\ sd["main"] = "no"
    /\ \A w \in Workers : work[w] \in {"reaped", "buried"}
    /\ IF mstatus = "SUCCESS"
       THEN /\ mpc' = "drain"
            /\ cstate' = [c \in Chans |-> IF cstate[c] = "OPEN" THEN "WRCLOSED"
                                          ELSE cstate[c]]
       ELSE mpc' = "killstop" /\ UNCHANGED cstate
    /\ UNCHANGED <<mstatus, closed, status, threadVars, sd, sdarg, work, killer,
                   envVars, freed, failed, result>>

\* The condition of chan_wait(), on both channels; the mutant does not wait for
\* the peer to close them as well.
ClosedHere == \A c \in Chans : cstate[c] \in {"WRCLOSED", "CLOSED"}
ClosedAtBothEnds == \A c \in Chans : cstate[c] = "CLOSED"

\* chan_wait() on both, then the normal shutdown.
Drained ==
    /\ mpc = "drain"
    /\ ClosedAtBothEnds
    /\ mpc' = "killstop"
    /\ CallShutdown("main", "SUCCESS")
    /\ UNCHANGED <<mstatus, muxVars, threadVars, work, killer, envVars, freed,
                   failed, result>>

\* killer_stop(): the cancellation takes effect in sigwait().
KillerStop ==
    /\ mpc = "killstop"
    /\ sd["main"] = "no"
    /\ sd["killer"] = "no"
    /\ killer \in {"sigwait", "fired"}
    /\ killer' = "dead"
    /\ mpc' = "close"
    /\ UNCHANGED <<mstatus, muxVars, threadVars, sd, sdarg, work, envVars, freed,
                   failed, result>>

\* mux_close(), with assert(m->closed), and the return of proto_run().
MuxClose ==
    /\ mpc \in {"close", "openfail", "acceptfail"}
    /\ sd["main"] = "no"
    /\ IF closed
       THEN /\ freed' = TRUE
            /\ mpc' = "returned"
            /\ result' = IF mpc = "close" THEN status ELSE "FAILURE"
            /\ UNCHANGED failed
       ELSE failed' = TRUE /\ UNCHANGED <<freed, mpc, result>>
    /\ UNCHANGED <<mstatus, muxVars, threadVars, sd, sdarg, work, killer,
                   envVars>>

-----------------------------------------------------------------------------
(* The workers, the killer, the user and the network *)

\* A worker waits in chan_read() or chan_write().
WorkerBlocks(w) ==
    /\ work[w] = "running"
    /\ \A c \in Chans : cstate[c] = "OPEN"
    /\ work' = [work EXCEPT ![w] = "blocked"]
    /\ UNCHANGED <<mpc, mstatus, muxVars, threadVars, sd, sdarg, killer, envVars,
                   freed, failed, result>>

\* It finishes, or fails for a reason of its own or because of a channel.
WorkerEnds(w) ==
    /\ work[w] = "running"
    /\ \E how \in {"ok", "failed"} : work' = [work EXCEPT ![w] = how]
    /\ UNCHANGED <<mpc, mstatus, muxVars, threadVars, sd, sdarg, killer, envVars,
                   freed, failed, result>>

\* killer_run(): the first signal shuts down, the others are ignored.
KillerWakes ==
    /\ killer \in {"sigwait", "fired"}
    /\ sd["killer"] = "no"
    /\ signal
    /\ signal' = FALSE
    /\ killer' = "fired"
    /\ IF killer = "sigwait" THEN CallShutdown("killer", "INTERRUPTED")
       ELSE UNCHANGED <<sd, sdarg>>
    /\ UNCHANGED <<mpc, mstatus, muxVars, threadVars, work, dropped, freed,
                   failed, result>>

SignalArrives ==
    /\ Signals
    /\ ~signal
    /\ signal' = TRUE
    /\ UNCHANGED <<mpc, mstatus, muxVars, threadVars, sd, sdarg, work, killer,
                   dropped, freed, failed, result>>

ConnectionDrops ==
    /\ ~dropped
    /\ mpc \in Early => DropEarly
    /\ dropped' = TRUE
    /\ UNCHANGED <<mpc, mstatus, muxVars, threadVars, sd, sdarg, work, killer,
                   signal, freed, failed, result>>

-----------------------------------------------------------------------------

MainStep ==
    \/ Connect \/ Connected \/ Listen \/ Accepted
    \/ \E w \in Workers : Reap(w)
    \/ CloseChannels \/ Drained \/ KillerStop \/ MuxClose

ShutdownStep(t) == ShutdownEnter(t) \/ ShutdownCancel(t) \/ ShutdownJoin(t)

SenderStep ==
    SenderWakes \/ SenderSleeps \/ SenderWrites \/ SenderWrote \/ WriteFails

ReceiverStep ==
    ReceiverReads \/ ReceiverDelivers \/ ReceiverIgnores \/ ReadFails

WorkerStep(w) == WorkerBlocks(w) \/ WorkerEnds(w)

Step ==
    \/ MainStep
    \/ \E t \in Closers : ShutdownStep(t)
    \/ SenderStep
    \/ ReceiverStep
    \/ \E t \in Io : IoCancelled(t)
    \/ \E w \in Workers : WorkerStep(w)
    \/ KillerWakes
    \/ SignalArrives
    \/ ConnectionDrops

\* The process is over when main returned or an assertion failed.
Over == failed \/ mpc = "returned"

Next ==
    \/ ~Over /\ Step
    \/ Over /\ UNCHANGED vars

Spec == Init /\ [][Next]_vars

\* The threads are scheduled, the server answers as long as it is there, a
\* worker does not talk for ever, a lost connection is noticed by read().
Fairness ==
    /\ WF_vars(~Over /\ MainStep)
    /\ \A t \in Closers : WF_vars(~Over /\ ShutdownStep(t))
    /\ \A t \in Io : SF_vars(~Over /\ IoCancelled(t))
    /\ SF_vars(~Over /\ SenderSleeps)
    /\ WF_vars(~Over /\ ReceiverStep)
    /\ SF_vars(~Over /\ ReceiverDelivers)
    /\ SF_vars(~Over /\ ReadFails)
    /\ \A w \in Workers : SF_vars(~Over /\ WorkerEnds(w))

FairSpec == Spec /\ Fairness

-----------------------------------------------------------------------------
(* Properties *)

\* The types of the variables.
TypeOK ==
    /\ mpc \in Early \cup {"wait", "drain", "killstop", "close", "returned"}
    /\ mstatus \in Statuses
    /\ cstate \in [Chans -> {"UNUSED", "LISTENING", "CONNECTING", "OPEN",
                             "WRCLOSED", "CLOSED"}]
    /\ closed \in BOOLEAN
    /\ status \in IF closed THEN Statuses ELSE {"NONE"}
    /\ io \in [Io -> {"idle", "busy", "writing", "exited", "cancelled"}]
    /\ cancel \subseteq Io
    /\ sd \in [Closers -> {"no", "enter", "cancelR", "joinR", "cancelS", "joinS"}]
    /\ sdarg \in [Closers -> Statuses \cup {"NONE"}]
    /\ work \in [Workers -> {"unborn", "running", "blocked", "ok", "failed",
                             "reaped", "buried"}]
    /\ killer \in {"none", "sigwait", "fired", "dead"}
    /\ signal \in BOOLEAN
    /\ dropped \in BOOLEAN
    /\ freed \in BOOLEAN
    /\ failed \in BOOLEAN
    /\ result \in Statuses \cup {"NONE"}

\* Only one thread ever cancels and joins the others, so that no two threads
\* join each other, and it does so in a multiplexer whose channels are all
\* closed, with nobody left blocked on them (mux_shutdown called by the main
\* thread, the killer, the sender and the receiver at once).
OneShutdown ==
    /\ Cardinality({t \in Closers : sd[t] \notin {"no", "enter"}}) <= 1
    /\ \A t \in Closers : sd[t] \notin {"no", "enter"} =>
         /\ closed
         /\ mpc \notin Early => \A w \in Workers : work[w] # "blocked"

\* The multiplexer is shut down with success only after all the workers
\* succeeded and both channels were closed by both ends, not by an earlier
\* shutdown, which closes them too and wakes chan_wait() up (proto_run).
SuccessIsOrderly ==
    [][status = "NONE" /\ status' = "SUCCESS" =>
         /\ \A w \in Workers : work[w] = "reaped"
         /\ \A c \in Chans : cstate[c] = "CLOSED"]_vars

\* "it is used every time we need to wake up all the worker threads to abort
\* the program" (mux_shutdown): whatever happens, and whoever notices first,
\* proto_run() returns.
MainReturns == <>Over

\* assert(val == PTHREAD_CANCELED) in mux_shutdown(): the threads it joins
\* ended because it cancelled them; assert(m->closed) in mux_close().
AssertionsHold == ~failed

\* "Close all the channels, terminate the sender and receiver thread"
\* (mux_shutdown): when mux_close() has freed the multiplexer, these threads
\* are done with it.
ThreadsGoneAtClose ==
    freed => \A t \in Io : io[t] \in {"exited", "cancelled"}
                           \/ sd[t] \notin {"no", "enter"}
=============================================================================
