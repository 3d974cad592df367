--------------------------- MODULE MuxLifeProofs ----------------------------
(***************************************************************************)
(* Proofs about module MuxLife, for any number of workers, with and        *)
(* without signals, and whenever the connection may be lost: one thread at *)
(* most cancels and joins the others, nobody stays blocked on a channel it *)
(* has closed, and SUCCESS means that everything was closed in order.      *)
(***************************************************************************)
EXTENDS MuxLife, FiniteSetTheorems, TLAPS

\* Thread t is in the part of mux_shutdown() that cancels and joins.
Past(t) == sd[t] \notin {"no", "enter"}

\* Whoever calls mux_shutdown() says why.
ArgKnown == \A t \in Closers : sd[t] # "no" => sdarg[t] # "NONE"

\* m->closed lets a single caller through.
SingleCloser ==
    /\ \A t \in Closers : Past(t) => closed
    /\ \A t, u \in Closers : Past(t) /\ Past(u) => t = u

\* Only the receiver can notice a failure before chan_connect(): the sender
\* has nothing to write yet, and neither the killer nor the workers exist.
StartedFirst ==
    /\ mpc # "connect" => cstate[0] # "UNUSED"
    /\ io["sender"] = "writing" => mpc # "connect"
    /\ \A t \in Closers : sd[t] = "enter" /\ t # "receiver" => mpc # "connect"
    /\ killer # "none" => mpc \notin Early

ReceiverGone == sd["receiver"] # "no" \/ io["receiver"] = "exited"

\* No channel opens again once the multiplexer is shut down: a channel used
\* later finds no receiver to answer it.
StaysClosed ==
    closed =>
      /\ cstate[0] \in {"UNUSED", "CONNECTING", "CLOSED"}
      /\ cstate[1] \in {"UNUSED", "LISTENING", "CLOSED"}
      /\ cstate[0] # "CLOSED" => ReceiverGone
      /\ \A w \in Workers : work[w] # "blocked"

AllReaped == \A w \in Workers : work[w] = "reaped"
AllClosed == \A c \in Chans : cstate[c] = "CLOSED"

\* The main thread alone asks for SUCCESS, with nothing left to do.
SuccessIsLast ==
    /\ mstatus = "SUCCESS" => \A w \in Workers : work[w] # "buried"
    /\ mpc = "drain" => AllReaped
    /\ \A t \in Closers : sdarg[t] = "SUCCESS" =>
         /\ t = "main"
         /\ mpc \in {"killstop", "close", "returned"}
         /\ AllReaped
         /\ AllClosed
    /\ status = "SUCCESS" \/ result = "SUCCESS" => AllReaped /\ AllClosed
                              /\ mpc \in {"killstop", "close", "returned"}

\* The main thread gets to mux_close() through a shutdown.
ClosedByThen ==
    /\ sd["main"] = "no" =>
         /\ mpc \in {"openfail", "killstop", "close"} => closed
         /\ mpc = "wait" /\ mstatus # "SUCCESS" => closed
    /\ mpc = "acceptwait" /\ ~closed => cstate[1] \in {"LISTENING", "OPEN"}
    /\ mpc = "acceptfail" => closed
    /\ mpc \in Early \cup {"drain"} => mstatus = "SUCCESS"

IInv ==
    /\ TypeOK
    /\ ArgKnown
    /\ SingleCloser
    /\ StartedFirst
    /\ StaysClosed
    /\ SuccessIsLast
    /\ ClosedByThen

-----------------------------------------------------------------------------
(* The steps *)

\* A step of the sender or the receiver that only changes its own state.
IoMoves ==
    \E t \in Io, from, to \in {"idle", "busy", "writing", "cancelled"} :
      /\ IoGoes(t, from, to)
      /\ to = "writing" => t = "sender" /\ mpc # "connect"

\* What a step of the program is, action by action.
LEMMA StepCases ==
    ASSUME [Next]_vars
    PROVE  \/ Connect \/ Connected \/ Listen \/ Accepted
           \/ \E w \in Workers : Reap(w)
           \/ CloseChannels \/ Drained \/ KillerStop \/ MuxClose
           \/ \E t \in Closers : ShutdownEnter(t)
           \/ \E t \in Closers : ShutdownCancel(t)
           \/ \E t \in Closers : ShutdownJoin(t)
           \/ IoMoves
           \/ ReceiverDelivers \/ WriteFails \/ ReadFails
           \/ \E w \in Workers : WorkerStep(w)
           \/ KillerWakes \/ SignalArrives \/ ConnectionDrops
           \/ UNCHANGED vars
<1>1. CASE SenderStep
  BY <1>1 DEF SenderStep, SenderWakes, SenderSleeps, SenderWrites, SenderWrote,
              IoMoves, Io
<1>2. CASE ReceiverStep
  BY <1>2 DEF ReceiverStep, ReceiverReads, ReceiverIgnores, IoMoves, Io
<1>3. ASSUME NEW t \in Io, IoCancelled(t) PROVE IoMoves
  BY <1>3 DEF IoCancelled, IoMoves
<1> QED
  BY <1>1, <1>2, <1>3 DEF Next, Step, MainStep, ShutdownStep

\* The variables keep their types: the status of the first shutdown is a real one.
LEMMA TypeOKStep ==
    ASSUME IInv, [Next]_vars
    PROVE  TypeOK'
<1>1. CASE Connect
  BY <1>1 DEF IInv, TypeOK, Chans, Early, Connect, envVars, threadVars
<1>2. CASE Connected
  BY <1>2
     DEF IInv, TypeOK, Early, Statuses, CallShutdown, Connected, envVars,
         muxVars, threadVars
<1>3. CASE Listen
  BY <1>3 DEF IInv, TypeOK, Chans, Early, Listen, envVars, threadVars
<1>4. CASE Accepted
  BY <1>4 DEF IInv, TypeOK, Early, Accepted, envVars, muxVars, threadVars
<1>5. ASSUME NEW w \in Workers, Reap(w) PROVE TypeOK'
  BY <1>5
     DEF IInv, TypeOK, Statuses, CallShutdown, Reap, envVars, muxVars,
         threadVars
<1>6. CASE CloseChannels
  BY <1>6 DEF IInv, TypeOK, CloseChannels, envVars, threadVars
<1>7. CASE Drained
  BY <1>7
     DEF IInv, TypeOK, Closers, Statuses, CallShutdown, Drained, envVars,
         muxVars, threadVars
<1>8. CASE KillerStop
  BY <1>8 DEF IInv, TypeOK, KillerStop, envVars, muxVars, threadVars
<1>9. CASE MuxClose
  <2>1. /\ mpc' \in {mpc, "returned"} /\ freed' \in {freed, TRUE}
        /\ failed' \in {failed, TRUE}
    BY <1>9 DEF MuxClose
  <2>2. result' \in Statuses \cup {"NONE"}
    BY <1>9 DEF IInv, TypeOK, MuxClose, Statuses
  <2>3. UNCHANGED <<mstatus, muxVars, threadVars, sd, sdarg, work, killer,
                    envVars>>
    BY <1>9 DEF MuxClose
  <2> QED
    BY <2>1, <2>2, <2>3 DEF IInv, TypeOK, muxVars, threadVars, envVars
<1>10. ASSUME NEW t \in Closers, ShutdownEnter(t) PROVE TypeOK'
  <2>1. CASE closed
    BY <1>10, <2>1
       DEF IInv, TypeOK, ShutdownEnter, AlreadyShut, Returns, envVars
  <2>2. CASE ~closed
    <3>1. closed' = TRUE /\ status' = sdarg[t] /\ sdarg[t] \in Statuses
      BY <1>10, <2>2 DEF IInv, TypeOK, ArgKnown, ShutdownEnter, AlreadyShut
    <3>2. /\ cstate' \in [Chans -> {"UNUSED", "LISTENING", "CONNECTING", "OPEN",
                                   "WRCLOSED", "CLOSED"}]
          /\ work' \in [Workers -> {"unborn", "running", "blocked", "ok",
                                    "failed", "reaped", "buried"}]
      BY <1>10 DEF IInv, TypeOK, ShutdownEnter, Woken
    <3>3. sd' \in [Closers -> {"no", "enter", "cancelR", "joinR", "cancelS",
                              "joinS"}]
      BY <1>10, <2>2 DEF IInv, TypeOK, ShutdownEnter, AlreadyShut
    <3>4. UNCHANGED <<mpc, mstatus, io, cancel, sdarg, killer, signal, dropped,
                      freed, failed, result>>
      BY <1>10, <2>2 DEF ShutdownEnter, AlreadyShut, envVars
    <3> QED BY <3>1, <3>2, <3>3, <3>4 DEF IInv, TypeOK
  <2> QED BY <2>1, <2>2
<1>11. ASSUME NEW t \in Closers, ShutdownCancel(t) PROVE TypeOK'
  BY <1>11 DEF IInv, TypeOK, Io, ShutdownCancel, Target, envVars, muxVars
<1>12. ASSUME NEW t \in Closers, ShutdownJoin(t) PROVE TypeOK'
  BY <1>12 DEF IInv, TypeOK, Returns, ShutdownJoin, envVars, muxVars
<1>13. CASE IoMoves
  BY <1>13 DEF IInv, TypeOK, IoGoes, IoMoves, envVars, muxVars
<1>14. CASE ReceiverDelivers
  BY <1>14 DEF IInv, TypeOK, Io, ReceiverDelivers, envVars
<1>15. CASE WriteFails
  BY <1>15
     DEF IInv, TypeOK, Closers, Io, Statuses, CallShutdown, IoFails,
         WriteFails, envVars, muxVars
<1>16. CASE ReadFails
  BY <1>16
     DEF IInv, TypeOK, Closers, Io, Statuses, CallShutdown, IoFails, ReadFails,
         envVars, muxVars
<1>17. ASSUME NEW w \in Workers, WorkerStep(w) PROVE TypeOK'
  <2>1. work' \in [Workers -> {"unborn", "running", "blocked", "ok", "failed",
                              "reaped", "buried"}]
    BY <1>17 DEF IInv, TypeOK, WorkerStep, WorkerBlocks, WorkerEnds
  <2>2. UNCHANGED <<mpc, mstatus, muxVars, threadVars, sd, sdarg, killer,
                    envVars, freed, failed, result>>
    BY <1>17 DEF WorkerStep, WorkerBlocks, WorkerEnds
  <2> QED BY <2>1, <2>2 DEF IInv, TypeOK, muxVars, threadVars, envVars
<1>18. CASE KillerWakes
  <2>1. signal' = FALSE /\ killer' = "fired"
    BY <1>18 DEF KillerWakes
  <2>2. /\ sd' \in [Closers -> {"no", "enter", "cancelR", "joinR", "cancelS",
                               "joinS"}]
        /\ sdarg' \in [Closers -> Statuses \cup {"NONE"}]
    BY <1>18 DEF IInv, TypeOK, Statuses, KillerWakes, CallShutdown
  <2>3. UNCHANGED <<mpc, mstatus, muxVars, threadVars, work, dropped, freed,
                    failed, result>>
    BY <1>18 DEF KillerWakes
  <2> QED BY <2>1, <2>2, <2>3 DEF IInv, TypeOK, muxVars, threadVars
<1>19. CASE SignalArrives \/ ConnectionDrops \/ UNCHANGED vars
  <2>1. CASE SignalArrives
    BY <2>1 DEF IInv, TypeOK, SignalArrives, muxVars, threadVars
  <2>2. CASE ConnectionDrops
    BY <2>2 DEF IInv, TypeOK, ConnectionDrops, muxVars, threadVars
  <2>3. CASE UNCHANGED vars
    BY <2>3 DEF IInv, TypeOK, vars
  <2> QED BY <1>19, <2>1, <2>2, <2>3
<1> QED BY StepCases, <1>1, <1>2, <1>3, <1>4, <1>5, <1>6, <1>7, <1>8, <1>9,
          <1>10, <1>11, <1>12, <1>13, <1>14, <1>15, <1>16, <1>17, <1>18, <1>19

\* Every call of mux_shutdown() has a status.
LEMMA ArgKnownStep ==
    ASSUME IInv, [Next]_vars
    PROVE  ArgKnown'
<1>1. CASE Connect
  BY <1>1 DEF IInv, ArgKnown, Connect
<1>2. CASE Connected
  BY <1>2 DEF IInv, ArgKnown, TypeOK, CallShutdown, Connected
<1>3. CASE Listen
  BY <1>3 DEF IInv, ArgKnown, Listen
<1>4. CASE Accepted
  BY <1>4 DEF IInv, ArgKnown, Accepted
<1>5. ASSUME NEW w \in Workers, Reap(w) PROVE ArgKnown'
  BY <1>5 DEF IInv, ArgKnown, TypeOK, CallShutdown, Reap
<1>6. CASE CloseChannels
  BY <1>6 DEF IInv, ArgKnown, CloseChannels
<1>7. CASE Drained
  BY <1>7 DEF IInv, ArgKnown, TypeOK, CallShutdown, Drained
<1>8. CASE KillerStop
  BY <1>8 DEF IInv, ArgKnown, KillerStop
<1>9. CASE MuxClose
  BY <1>9 DEF IInv, ArgKnown, MuxClose
<1>10. ASSUME NEW t \in Closers, ShutdownEnter(t) PROVE ArgKnown'
  BY <1>10 DEF IInv, ArgKnown, TypeOK, Returns, ShutdownEnter
<1>11. ASSUME NEW t \in Closers, ShutdownCancel(t) PROVE ArgKnown'
  BY <1>11 DEF IInv, ArgKnown, ShutdownCancel
<1>12. ASSUME NEW t \in Closers, ShutdownJoin(t) PROVE ArgKnown'
  BY <1>12 DEF IInv, ArgKnown, TypeOK, Returns, ShutdownJoin
<1>13. CASE IoMoves
  BY <1>13 DEF IInv, ArgKnown, IoGoes, IoMoves
<1>14. CASE ReceiverDelivers
  BY <1>14 DEF IInv, ArgKnown, ReceiverDelivers
<1>15. CASE WriteFails
  BY <1>15 DEF IInv, ArgKnown, TypeOK, CallShutdown, IoFails, WriteFails
<1>16. CASE ReadFails
  BY <1>16 DEF IInv, ArgKnown, TypeOK, CallShutdown, IoFails, ReadFails
<1>17. ASSUME NEW w \in Workers, WorkerStep(w) PROVE ArgKnown'
  BY <1>17 DEF IInv, ArgKnown, WorkerBlocks, WorkerEnds, WorkerStep
<1>18. CASE KillerWakes
  BY <1>18 DEF IInv, ArgKnown, TypeOK, CallShutdown, KillerWakes
<1>19. CASE SignalArrives \/ ConnectionDrops \/ UNCHANGED vars
  BY <1>19 DEF IInv, ArgKnown, ConnectionDrops, SignalArrives, vars
<1> QED BY StepCases, <1>1, <1>2, <1>3, <1>4, <1>5, <1>6, <1>7, <1>8, <1>9,
          <1>10, <1>11, <1>12, <1>13, <1>14, <1>15, <1>16, <1>17, <1>18, <1>19

\* The test of m->closed under the lock lets one thread through.
LEMMA SingleCloserStep ==
    ASSUME IInv, [Next]_vars
    PROVE  SingleCloser'
<1>1. CASE Connect
  BY <1>1 DEF IInv, SingleCloser, Past, Connect
<1>2. CASE Connected
  BY <1>2
     DEF IInv, SingleCloser, Past, TypeOK, CallShutdown, Connected, muxVars
<1>3. CASE Listen
  BY <1>3 DEF IInv, SingleCloser, Past, Listen
<1>4. CASE Accepted
  BY <1>4 DEF IInv, SingleCloser, Past, Accepted, muxVars
<1>5. ASSUME NEW w \in Workers, Reap(w) PROVE SingleCloser'
  BY <1>5 DEF IInv, SingleCloser, Past, TypeOK, CallShutdown, Reap, muxVars
<1>6. CASE CloseChannels
  BY <1>6 DEF IInv, SingleCloser, Past, CloseChannels
<1>7. CASE Drained
  BY <1>7 DEF IInv, SingleCloser, Past, CallShutdown, Drained, muxVars
<1>8. CASE KillerStop
  BY <1>8 DEF IInv, SingleCloser, Past, KillerStop, muxVars
<1>9. CASE MuxClose
  BY <1>9 DEF IInv, SingleCloser, Past, MuxClose, muxVars
<1>10. ASSUME NEW t \in Closers, ShutdownEnter(t) PROVE SingleCloser'
  BY <1>10
     DEF IInv, SingleCloser, Past, TypeOK, AlreadyShut, Returns, ShutdownEnter
<1>11. ASSUME NEW t \in Closers, ShutdownCancel(t) PROVE SingleCloser'
  BY <1>11 DEF IInv, SingleCloser, Past, ShutdownCancel, muxVars
<1>12. ASSUME NEW t \in Closers, ShutdownJoin(t) PROVE SingleCloser'
  BY <1>12 DEF IInv, SingleCloser, Past, TypeOK, Returns, ShutdownJoin, muxVars
<1>13. CASE IoMoves
  BY <1>13 DEF IInv, SingleCloser, Past, IoGoes, IoMoves, muxVars
<1>14. CASE ReceiverDelivers
  BY <1>14 DEF IInv, SingleCloser, Past, ReceiverDelivers
<1>15. CASE WriteFails
  BY <1>15
     DEF IInv, SingleCloser, Past, CallShutdown, IoFails, WriteFails, muxVars
<1>16. CASE ReadFails
  BY <1>16
     DEF IInv, SingleCloser, Past, CallShutdown, IoFails, ReadFails, muxVars
<1>17. ASSUME NEW w \in Workers, WorkerStep(w) PROVE SingleCloser'
  BY <1>17
     DEF IInv, SingleCloser, Past, WorkerBlocks, WorkerEnds, WorkerStep,
         muxVars
<1>18. CASE KillerWakes
  BY <1>18
     DEF IInv, SingleCloser, Past, TypeOK, CallShutdown, KillerWakes, muxVars
<1>19. CASE SignalArrives \/ ConnectionDrops \/ UNCHANGED vars
  BY <1>19
     DEF IInv, SingleCloser, Past, ConnectionDrops, SignalArrives, muxVars,
         vars
<1> QED BY StepCases, <1>1, <1>2, <1>3, <1>4, <1>5, <1>6, <1>7, <1>8, <1>9,
          <1>10, <1>11, <1>12, <1>13, <1>14, <1>15, <1>16, <1>17, <1>18, <1>19

\* Nothing but the receiver shuts down before chan_connect().
LEMMA StartedFirstStep ==
    ASSUME IInv, [Next]_vars
    PROVE  StartedFirst'
<1>1. CASE Connect
  BY <1>1 DEF IInv, StartedFirst, Chans, TypeOK, Connect
<1>2. CASE Connected
  BY <1>2 DEF IInv, StartedFirst, Early, Connected, muxVars
<1>3. CASE Listen
  BY <1>3 DEF IInv, StartedFirst, Early, Listen
<1>4. CASE Accepted
  BY <1>4 DEF IInv, StartedFirst, Early, Accepted, muxVars
<1>5. ASSUME NEW w \in Workers, Reap(w) PROVE StartedFirst'
  BY <1>5 DEF IInv, StartedFirst, Reap, muxVars
<1>6. CASE CloseChannels
  BY <1>6 DEF IInv, StartedFirst, Chans, Early, CloseChannels
<1>7. CASE Drained
  BY <1>7 DEF IInv, StartedFirst, Early, Drained, muxVars
<1>8. CASE KillerStop
  BY <1>8 DEF IInv, StartedFirst, Early, KillerStop, muxVars
<1>9. CASE MuxClose
  BY <1>9 DEF IInv, StartedFirst, Early, MuxClose, muxVars
<1>10. ASSUME NEW t \in Closers, ShutdownEnter(t) PROVE StartedFirst'
  BY <1>10 DEF IInv, StartedFirst, Chans, Io, TypeOK, Returns, ShutdownEnter
<1>11. ASSUME NEW t \in Closers, ShutdownCancel(t) PROVE StartedFirst'
  BY <1>11 DEF IInv, StartedFirst, ShutdownCancel, muxVars
<1>12. ASSUME NEW t \in Closers, ShutdownJoin(t) PROVE StartedFirst'
  BY <1>12 DEF IInv, StartedFirst, Io, TypeOK, Returns, ShutdownJoin, muxVars
<1>13. CASE IoMoves
  BY <1>13 DEF IInv, StartedFirst, IoGoes, IoMoves, muxVars
<1>14. CASE ReceiverDelivers
  BY <1>14 DEF IInv, StartedFirst, Chans, TypeOK, ReceiverDelivers
<1>15. CASE WriteFails
  BY <1>15 DEF IInv, StartedFirst, IoFails, WriteFails, muxVars
<1>16. CASE ReadFails
  BY <1>16 DEF IInv, StartedFirst, CallShutdown, IoFails, ReadFails, muxVars
<1>17. ASSUME NEW w \in Workers, WorkerStep(w) PROVE StartedFirst'
  BY <1>17
     DEF IInv, StartedFirst, WorkerBlocks, WorkerEnds, WorkerStep, muxVars,
         threadVars
<1>18. CASE KillerWakes
  BY <1>18 DEF IInv, StartedFirst, Early, KillerWakes, muxVars
<1>19. CASE SignalArrives \/ ConnectionDrops \/ UNCHANGED vars
  BY <1>19
     DEF IInv, StartedFirst, ConnectionDrops, SignalArrives, muxVars,
         threadVars, vars
<1> QED BY StepCases, <1>1, <1>2, <1>3, <1>4, <1>5, <1>6, <1>7, <1>8, <1>9,
          <1>10, <1>11, <1>12, <1>13, <1>14, <1>15, <1>16, <1>17, <1>18, <1>19

\* What mux_shutdown() closed is not opened again.
LEMMA StaysClosedStep ==
    ASSUME IInv, [Next]_vars
    PROVE  StaysClosed'
<1>1. CASE Connect
  BY <1>1 DEF IInv, StaysClosed, ReceiverGone, Connect, threadVars
<1>2. CASE Connected
  BY <1>2 DEF IInv, StaysClosed, StartedFirst, Connected, muxVars
<1>3. CASE Listen
  BY <1>3 DEF IInv, StaysClosed, ReceiverGone, Listen, threadVars
<1>4. CASE Accepted
  BY <1>4 DEF IInv, StaysClosed, ReceiverGone, Accepted, muxVars, threadVars
<1>5. ASSUME NEW w \in Workers, Reap(w) PROVE StaysClosed'
  BY <1>5
     DEF IInv, StaysClosed, Closers, Io, ReceiverGone, TypeOK, CallShutdown,
         Reap, muxVars, threadVars
<1>6. CASE CloseChannels
  BY <1>6 DEF IInv, StaysClosed, Chans, ReceiverGone, CloseChannels, threadVars
<1>7. CASE Drained
  BY <1>7 DEF IInv, StaysClosed, Chans, ClosedAtBothEnds, Drained, muxVars
<1>8. CASE KillerStop
  BY <1>8 DEF IInv, StaysClosed, ReceiverGone, KillerStop, muxVars, threadVars
<1>9. CASE MuxClose
  BY <1>9 DEF IInv, StaysClosed, ReceiverGone, MuxClose, muxVars, threadVars
<1>10. ASSUME NEW t \in Closers, ShutdownEnter(t) PROVE StaysClosed'
  <2>1. CASE closed
    BY <1>10, <2>1
       DEF IInv, StaysClosed, ReceiverGone, TypeOK, Closers, Io, ShutdownEnter,
           AlreadyShut, Returns
  <2>2. CASE ~closed
    <3>1. \A w \in Workers : work'[w] # "blocked"
      BY <1>10, <2>2 DEF ShutdownEnter, AlreadyShut, Woken
    <3>2. \A c \in Chans : cstate'[c] \in {"UNUSED", "CLOSED"}
      BY <1>10, <2>2 DEF ShutdownEnter, AlreadyShut
    <3>3. CASE t = "receiver"
      <4>1. sd'["receiver"] # "no"
        BY <1>10, <2>2, <3>3 DEF IInv, TypeOK, ShutdownEnter, AlreadyShut
      <4> QED BY <3>1, <3>2, <4>1 DEF StaysClosed, ReceiverGone, Chans
    <3>4. CASE t # "receiver"
      <4>1. cstate[0] # "UNUSED"
        BY <1>10, <3>4 DEF IInv, StartedFirst, ShutdownEnter
      <4>2. cstate'[0] = "CLOSED"
        BY <1>10, <2>2, <4>1 DEF ShutdownEnter, AlreadyShut, Chans
      <4> QED BY <3>1, <3>2, <4>2 DEF StaysClosed, Chans
    <3> QED BY <3>3, <3>4
  <2> QED BY <2>1, <2>2
<1>11. ASSUME NEW t \in Closers, ShutdownCancel(t) PROVE StaysClosed'
  BY <1>11 DEF IInv, StaysClosed, ReceiverGone, ShutdownCancel, muxVars
<1>12. ASSUME NEW t \in Closers, ShutdownJoin(t) PROVE StaysClosed'
  BY <1>12
     DEF IInv, StaysClosed, Closers, Io, ReceiverGone, TypeOK, Returns,
         ShutdownJoin, muxVars
<1>13. CASE IoMoves
  BY <1>13 DEF IInv, StaysClosed, ReceiverGone, IoGoes, IoMoves, muxVars
<1>14. CASE ReceiverDelivers
  BY <1>14 DEF IInv, StaysClosed, Chans, ReceiverGone, Lives, ReceiverDelivers
<1>15. CASE WriteFails
  BY <1>15
     DEF IInv, StaysClosed, ReceiverGone, CallShutdown, IoFails, WriteFails,
         muxVars
<1>16. CASE ReadFails
  BY <1>16
     DEF IInv, StaysClosed, ReceiverGone, CallShutdown, IoFails, ReadFails,
         muxVars
<1>17. ASSUME NEW w \in Workers, WorkerStep(w) PROVE StaysClosed'
  <2>1. closed => \A v \in Workers : work'[v] # "blocked"
    BY <1>17
       DEF IInv, StaysClosed, TypeOK, Chans, WorkerStep, WorkerBlocks,
           WorkerEnds
  <2>2. UNCHANGED <<muxVars, threadVars, sd>>
    BY <1>17 DEF WorkerStep, WorkerBlocks, WorkerEnds
  <2> QED
    BY <2>1, <2>2 DEF IInv, StaysClosed, ReceiverGone, muxVars, threadVars
<1>18. CASE KillerWakes
  BY <1>18
     DEF IInv, StaysClosed, Closers, Io, ReceiverGone, TypeOK, CallShutdown,
         KillerWakes, muxVars, threadVars
<1>19. CASE SignalArrives \/ ConnectionDrops \/ UNCHANGED vars
  BY <1>19
     DEF IInv, StaysClosed, ReceiverGone, ConnectionDrops, SignalArrives,
         muxVars, threadVars, vars
<1> QED BY StepCases, <1>1, <1>2, <1>3, <1>4, <1>5, <1>6, <1>7, <1>8, <1>9,
          <1>10, <1>11, <1>12, <1>13, <1>14, <1>15, <1>16, <1>17, <1>18, <1>19

\* SUCCESS is asked for last, when the workers and the channels are done.
LEMMA SuccessIsLastStep ==
    ASSUME IInv, [Next]_vars
    PROVE  SuccessIsLast'
<1>1. CASE Connect
  BY <1>1 DEF IInv, SuccessIsLast, Connect
<1>2. CASE Connected
  BY <1>2 DEF IInv, SuccessIsLast, TypeOK, CallShutdown, Connected, muxVars
<1>3. CASE Listen
  BY <1>3 DEF IInv, SuccessIsLast, Listen
<1>4. CASE Accepted
  BY <1>4 DEF IInv, SuccessIsLast, Accepted, muxVars
<1>5. ASSUME NEW w \in Workers, Reap(w) PROVE SuccessIsLast'
  BY <1>5 DEF IInv, SuccessIsLast, TypeOK, CallShutdown, Reap, muxVars
<1>6. CASE CloseChannels
  BY <1>6 DEF IInv, SuccessIsLast, AllReaped, CloseChannels
<1>7. CASE Drained
  BY <1>7
     DEF IInv, SuccessIsLast, AllClosed, AllReaped, CallShutdown,
         ClosedAtBothEnds, Drained, muxVars
<1>8. CASE KillerStop
  BY <1>8 DEF IInv, SuccessIsLast, AllClosed, AllReaped, KillerStop, muxVars
<1>9. CASE MuxClose
  BY <1>9 DEF IInv, SuccessIsLast, AllClosed, AllReaped, MuxClose, muxVars
<1>10. ASSUME NEW t \in Closers, ShutdownEnter(t) PROVE SuccessIsLast'
  BY <1>10 DEF IInv, SuccessIsLast, AllClosed, AllReaped, ShutdownEnter, Woken
<1>11. ASSUME NEW t \in Closers, ShutdownCancel(t) PROVE SuccessIsLast'
  BY <1>11
     DEF IInv, SuccessIsLast, AllClosed, AllReaped, ShutdownCancel, muxVars
<1>12. ASSUME NEW t \in Closers, ShutdownJoin(t) PROVE SuccessIsLast'
  BY <1>12 DEF IInv, SuccessIsLast, AllClosed, AllReaped, ShutdownJoin, muxVars
<1>13. CASE IoMoves
  BY <1>13
     DEF IInv, SuccessIsLast, AllClosed, AllReaped, IoGoes, IoMoves, muxVars
<1>14. CASE ReceiverDelivers
  BY <1>14
     DEF IInv, SuccessIsLast, AllClosed, AllReaped, TypeOK, ReceiverDelivers
<1>15. CASE WriteFails
  BY <1>15
     DEF IInv, SuccessIsLast, AllClosed, AllReaped, CallShutdown, IoFails,
         WriteFails, muxVars
<1>16. CASE ReadFails
  BY <1>16
     DEF IInv, SuccessIsLast, AllClosed, AllReaped, CallShutdown, IoFails,
         ReadFails, muxVars
<1>17. ASSUME NEW w \in Workers, WorkerStep(w) PROVE SuccessIsLast'
  BY <1>17
     DEF IInv, SuccessIsLast, AllReaped, TypeOK, WorkerBlocks, WorkerEnds,
         WorkerStep, muxVars
<1>18. CASE KillerWakes
  BY <1>18
     DEF IInv, SuccessIsLast, AllClosed, AllReaped, TypeOK, CallShutdown,
         KillerWakes, muxVars
<1>19. CASE SignalArrives \/ ConnectionDrops \/ UNCHANGED vars
  BY <1>19
     DEF IInv, SuccessIsLast, AllClosed, AllReaped, ConnectionDrops,
         SignalArrives, muxVars, vars
<1> QED BY StepCases, <1>1, <1>2, <1>3, <1>4, <1>5, <1>6, <1>7, <1>8, <1>9,
          <1>10, <1>11, <1>12, <1>13, <1>14, <1>15, <1>16, <1>17, <1>18, <1>19

\* mux_close() is reached through a shutdown.
LEMMA ClosedByThenStep ==
    ASSUME IInv, [Next]_vars
    PROVE  ClosedByThen'
<1>1. CASE Connect
  BY <1>1 DEF IInv, ClosedByThen, Early, Connect
<1>2. CASE Connected
  BY <1>2 DEF IInv, ClosedByThen, Closers, TypeOK, CallShutdown, Connected
<1>3. CASE Listen
  BY <1>3 DEF IInv, ClosedByThen, Chans, TypeOK, Listen
<1>4. CASE Accepted
  <2>1. UNCHANGED <<sd, closed, cstate, mstatus>> /\ mpc = "acceptwait"
    BY <1>4 DEF Accepted, muxVars
  <2>2. mstatus = "SUCCESS"
    BY <2>1 DEF IInv, ClosedByThen, Early
  <2>3. CASE cstate[1] = "OPEN"
    <3>1. mpc' = "wait"
      BY <1>4, <2>3 DEF Accepted
    <3> QED BY <2>1, <2>2, <3>1 DEF ClosedByThen
  <2>4. CASE cstate[1] # "OPEN"
    <3>1. mpc' = "acceptfail"
      BY <1>4, <2>4 DEF Accepted
    <3>2. closed
      BY <1>4, <2>4 DEF IInv, ClosedByThen, Accepted
    <3> QED BY <2>1, <2>2, <3>2 DEF ClosedByThen
  <2> QED BY <2>3, <2>4
<1>5. ASSUME NEW w \in Workers, Reap(w) PROVE ClosedByThen'
  BY <1>5
     DEF IInv, ClosedByThen, Closers, Early, TypeOK, CallShutdown, Reap,
         muxVars
<1>6. CASE CloseChannels
  BY <1>6 DEF IInv, ClosedByThen, Early, CloseChannels
<1>7. CASE Drained
  BY <1>7 DEF IInv, ClosedByThen, Closers, TypeOK, CallShutdown, Drained
<1>8. CASE KillerStop
  BY <1>8 DEF IInv, ClosedByThen, Early, KillerStop, muxVars
<1>9. CASE MuxClose
  BY <1>9 DEF IInv, ClosedByThen, Early, MuxClose
<1>10. ASSUME NEW t \in Closers, ShutdownEnter(t) PROVE ClosedByThen'
  BY <1>10 DEF IInv, ClosedByThen, AlreadyShut, ShutdownEnter
<1>11. ASSUME NEW t \in Closers, ShutdownCancel(t) PROVE ClosedByThen'
  BY <1>11 DEF IInv, ClosedByThen, ShutdownCancel, muxVars
<1>12. ASSUME NEW t \in Closers, ShutdownJoin(t) PROVE ClosedByThen'
  BY <1>12 DEF IInv, ClosedByThen, Past, SingleCloser, ShutdownJoin, muxVars
<1>13. CASE IoMoves
  BY <1>13 DEF IInv, ClosedByThen, IoGoes, IoMoves, muxVars
<1>14. CASE ReceiverDelivers
  BY <1>14 DEF IInv, ClosedByThen, Chans, TypeOK, ReceiverDelivers
<1>15. CASE WriteFails
  BY <1>15 DEF IInv, ClosedByThen, CallShutdown, IoFails, WriteFails, muxVars
<1>16. CASE ReadFails
  BY <1>16 DEF IInv, ClosedByThen, CallShutdown, IoFails, ReadFails, muxVars
<1>17. ASSUME NEW w \in Workers, WorkerStep(w) PROVE ClosedByThen'
  BY <1>17
     DEF IInv, ClosedByThen, WorkerBlocks, WorkerEnds, WorkerStep, muxVars
<1>18. CASE KillerWakes
  BY <1>18
     DEF IInv, ClosedByThen, Closers, TypeOK, CallShutdown, KillerWakes,
         muxVars
<1>19. CASE SignalArrives \/ ConnectionDrops \/ UNCHANGED vars
  BY <1>19
     DEF IInv, ClosedByThen, ConnectionDrops, SignalArrives, muxVars, vars
<1> QED BY StepCases, <1>1, <1>2, <1>3, <1>4, <1>5, <1>6, <1>7, <1>8, <1>9,
          <1>10, <1>11, <1>12, <1>13, <1>14, <1>15, <1>16, <1>17, <1>18, <1>19

-----------------------------------------------------------------------------
(* The theorems *)

\* mux_init() leaves a multiplexer that nobody has shut down.
LEMMA InitInv == Init => IInv
<1> SUFFICES ASSUME Init PROVE IInv
  OBVIOUS
<1>1. TypeOK
  BY DEF Init, TypeOK, Early, Statuses
<1>2. ArgKnown /\ SingleCloser
  BY DEF Init, ArgKnown, SingleCloser, Past
<1>3. StartedFirst
  BY DEF Init, StartedFirst, Io
<1>4. StaysClosed /\ SuccessIsLast
  BY DEF Init, StaysClosed, SuccessIsLast
<1>5. ClosedByThen
  BY DEF Init, ClosedByThen
<1> QED BY <1>1, <1>2, <1>3, <1>4, <1>5 DEF IInv

\* IInv holds in every reachable state.
LEMMA Invariant == Spec => []IInv
<1>1. IInv /\ [Next]_vars => IInv'
  BY TypeOKStep, ArgKnownStep, SingleCloserStep, StartedFirstStep,
     StaysClosedStep, SuccessIsLastStep, ClosedByThenStep
     DEF IInv
<1> QED BY <1>1, InitInv, PTL DEF Spec

\* The types of the threads, of the channels and of the shutdown in progress
\* are kept, and the multiplexer has a status when and only when it is closed.
THEOREM LifeTypes == Spec => []TypeOK
<1>1. IInv => TypeOK
  BY DEF IInv
<1> QED BY <1>1, Invariant, PTL

\* However many threads call mux_shutdown() at once, one at most cancels and
\* joins the others, and nobody is left asleep on a channel it has closed.
THEOREM OneThreadShutsDown == Spec => []OneShutdown
<1>1. IInv => OneShutdown
  <2> SUFFICES ASSUME IInv PROVE OneShutdown
    OBVIOUS
  <2> DEFINE S == {t \in Closers : Past(t)}
  <2>1. Cardinality(S) <= 1
    <3>1. CASE S = {}
      <4>1. Cardinality(S) = 0
        BY <3>1, FS_EmptySet
      <4> QED BY <4>1
    <3>2. CASE S # {}
      <4>1. PICK t \in Closers : S = {t}
        BY <3>2 DEF IInv, SingleCloser
      <4>2. Cardinality(S) = 1
        BY <4>1, FS_Singleton
      <4> QED BY <4>2
    <3> QED BY <3>1, <3>2
  <2>2. \A t \in Closers : Past(t) =>
          closed /\ (mpc \notin Early => \A w \in Workers : work[w] # "blocked")
    BY DEF IInv, SingleCloser, StaysClosed
  <2> QED BY <2>1, <2>2 DEF OneShutdown, Past
<1> QED BY <1>1, Invariant, PTL

\* A shutdown with success finds all workers reaped after they succeeded, and
\* both channels closed by both ends.
THEOREM SuccessComesLast == Spec => SuccessIsOrderly
<1>1. IInv /\ [Next]_vars
        => (status = "NONE" /\ status' = "SUCCESS" => AllReaped /\ AllClosed)
  <2> SUFFICES ASSUME IInv, [Next]_vars, status = "NONE", status' = "SUCCESS"
               PROVE  AllReaped /\ AllClosed
    OBVIOUS
  <2>1. PICK t \in Closers : ShutdownEnter(t)
    <3>1. status' # status
      OBVIOUS
    <3> QED
      BY StepCases
         DEF Connect, Connected, Listen, Accepted, Reap, CloseChannels,
             Drained, KillerStop, MuxClose, ShutdownCancel, ShutdownJoin,
             IoMoves, IoGoes, ReceiverDelivers, WriteFails, ReadFails, IoFails,
             WorkerStep, WorkerBlocks, WorkerEnds, KillerWakes, SignalArrives,
             ConnectionDrops, vars, muxVars
  <2>2. sdarg[t] = "SUCCESS"
    BY <2>1 DEF ShutdownEnter
  <2> QED BY <2>2 DEF IInv, SuccessIsLast
<1>2. IInv /\ [Next]_vars
        => [status = "NONE" /\ status' = "SUCCESS" =>
              /\ \A w \in Workers : work[w] = "reaped"
              /\ \A c \in Chans : cstate[c] = "CLOSED"]_vars
  BY <1>1 DEF AllReaped, AllClosed
<1> QED BY <1>2, Invariant, PTL DEF Spec, SuccessIsOrderly

\* When proto_run() returns SUCCESS, every worker succeeded and was reaped and
\* both channels are closed: no failure, signal or lost connection in between
\* can be reported as a success.
THEOREM ReturnsSuccessRightly ==
    Spec => [](result = "SUCCESS" => AllReaped /\ AllClosed)
<1>1. IInv => (result = "SUCCESS" => AllReaped /\ AllClosed)
  BY DEF IInv, SuccessIsLast
<1> QED BY <1>1, Invariant, PTL

\* The assert(m->closed) of mux_close() cannot fail: on every path that leads
\* the main thread there, somebody has shut the multiplexer down before.
THEOREM ClosedBeforeFreed ==
    Spec => [](/\ mpc \in {"close", "openfail", "acceptfail"}
               /\ sd["main"] = "no"
               => closed)
<1>1. IInv => (/\ mpc \in {"close", "openfail", "acceptfail"}
               /\ sd["main"] = "no"
               => closed)
  BY DEF IInv, ClosedByThen
<1> QED BY <1>1, Invariant, PTL
=============================================================================
