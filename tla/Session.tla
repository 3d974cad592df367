------------------------------ MODULE Session -------------------------------
(***************************************************************************)
(* An update session: the lister, the detailer and the updater, started    *)
(* and awaited by proto_run() through threads.c, and the fixups queue      *)
(* (fixups.c) between the updater and the detailer.                        *)
(*                                                                         *)
(* Each thread goes through the collections in the order of the            *)
(* configuration.  What it says about one of them is two items here, the   *)
(* COLL line and the rest up to its "."; a batch is the items of all       *)
(* collections and a final ".".  The lister writes one batch, the detailer *)
(* and the updater work on two, the second one for the fixups.             *)
(*                                                                         *)
(* The server is external: it passes on to the detailer, item by item,     *)
(* what the lister sent, and to the updater what the detailer sent.  Only  *)
(* flushed items reach it.                                                 *)
(***************************************************************************)
EXTENDS Naturals, Sequences

CONSTANTS
    NColl,     \* collections, those with CO_SKIP not counted
    MaxFixups, \* bound: files per collection that need a fixup
    Errors     \* whether a worker may fail for a reason of its own

ASSUME SessionAssumption ==
    /\ NColl \in Nat \ {0}
    /\ MaxFixups \in Nat
    /\ Errors \in BOOLEAN

Colls == 1..NColl
Last == 2 * NColl + 1                    \* items in a batch
SecondBatch(i) == i > Last
Place(i) == IF SecondBatch(i) THEN i - Last ELSE i
IsColl(i) == Place(i) % 2 = 1 /\ Place(i) # Last   \* a COLL line
IsBody(i) == Place(i) % 2 = 0            \* the rest of a collection
CollOf(i) == (Place(i) + 1) \div 2

Workers == {"lister", "detailer", "updater"}

VARIABLES
    fixupq,    \* fixups->fixupq, as <<collection, file>>
    closed,    \* fixups->closed
    fixup,     \* the fixup detailer_batch() has in hand, or NoFixup
    eof,       \* fixupseof
    litem,     \* the next item the lister writes
    lout,      \* items of the lister that have been flushed
    ditem,     \* the next item the detailer writes
    dread,     \* whether it has read the item of the list for it
    dout,      \* items of the detailer that have been flushed
    uitem,     \* the next item the updater reads
    nfix,      \* fixups put for the current collection
    upc,       \* where the updater is in updater()
    uerror,    \* the updater's first batch failed
    listed,    \* items the server has sent to the detailer
    sent,      \* items the server has sent to the updater
    scantime,  \* collections whose co_scantime is set
    asleep,    \* threads in pthread_cond_wait()
    dead,      \* threads->threads_dead
    how,       \* args->status of each worker, "running" before it is set
    mstatus,   \* the variable status of proto_run()
    result,    \* what proto_run() returns
    down,      \* the multiplexer is shut down ...
    muxstatus, \* ... with this status: mux->status
    puts,      \* history: the fixups asked for by the updater
    requests   \* history: the fixups requested, as <<section, fixup>>

fixupsVars == <<fixupq, closed>>
listerVars == <<litem, lout>>
detailerVars == <<fixup, eof, ditem, dread, scantime, requests>>
updaterVars == <<uitem, nfix, upc, uerror, puts>>
serverVars == <<listed, sent>>
muxVars == <<down, muxstatus>>
mainVars == <<mstatus, result>>
threadsVars == <<dead, how>>
vars == <<fixupsVars, listerVars, detailerVars, dout, updaterVars, serverVars,
          muxVars, mainVars, threadsVars, asleep>>

NoFixup == <<>>

Init ==
    /\ fixupq = <<>>
    /\ closed = FALSE
    /\ fixup = NoFixup
    /\ eof = FALSE
    /\ litem = 1
    /\ lout = 0
    /\ ditem = 1
    /\ dread = FALSE
    /\ dout = 0
    /\ uitem = 1
    /\ nfix = 0
    /\ upc = "batch"
    /\ uerror = FALSE
    /\ listed = 0
    /\ sent = 0
    /\ scantime = {}
    /\ asleep = {}
    /\ dead = <<>>
    /\ how = [t \in Workers |-> "running"]
    /\ mstatus = "SUCCESS"
    /\ result = "NONE"
    /\ down = FALSE
    /\ muxstatus = "NONE"
    /\ puts = <<>>
    /\ requests = <<>>

Running(t) == how[t] = "running" /\ t \notin asleep

\* mux_shutdown(): the first one sets mux->status.
FirstStatus(status) == IF down THEN muxstatus ELSE status

\* What is written and flushed up to item i arrives, unless the multiplexer is
\* down: the result of stream_flush() is not looked at.
\* FlushedAhead is the mutant that counts one item too many.
FlushedAhead(old, i) == IF down THEN old ELSE i + 1
Flushed(old, i) == IF down THEN old ELSE i

-----------------------------------------------------------------------------
(* threads.c *)

\* thread_start(): the end of worker t, under the lock of the set.
Exit(t, status) ==
    /\ how' = [how EXCEPT ![t] = status]
    /\ dead' = Append(dead, t)
    /\ asleep' = asleep \ {"main"}

\* threads_wait() in the loop of proto_run(), where it has to wait.
ThreadsWaitSleeps ==
    /\ result = "NONE"
    /\ "main" \notin asleep
    /\ dead = <<>>
    /\ \E t \in Workers : how[t] = "running"
    /\ asleep' = asleep \cup {"main"}
    /\ UNCHANGED <<fixupsVars, listerVars, detailerVars, dout, updaterVars,
                   serverVars, muxVars, mainVars, threadsVars>>

\* The first failure counts; the mutant has the test the wrong way round.
NotFirstFailure(t) == how[t] = "FAILURE" /\ mstatus # "SUCCESS"
FirstFailure(t) == how[t] = "FAILURE" /\ mstatus = "SUCCESS"

\* threads_wait(), and the rest of the loop: stream_close() flushes what the
\* worker left in its stream, the first failure shuts the multiplexer down.
Reap ==
    LET t == Head(dead) IN
    /\ result = "NONE"
    /\ "main" \notin asleep
    /\ dead # <<>>
    /\ dead' = Tail(dead)
    /\ lout' = IF t = "lister" THEN Flushed(lout, litem - 1) ELSE lout
    /\ dout' = IF t = "detailer" THEN Flushed(dout, ditem - 1) ELSE dout
    /\ IF FirstFailure(t)
       THEN /\ mstatus' = "FAILURE"
            /\ down' = TRUE
            /\ muxstatus' = FirstStatus("FAILURE")
       ELSE UNCHANGED <<mstatus, down, muxstatus>>
    /\ UNCHANGED <<fixupsVars, litem, detailerVars, updaterVars, serverVars,
                   result, how, asleep>>

\* The end of proto_run(): MuxLife has the details.
Return ==
    /\ result = "NONE"
    /\ dead = <<>>
    /\ \A t \in Workers : how[t] # "running"
    /\ IF mstatus = "SUCCESS"
       THEN down' = TRUE /\ muxstatus' = FirstStatus("SUCCESS")
       ELSE UNCHANGED muxVars
    /\ result' = muxstatus'
    /\ UNCHANGED <<fixupsVars, listerVars, detailerVars, dout, updaterVars,
                   serverVars, mstatus, threadsVars, asleep>>

-----------------------------------------------------------------------------
(* The lister *)

\* lister_batch(): the final "." stays in the stream.
ListerWrites ==
    /\ Running("lister")
    /\ litem <= Last
    /\ litem' = litem + 1
    /\ lout' = IF litem < Last THEN Flushed(lout, litem) ELSE lout
    /\ UNCHANGED <<fixupsVars, detailerVars, dout, updaterVars, serverVars,
                   muxVars, mainVars, threadsVars, asleep>>

ListerEnds ==
    /\ Running("lister")
    /\ litem > Last
    /\ Exit("lister", "SUCCESS")
    /\ UNCHANGED <<fixupsVars, listerVars, detailerVars, dout, updaterVars,
                   serverVars, muxVars, mainVars>>

-----------------------------------------------------------------------------
(* The detailer: detailer_batch() *)

\* Set before the answer to the COLL line; the mutant sets it at the end of
\* the section.
ScanTimeLate(i) == IF IsBody(i) THEN {CollOf(i)} ELSE {}
ScanTime(i) == IF IsColl(i) THEN {CollOf(i)} ELSE {}

\* The COLL line of the list carries the scan time of the collection.
DetailerReads ==
    /\ Running("detailer")
    /\ ditem <= Last
    /\ ~dread
    /\ listed >= ditem
    /\ dread' = TRUE
    /\ scantime' = scantime \cup ScanTime(ditem)
    /\ UNCHANGED <<fixupsVars, listerVars, fixup, eof, ditem, requests, dout,
                   updaterVars, serverVars, muxVars, mainVars, threadsVars,
                   asleep>>

DetailerWrites ==
    /\ Running("detailer")
    /\ dread
    /\ dread' = FALSE
    /\ ditem' = ditem + 1
    /\ dout' = Flushed(dout, ditem)
    /\ UNCHANGED <<fixupsVars, listerVars, fixup, eof, scantime, requests,
                   updaterVars, serverVars, muxVars, mainVars, threadsVars,
                   asleep>>

\* "Now send fixups if needed": a COLL line, not flushed.
FixupsColl ==
    /\ Running("detailer")
    /\ SecondBatch(ditem)
    /\ IsColl(ditem)
    /\ ditem' = ditem + 1
    /\ UNCHANGED <<fixupsVars, listerVars, fixup, eof, dread, scantime,
                   requests, dout, updaterVars, serverVars, muxVars, mainVars,
                   threadsVars, asleep>>

InFixups == SecondBatch(ditem) /\ IsBody(ditem)
\* fixups_get() is called with none in hand; the mutant forgets the test.
AlwaysWantsFixup == InFixups /\ ~eof
WantsFixup == InFixups /\ fixup = NoFixup /\ ~eof

\* fixups_get() takes one off the queue ...
FixupsGet ==
    /\ Running("detailer")
    /\ WantsFixup
    /\ fixupq # <<>>
    /\ fixup' = Head(fixupq)
    /\ fixupq' = Tail(fixupq)
    /\ UNCHANGED <<closed, listerVars, eof, ditem, dread, scantime, requests,
                   dout, updaterVars, serverVars, muxVars, mainVars,
                   threadsVars, asleep>>

\* ... or waits, or returns NULL.
FixupsGetNone ==
    /\ Running("detailer")
    /\ WantsFixup
    /\ fixupq = <<>>
    /\ IF closed
       THEN eof' = TRUE /\ UNCHANGED asleep
       ELSE asleep' = asleep \cup {"detailer"} /\ UNCHANGED eof
    /\ UNCHANGED <<fixupsVars, listerVars, fixup, ditem, dread, scantime,
                   requests, dout, updaterVars, serverVars, muxVars, mainVars,
                   threadsVars>>

\* "X" or "Y": the fixup is for this collection.
RequestFixup ==
    /\ Running("detailer")
    /\ InFixups
    /\ fixup # NoFixup
    /\ fixup[1] = CollOf(ditem)
    /\ requests' = Append(requests, <<CollOf(ditem), fixup>>)
    /\ fixup' = NoFixup
    /\ UNCHANGED <<fixupsVars, listerVars, eof, ditem, dread, scantime, dout,
                   updaterVars, serverVars, muxVars, mainVars, threadsVars,
                   asleep>>

\* End of the section: no fixup left, or the one in hand is kept for later.
FixupsSectionEnds ==
    /\ Running("detailer")
    /\ InFixups
    /\ \/ eof
       \/ fixup # NoFixup /\ fixup[1] # CollOf(ditem)
    /\ ditem' = ditem + 1
    /\ dout' = Flushed(dout, ditem)
    /\ UNCHANGED <<fixupsVars, listerVars, fixup, eof, dread, scantime,
                   requests, updaterVars, serverVars, muxVars, mainVars,
                   threadsVars, asleep>>

\* The final "." stays in the stream.
DetailerEnds ==
    /\ Running("detailer")
    /\ ditem = 2 * Last
    /\ ditem' = ditem + 1
    /\ Exit("detailer", "SUCCESS")
    /\ UNCHANGED <<fixupsVars, listerVars, fixup, eof, dread, scantime,
                   requests, dout, updaterVars, serverVars, muxVars, mainVars>>

-----------------------------------------------------------------------------
(* The updater: updater() and updater_batch() *)

\* Where a failed batch goes on: to fixups_close(); the mutant skips it.
AfterErrorEnd == "end"
AfterError == IF SecondBatch(uitem) THEN "end" ELSE "close"

\* fixups_put() and fixups_close() signal if the queue was empty: "size++ == 0".
\* In the mutant it is "++size == 0".
WillBeEmpty == Len(fixupq) + 1 = 0
WasEmpty == Len(fixupq) = 0

UpdaterReads ==
    /\ Running("updater")
    /\ upc = "batch"
    /\ sent >= uitem
    /\ uitem' = uitem + 1
    /\ nfix' = 0
    /\ upc' = IF uitem = Last THEN "close"
              ELSE IF uitem = 2 * Last THEN "end" ELSE "batch"
    /\ UNCHANGED <<fixupsVars, listerVars, detailerVars, dout, uerror, puts,
                   serverVars, muxVars, mainVars, threadsVars, asleep>>

\* updater_needfixup() -> fixups_put(): it signals the first one only.  In
\* the second batch it just prints a message.
NeedFixup ==
    /\ Running("updater")
    /\ upc = "batch"
    /\ IsBody(uitem) /\ ~SecondBatch(uitem)
    /\ nfix < MaxFixups
    /\ LET f == <<CollOf(uitem), nfix + 1>> IN
         /\ fixupq' = Append(fixupq, f)
         /\ puts' = Append(puts, f)
    /\ nfix' = nfix + 1
    /\ upc' = IF WasEmpty THEN "signal" ELSE "batch"
    /\ UNCHANGED <<closed, listerVars, detailerVars, dout, uitem, uerror,
                   serverVars, muxVars, mainVars, threadsVars, asleep>>

\* fixups_close(), after the first batch or its failure.
FixupsClose ==
    /\ Running("updater")
    /\ upc = "close"
    /\ closed' = TRUE
    /\ upc' = IF WasEmpty THEN "signal"
              ELSE IF uerror THEN "end" ELSE "batch"
    /\ UNCHANGED <<fixupq, listerVars, detailerVars, dout, uitem, nfix, uerror,
                   puts, serverVars, muxVars, mainVars, threadsVars, asleep>>

\* The pthread_cond_signal() of either, made without the lock.
FixupsSignal ==
    /\ Running("updater")
    /\ upc = "signal"
    /\ asleep' = asleep \ {"detailer"}
    /\ upc' = IF uerror THEN "end" ELSE "batch"
    /\ UNCHANGED <<fixupsVars, listerVars, detailerVars, dout, uitem, nfix,
                   uerror, puts, serverVars, muxVars, mainVars, threadsVars>>

UpdaterEnds ==
    /\ Running("updater")
    /\ upc = "end"
    /\ Exit("updater", IF uerror THEN "FAILURE" ELSE "SUCCESS")
    /\ UNCHANGED <<fixupsVars, listerVars, detailerVars, dout, updaterVars,
                   serverVars, muxVars, mainVars>>

-----------------------------------------------------------------------------
(* Failures, the server and the network *)

\* A worker fails: a read or a write because the multiplexer is down, a
\* protocol error, a local file.
Fails(t) ==
    /\ Running(t)
    /\ down \/ Errors
    /\ t # "updater"
    /\ Exit(t, "FAILURE")
    /\ UNCHANGED <<fixupsVars, listerVars, detailerVars, dout, updaterVars,
                   serverVars, muxVars, mainVars>>

\* The updater closes the fixups if they are not closed yet.
UpdaterFails ==
    /\ Running("updater")
    /\ down \/ Errors
    /\ upc = "batch"
    /\ uerror' = TRUE
    /\ upc' = AfterError
    /\ UNCHANGED <<fixupsVars, listerVars, detailerVars, dout, uitem, nfix,
                   puts, serverVars, muxVars, mainVars, threadsVars, asleep>>

ServerLists ==
    /\ ~down
    /\ listed < lout
    /\ listed' = listed + 1
    /\ UNCHANGED <<fixupsVars, listerVars, detailerVars, dout, updaterVars,
                   sent, muxVars, mainVars, threadsVars, asleep>>

ServerSends ==
    /\ ~down
    /\ sent < dout
    /\ sent' = sent + 1
    /\ UNCHANGED <<fixupsVars, listerVars, detailerVars, dout, updaterVars,
                   listed, muxVars, mainVars, threadsVars, asleep>>

\* The receiver, the sender or the killer shuts the multiplexer down.
ConnectionLost ==
    /\ ~down
    /\ down' = TRUE
    /\ muxstatus' = "FAILURE"
    /\ UNCHANGED <<fixupsVars, listerVars, detailerVars, dout, updaterVars,
                   serverVars, mainVars, threadsVars, asleep>>

SpuriousWakeup(t) ==
    /\ t \in asleep
    /\ asleep' = asleep \ {t}
    /\ UNCHANGED <<fixupsVars, listerVars, detailerVars, dout, updaterVars,
                   serverVars, muxVars, mainVars, threadsVars>>

-----------------------------------------------------------------------------

MainStep == ThreadsWaitSleeps \/ Reap \/ Return
ListerStep == ListerWrites \/ ListerEnds
DetailerStep ==
    \/ DetailerReads \/ DetailerWrites
    \/ FixupsColl \/ FixupsGet \/ FixupsGetNone \/ RequestFixup
    \/ FixupsSectionEnds \/ DetailerEnds
UpdaterStep ==
    UpdaterReads \/ NeedFixup \/ FixupsClose \/ FixupsSignal \/ UpdaterEnds
ServerStep == ServerLists \/ ServerSends

Done == result # "NONE" /\ UNCHANGED vars

Next ==
    \/ MainStep
    \/ ListerStep
    \/ DetailerStep
    \/ UpdaterStep
    \/ \E t \in Workers : Fails(t)
    \/ UpdaterFails
    \/ ServerStep
    \/ ConnectionLost
    \/ \E t \in asleep : SpuriousWakeup(t)
    \/ Done

Spec == Init /\ [][Next]_vars

\* Every thread is scheduled and the server answers; once the multiplexer is
\* down, a read that cannot be satisfied fails.
Fairness ==
    /\ WF_vars(MainStep)
    /\ WF_vars(ListerStep)
    /\ WF_vars(DetailerStep \/ (down /\ Fails("detailer")))
    /\ WF_vars(UpdaterStep \/ (down /\ UpdaterFails))
    /\ WF_vars(ServerLists)
    /\ WF_vars(ServerSends)

FairSpec == Spec /\ Fairness

-----------------------------------------------------------------------------
(* Properties *)

Fixups == Colls \X (1..MaxFixups)

\* The types of the variables.
TypeOK ==
    /\ fixupq \in Seq(Fixups)
    /\ closed \in BOOLEAN
    /\ fixup \in Fixups \cup {NoFixup}
    /\ eof \in BOOLEAN
    /\ litem \in 1..(Last + 1)
    /\ lout \in 0..Last
    /\ ditem \in 1..(2 * Last + 1)
    /\ dread \in BOOLEAN
    /\ dout \in 0..(2 * Last)
    /\ uitem \in 1..(2 * Last + 1)
    /\ nfix \in 0..MaxFixups
    /\ upc \in {"batch", "signal", "close", "end"}
    /\ uerror \in BOOLEAN
    /\ listed \in 0..Last
    /\ sent \in 0..(2 * Last)
    /\ scantime \subseteq Colls
    /\ asleep \subseteq {"main", "detailer"}
    /\ dead \in Seq(Workers)
    /\ how \in [Workers -> {"running", "SUCCESS", "FAILURE"}]
    /\ mstatus \in {"SUCCESS", "FAILURE"}
    /\ result \in {"NONE", "SUCCESS", "FAILURE"}
    /\ down \in BOOLEAN
    /\ muxstatus \in {"NONE", "SUCCESS", "FAILURE"}
    /\ puts \in Seq(Fixups)
    /\ requests \in Seq(Colls \X Fixups)

\* Every fixup the updater puts is requested once, in order, and in the
\* section of its own collection, although detailer_batch() only finds out
\* that a section is over by taking the first fixup of a later one.
FixupsInOrder ==
    /\ puts = [i \in 1..Len(requests) |-> requests[i][2]]
              \o (IF fixup = NoFixup THEN <<>> ELSE <<fixup>>)
              \o fixupq
    /\ \A i \in 1..Len(requests) : requests[i][1] = requests[i][2][1]

\* A thread sleeps in fixups_get() only while there is nothing for it, or the
\* signal is on its way: fixups_put() signals when the queue was empty only,
\* fixups_close() likewise.  And the main thread never sleeps in
\* threads_wait() when a worker is dead.
NoLostWakeup ==
    /\ "detailer" \in asleep =>
         upc = "signal" \/ (fixupq = <<>> /\ ~closed)
    /\ "main" \in asleep => dead = <<>>

\* assert(!f->closed) in fixups_put(), assert(f->closed) in fixups_free(),
\* assert(!LIST_EMPTY(&tds->threads_running)) in threads_wait().
AssertionsHold ==
    /\ closed => SecondBatch(uitem) \/ upc # "batch"
    /\ result # "NONE" => closed
    /\ "main" \in asleep => \E t \in Workers : how[t] = "running"

\* The detailer writes co_scantime and the updater reads it, without a lock:
\* it is set when updater_batch() opens the status file of the collection.
ScanTimeKnown ==
    upc = "batch" /\ IsBody(uitem) => CollOf(uitem) \in scantime

\* proto_run() reports success only if the updater received everything and no
\* fixup was left behind.
SuccessIsComplete ==
    result = "SUCCESS" =>
      /\ uitem > 2 * Last
      /\ Len(requests) = Len(puts)
      /\ \A t \in Workers : how[t] = "SUCCESS"

\* "Make sure to close the fixups even in case of an error, so that the
\* detailer thread doesn't block indefinitely" (updater): whatever fails,
\* wherever the others are, proto_run() returns.
Returns == <>(result # "NONE")
=============================================================================
