--------------------------- MODULE SessionProofs ----------------------------
(***************************************************************************)
(* Proofs about module Session, for any number of collections and fixups   *)
(* and with or without failures of the workers: the safety properties.     *)
(* Each invariant below is inductive with the help of those above it.      *)
(***************************************************************************)
EXTENDS Session, SequenceTheorems, TLAPS

\* Nobody is ahead of the one it reads from, and the detailer only leaves its
\* last item behind by ending.
Progress ==
    /\ lout < litem
    /\ listed <= lout
    /\ dout < ditem
    /\ sent <= dout
    /\ uitem <= sent + 1
    /\ dread => ditem <= Last
    /\ ditem > 2 * Last => how["detailer"] # "running"

\* The detailer sets co_scantime before it answers a COLL line.
Scanned ==
    \A c \in Colls :
      ditem >= 2 * c \/ (ditem = 2 * c - 1 /\ dread) => c \in scantime

\* What updater() has done about fixups_close(), and that it does not end
\* before; the main thread waits for workers that run.
Control ==
    /\ closed /\ ~SecondBatch(uitem) => uerror
    /\ uerror => upc # "batch"
    /\ upc = "close" /\ ~uerror => SecondBatch(uitem)
    /\ SecondBatch(uitem) \/ uerror => closed \/ upc = "close"
    /\ upc = "end" => closed
    /\ uitem > 2 * Last => upc = "end"
    /\ how["updater"] # "running" => upc = "end"
    /\ result # "NONE" => \A t \in Workers : how[t] # "running"
    /\ "main" \in asleep => \E t \in Workers : how[t] = "running"

\* FixupsInOrder, position by position: requested, in hand, in the queue.
InHand == IF fixup = NoFixup THEN 0 ELSE 1
Queue ==
    /\ Len(puts) = Len(requests) + InHand + Len(fixupq)
    /\ \A i \in 1..Len(requests) :
         puts[i] = requests[i][2] /\ requests[i][1] = requests[i][2][1]
    /\ fixup # NoFixup => puts[Len(requests) + 1] = fixup
    /\ \A i \in 1..Len(fixupq) :
         puts[Len(requests) + InHand + i] = fixupq[i]

\* The updater puts the fixups in the order of the collections, and the
\* detailer passes a collection only when no fixup of it is left.
Sections ==
    /\ \A i, j \in 1..Len(puts) : i <= j => puts[i][1] <= puts[j][1]
    /\ ~closed /\ ~SecondBatch(uitem) =>
         \A i \in 1..Len(puts) : puts[i][1] <= CollOf(uitem)
    /\ SecondBatch(ditem) =>
         \A i \in (Len(requests) + 1)..Len(puts) : CollOf(ditem) <= puts[i][1]
    /\ SecondBatch(ditem) /\ ~closed /\ ~SecondBatch(uitem) =>
         CollOf(ditem) <= CollOf(uitem)
    /\ eof => closed /\ fixup = NoFixup /\ fixupq = <<>>
    /\ ditem >= 2 * Last => eof

\* Who has failed, and who has to know of it.
Outcome ==
    /\ upc = "end" /\ ~uerror => uitem > 2 * Last
    /\ how["updater"] = "SUCCESS" => ~uerror
    /\ how["detailer"] = "SUCCESS" => ditem > 2 * Last
    /\ \A t \in Workers :
         how[t] = "FAILURE" =>
           mstatus = "FAILURE" \/ \E i \in 1..Len(dead) : dead[i] = t
    /\ down /\ result = "NONE" => muxstatus = "FAILURE"
    /\ mstatus = "FAILURE" => down
    /\ result # "NONE" => down /\ dead = <<>>
    /\ result = "SUCCESS" => mstatus = "SUCCESS"

-----------------------------------------------------------------------------
(* The places of the items *)

\* Where an item is in its batch.
LEMMA PlaceOfItem ==
    ASSUME NEW i \in 1..(2 * Last + 1)
    PROVE  /\ Last \in Nat /\ Last = 2 * NColl + 1
           /\ Place(i) \in 1..(Last + 1)
           /\ SecondBatch(i) => i = Last + Place(i)
           /\ ~SecondBatch(i) => i = Place(i) /\ Place(i) <= Last
           /\ i <= 2 * Last => Place(i) <= Last
BY SessionAssumption DEF Last, Place, SecondBatch

\* Which collection an item belongs to; only a final "." has none.
LEMMA CollOfItem ==
    ASSUME NEW i \in 1..(2 * Last + 1)
    PROVE  /\ CollOf(i) \in 1..(NColl + 1)
           /\ IsColl(i) => Place(i) = 2 * CollOf(i) - 1 /\ CollOf(i) \in Colls
           /\ IsBody(i) => Place(i) = 2 * CollOf(i)
           /\ IsBody(i) /\ i <= 2 * Last => CollOf(i) \in Colls
           /\ ~IsColl(i) /\ ~IsBody(i) =>
                Place(i) = Last /\ CollOf(i) = NColl + 1
<1> DEFINE p == Place(i)
<1>1. p \in 1..(2 * NColl + 2) /\ Last = 2 * NColl + 1
      /\ (i <= 2 * Last => p <= 2 * NColl + 1) /\ NColl \in Nat
  BY PlaceOfItem, SessionAssumption
<1> HIDE DEF p
<1>2. /\ (p + 1) \div 2 \in 1..(NColl + 1)
      /\ p % 2 = 1 => p = 2 * ((p + 1) \div 2) - 1
      /\ p % 2 = 0 => p = 2 * ((p + 1) \div 2)
      /\ p % 2 = 0 \/ p % 2 = 1
  BY <1>1, SMT
<1>3. /\ CollOf(i) = (p + 1) \div 2
      /\ IsColl(i) <=> p % 2 = 1 /\ p # Last
      /\ IsBody(i) <=> p % 2 = 0
      /\ Place(i) = p
  BY DEF p, CollOf, IsColl, IsBody
<1> QED BY <1>1, <1>2, <1>3 DEF Colls

-----------------------------------------------------------------------------
(* Types and progress *)

\* What thread_start() does to the lists of threads at the end of a worker.
LEMMA ExitStep ==
    ASSUME TypeOK, NEW t \in Workers, NEW status \in {"SUCCESS", "FAILURE"},
           Exit(t, status)
    PROVE  /\ how' \in [Workers -> {"running", "SUCCESS", "FAILURE"}]
           /\ how'[t] = status
           /\ \A u \in Workers \ {t} : how'[u] = how[u]
           /\ dead' \in Seq(Workers)
           /\ Len(dead') = Len(dead) + 1
           /\ dead'[Len(dead) + 1] = t
           /\ \A i \in 1..Len(dead) : dead'[i] = dead[i]
           /\ asleep' = asleep \ {"main"}
<1>1. dead \in Seq(Workers)
  BY DEF TypeOK
<1>2. dead' = Append(dead, t)
  BY DEF Exit
<1>3. /\ dead' \in Seq(Workers)
      /\ Len(dead') = Len(dead) + 1
      /\ dead'[Len(dead) + 1] = t
      /\ \A i \in 1..Len(dead) : dead'[i] = dead[i]
  BY <1>1, <1>2, AppendProperties
<1>4. how \in [Workers -> {"running", "SUCCESS", "FAILURE"}]
      /\ how' = [how EXCEPT ![t] = status]
  BY DEF TypeOK, Exit
<1> QED BY <1>3, <1>4 DEF Exit

\* The detailer at work has not yet written its last item.
LEMMA DetailerPlace ==
    ASSUME TypeOK, Progress, Running("detailer")
    PROVE  /\ ditem \in 1..(2 * Last)
           /\ SecondBatch(ditem) /\ IsColl(ditem) =>
                ditem < 2 * Last /\ CollOf(ditem) \in Colls
           /\ InFixups => ditem < 2 * Last /\ CollOf(ditem) \in Colls
<1>1. ditem \in 1..(2 * Last) /\ Last \in Nat
  BY SessionAssumption DEF TypeOK, Progress, Running, Last
<1>2. /\ IsColl(ditem) => Place(ditem) # Last
      /\ IsBody(ditem) => Place(ditem) = 2 * CollOf(ditem)
      /\ IsColl(ditem) => CollOf(ditem) \in Colls
      /\ IsBody(ditem) => CollOf(ditem) \in Colls
  BY <1>1, CollOfItem DEF IsColl
<1>3. Last = 2 * NColl + 1 /\ NColl \in Nat
  BY SessionAssumption DEF Last
<1>4. ditem = 2 * Last => SecondBatch(ditem) /\ Place(ditem) = Last
  BY <1>1, <1>3 DEF SecondBatch, Place
<1>5. IsBody(ditem) => Place(ditem) # Last
  BY <1>2, <1>3 DEF Colls
<1> QED BY <1>1, <1>2, <1>4, <1>5 DEF InFixups

\* What the updater puts is a fixup of its collection.
LEMMA PutIsFixup ==
    ASSUME TypeOK, NeedFixup
    PROVE  /\ <<CollOf(uitem), nfix + 1>> \in Fixups
           /\ CollOf(uitem) \in Colls
<1>1. uitem \in 1..Last /\ Last \in Nat /\ IsBody(uitem)
  BY SessionAssumption DEF NeedFixup, SecondBatch, TypeOK, Last
<1>2. CollOf(uitem) \in Colls
  BY <1>1, CollOfItem
<1>3. nfix + 1 \in 1..MaxFixups
  BY SessionAssumption DEF NeedFixup, TypeOK
<1> QED BY <1>2, <1>3 DEF Fixups

\* Every step keeps the types, and nobody gets ahead of its source.
LEMMA TypesStep ==
    ASSUME TypeOK, Progress, [Next]_vars
    PROVE  TypeOK' /\ Progress'
<1> USE SessionAssumption DEF fixupsVars, listerVars, detailerVars,
        updaterVars, serverVars, muxVars, mainVars, threadsVars
<1>a. Last \in Nat
  BY DEF Last
<1>1. CASE ThreadsWaitSleeps
  BY <1>a, <1>1 DEF ThreadsWaitSleeps, TypeOK, Progress, Running
<1>2. CASE Reap
  <2>1. dead \in Seq(Workers) /\ dead # <<>>
    BY <1>2 DEF Reap, TypeOK
  <2>2. Head(dead) \in Workers /\ dead' \in Seq(Workers)
    BY <1>2, <2>1, HeadTailProperties DEF Reap
  <2>3. litem \in 1..(Last + 1) /\ ditem \in 1..(2 * Last + 1)
        /\ lout \in 0..Last /\ dout \in 0..(2 * Last)
        /\ lout < litem /\ dout < ditem
    BY DEF TypeOK, Progress
  <2>4. lout' \in 0..Last /\ lout <= lout' /\ lout' < litem
    BY <1>2, <1>a, <2>3 DEF Reap, Flushed
  <2>5. dout' \in 0..(2 * Last) /\ dout <= dout' /\ dout' < ditem
    BY <1>2, <1>a, <2>3 DEF Reap, Flushed
  <2>6. /\ mstatus' \in {"SUCCESS", "FAILURE"}
        /\ down' \in BOOLEAN
        /\ muxstatus' \in {"NONE", "SUCCESS", "FAILURE"}
    BY <1>2 DEF Reap, FirstStatus, TypeOK
  <2>7. UNCHANGED <<fixupsVars, litem, detailerVars, updaterVars, serverVars,
                   result, how, asleep>>
    BY <1>2 DEF Reap
  <2>8. TypeOK'
    BY SMTT(30), <2>2, <2>4, <2>5, <2>6, <2>7 DEF TypeOK
  <2>9. Progress'
    BY <1>a, <2>3, <2>4, <2>5, <2>7 DEF TypeOK, Progress
  <2> QED BY <2>8, <2>9
<1>3. CASE Return
  <2>1. /\ down' \in BOOLEAN
        /\ muxstatus' \in {"NONE", "SUCCESS", "FAILURE"}
    BY <1>3 DEF Return, FirstStatus, TypeOK
  <2>2. result' = muxstatus'
        /\ UNCHANGED <<fixupsVars, listerVars, detailerVars, dout, updaterVars,
                       serverVars, mstatus, threadsVars, asleep>>
    BY <1>3 DEF Return
  <2>3. TypeOK'
    BY SMTT(30), <2>1, <2>2 DEF TypeOK
  <2> QED BY <2>2, <2>3 DEF Progress
<1>4. CASE ListerWrites
  BY <1>a, <1>4 DEF ListerWrites, TypeOK, Progress, Running, Flushed
<1>5. CASE ListerEnds
  <2>1. PICK status \in {"SUCCESS", "FAILURE"} : Exit("lister", status)
    BY <1>5 DEF ListerEnds
  <2>2. /\ how' \in [Workers -> {"running", "SUCCESS", "FAILURE"}]
        /\ how'["lister"] # "running"
        /\ \A u \in Workers \ {"lister"} : how'[u] = how[u]
        /\ dead' \in Seq(Workers)
        /\ asleep' = asleep \ {"main"}
    BY <2>1, ExitStep DEF Workers
  <2>3. UNCHANGED <<fixupsVars, listerVars, detailerVars, dout, updaterVars,
                   serverVars, muxVars, mainVars>>
    BY <1>5 DEF ListerEnds
  <2>4. TypeOK'
    BY SMTT(30), <2>2, <2>3 DEF TypeOK
  <2>5. Progress'
    BY <2>2, <2>3 DEF Progress, Workers
  <2> QED BY <2>4, <2>5
<1>6. CASE DetailerReads
  <2>1. ScanTime(ditem) \subseteq Colls
    BY CollOfItem DEF ScanTime, TypeOK
  <2>2. TypeOK'
    BY <1>6, <2>1 DEF DetailerReads, TypeOK
  <2>3. Progress'
    BY <1>6 DEF DetailerReads, Progress
  <2> QED BY <2>2, <2>3
<1>7. CASE DetailerWrites
  <2>1. /\ ditem \in 1..Last /\ ditem' = ditem + 1 /\ dread' = FALSE
        /\ dout' = Flushed(dout, ditem)
        /\ dout \in 0..(2 * Last) /\ dout < ditem
    BY <1>7 DEF DetailerWrites, TypeOK, Progress
  <2>2. ditem' \in 1..(2 * Last) /\ dout' \in 0..(2 * Last) /\ dout' < ditem'
        /\ dout <= dout'
    BY <1>a, <2>1 DEF Flushed
  <2>3. TypeOK'
    <3>1. ditem' \in 1..(2 * Last + 1) /\ dout' \in 0..(2 * Last)
      BY <1>a, <2>2
    <3>2. dread' \in BOOLEAN
      BY <2>1
    <3>3. UNCHANGED <<fixupsVars, listerVars, fixup, eof, scantime, requests,
                      updaterVars, serverVars, muxVars, mainVars, threadsVars,
                      asleep>>
      BY <1>7 DEF DetailerWrites
    <3> QED BY SMTT(30), <3>1, <3>2, <3>3 DEF TypeOK
  <2>4. sent \in Nat /\ dout \in Nat /\ dout' \in Nat /\ dout <= dout'
        /\ ditem' \in 1..(2 * Last)
    BY <2>1, <2>2 DEF TypeOK
  <2>5. Progress'
    BY <1>7, <1>a, <2>2, <2>4 DEF DetailerWrites, Progress
  <2> QED BY <2>3, <2>5
<1>8. CASE FixupsColl
  <2>1. ditem \in 1..(2 * Last) /\ ditem < 2 * Last
    BY <1>8, DetailerPlace DEF FixupsColl
  <2>2. ditem' = ditem + 1 /\ ~dread /\ dout \in Nat
    BY <1>8, <1>a, <2>1 DEF FixupsColl, SecondBatch, Progress, TypeOK
  <2>3. ditem' \in 1..(2 * Last)
    BY <1>a, <2>1, <2>2
  <2>4. TypeOK'
    BY <1>8, <1>a, <2>3 DEF FixupsColl, TypeOK
  <2>5. Progress'
    BY <1>8, <1>a, <2>1, <2>2, <2>3 DEF FixupsColl, Progress
  <2> QED BY <2>4, <2>5
<1>9. CASE FixupsGet
  <2>1. fixupq \in Seq(Fixups) /\ fixupq # <<>>
    BY <1>9 DEF FixupsGet, TypeOK
  <2>2. fixupq' \in Seq(Fixups) /\ fixup' \in Fixups
    BY <1>9, <2>1, HeadTailProperties DEF FixupsGet
  <2>3. TypeOK'
    BY SMTT(30), <1>9, <2>2 DEF FixupsGet, TypeOK
  <2>4. Progress'
    BY <1>9 DEF FixupsGet, Progress
  <2> QED BY <2>3, <2>4
<1>10. CASE FixupsGetNone
  <2>1. eof' \in BOOLEAN /\ asleep' \subseteq {"main", "detailer"}
    BY <1>10 DEF FixupsGetNone, TypeOK
  <2>2. UNCHANGED <<fixupsVars, listerVars, fixup, ditem, dread, scantime,
                   requests, dout, updaterVars, serverVars, muxVars, mainVars,
                   threadsVars>>
    BY <1>10 DEF FixupsGetNone
  <2>3. TypeOK'
    BY <2>1, <2>2 DEF TypeOK
  <2> QED BY <2>2, <2>3 DEF Progress
<1>11. CASE RequestFixup
  <2>1. CollOf(ditem) \in Colls /\ fixup \in Fixups
        /\ requests \in Seq(Colls \X Fixups)
    BY <1>11, DetailerPlace DEF RequestFixup, TypeOK
  <2>2. requests' \in Seq(Colls \X Fixups)
    BY <1>11, <2>1, AppendProperties DEF RequestFixup
  <2>3. TypeOK'
    BY <1>11, <2>2 DEF RequestFixup, TypeOK
  <2>4. Progress'
    BY <1>11 DEF RequestFixup, Progress
  <2> QED BY <2>3, <2>4
<1>12. CASE FixupsSectionEnds
  <2>1. ditem \in 1..(2 * Last) /\ ditem < 2 * Last
    BY <1>12, DetailerPlace DEF FixupsSectionEnds
  <2>2. ditem' = ditem + 1 /\ ~dread /\ dout' = Flushed(dout, ditem)
        /\ dout \in 0..(2 * Last) /\ dout < ditem
    BY <1>12, <1>a, <2>1
    DEF FixupsSectionEnds, InFixups, SecondBatch, Progress, TypeOK
  <2>3. ditem' \in 1..(2 * Last) /\ dout' \in 0..(2 * Last) /\ dout' < ditem'
        /\ dout <= dout'
    BY <1>a, <2>1, <2>2 DEF Flushed
  <2>4. TypeOK'
    BY <1>12, <1>a, <2>3 DEF FixupsSectionEnds, TypeOK
  <2>5. sent \in Nat /\ dout \in Nat /\ dout' \in Nat
    BY <1>a, <2>2, <2>3 DEF TypeOK
  <2>6. Progress'
    BY <1>12, <1>a, <2>2, <2>3, <2>5 DEF FixupsSectionEnds, Progress
  <2> QED BY <2>4, <2>6
<1>13. CASE DetailerEnds
  <2>1. Exit("detailer", "SUCCESS") /\ ditem = 2 * Last /\ ditem' = ditem + 1
    BY <1>13 DEF DetailerEnds
  <2>2. /\ how' \in [Workers -> {"running", "SUCCESS", "FAILURE"}]
        /\ how'["detailer"] = "SUCCESS"
        /\ dead' \in Seq(Workers)
        /\ asleep' = asleep \ {"main"}
    BY <2>1, ExitStep DEF Workers
  <2>3. ditem' \in 1..(2 * Last + 1) /\ ~dread
    BY <1>a, <2>1 DEF Progress, TypeOK, Last
  <2>4. TypeOK'
    BY SMTT(30), <1>13, <2>2, <2>3 DEF DetailerEnds, TypeOK
  <2>5. dout \in Nat /\ dout < ditem'
    BY <1>a, <2>1 DEF TypeOK
  <2>6. Progress'
    BY <1>13, <2>2, <2>3, <2>5 DEF DetailerEnds, Progress
  <2> QED BY <2>4, <2>6
<1>14. CASE UpdaterReads
  BY <1>a, <1>14 DEF UpdaterReads, TypeOK, Progress, Running, SecondBatch
<1>15. CASE NeedFixup
  <2> DEFINE f == <<CollOf(uitem), nfix + 1>>
  <2>3. nfix + 1 \in 1..MaxFixups
    BY <1>15 DEF NeedFixup, TypeOK
  <2>4. f \in Fixups
    BY <1>15, PutIsFixup
  <2>5. fixupq' = Append(fixupq, f) /\ puts' = Append(puts, f)
        /\ fixupq \in Seq(Fixups) /\ puts \in Seq(Fixups)
    BY <1>15 DEF NeedFixup, TypeOK
  <2> HIDE DEF f
  <2>6. fixupq' \in Seq(Fixups) /\ puts' \in Seq(Fixups)
    BY <2>4, <2>5, AppendProperties
  <2>7. nfix' \in 0..MaxFixups /\ upc' \in {"batch", "signal", "close", "end"}
    BY <1>15, <2>3 DEF NeedFixup
  <2>8. TypeOK'
    BY SMTT(30), <1>15, <2>6, <2>7 DEF NeedFixup, TypeOK
  <2>9. Progress'
    BY <1>15 DEF NeedFixup, Progress
  <2> QED BY <2>8, <2>9
<1>16. CASE FixupsClose
  BY <1>a, <1>16 DEF FixupsClose, TypeOK, Progress, Running, WasEmpty
<1>17. CASE FixupsSignal
  BY <1>a, <1>17 DEF FixupsSignal, TypeOK, Progress, Running
<1>18. CASE UpdaterEnds
  <2>1. PICK status \in {"SUCCESS", "FAILURE"} : Exit("updater", status)
    BY <1>18 DEF UpdaterEnds
  <2>2. /\ how' \in [Workers -> {"running", "SUCCESS", "FAILURE"}]
        /\ how'["updater"] # "running"
        /\ \A u \in Workers \ {"updater"} : how'[u] = how[u]
        /\ dead' \in Seq(Workers)
        /\ asleep' = asleep \ {"main"}
    BY <2>1, ExitStep DEF Workers
  <2>3. UNCHANGED <<fixupsVars, listerVars, detailerVars, dout, updaterVars,
                   serverVars, muxVars, mainVars>>
    BY <1>18 DEF UpdaterEnds
  <2>4. TypeOK'
    BY <2>2, <2>3 DEF TypeOK
  <2>5. Progress'
    BY <2>2, <2>3 DEF Progress, Workers
  <2> QED BY <2>4, <2>5
<1>19. CASE UpdaterFails
  BY <1>a, <1>19 DEF UpdaterFails, TypeOK, Progress, Running, AfterError
<1>20. CASE ServerLists
  BY <1>a, <1>20 DEF ServerLists, TypeOK, Progress, Running
<1>21. CASE ServerSends
  BY <1>a, <1>21 DEF ServerSends, TypeOK, Progress, Running
<1>22. CASE ConnectionLost
  BY <1>a, <1>22 DEF ConnectionLost, TypeOK, Progress, Running
<1>23. ASSUME NEW t \in Workers, Fails(t) PROVE TypeOK' /\ Progress'
  <2>1. Exit(t, "FAILURE") /\ UNCHANGED <<fixupsVars, listerVars,
          detailerVars, dout, updaterVars, serverVars, muxVars, mainVars>>
    BY <1>23 DEF Fails
  <2>2. /\ how' \in [Workers -> {"running", "SUCCESS", "FAILURE"}]
        /\ how'[t] = "FAILURE"
        /\ \A u \in Workers \ {t} : how'[u] = how[u]
        /\ dead' \in Seq(Workers)
        /\ asleep' = asleep \ {"main"}
    BY <2>1, ExitStep
  <2>3. TypeOK'
    BY <2>1, <2>2 DEF TypeOK
  <2>4. how["detailer"] # "running" => how'["detailer"] # "running"
    BY <2>2 DEF Workers
  <2>5. Progress'
    BY <2>1, <2>4 DEF Progress
  <2> QED BY <2>3, <2>5
<1>24. ASSUME NEW t \in asleep, SpuriousWakeup(t)
      PROVE  TypeOK' /\ Progress'
  BY <1>a, <1>24 DEF SpuriousWakeup, TypeOK, Progress
<1>25. CASE UNCHANGED vars
  BY <1>25 DEF vars, TypeOK, Progress
<1> QED BY <1>1, <1>2, <1>3, <1>4, <1>5, <1>6, <1>7, <1>8, <1>9, <1>10,
           <1>11, <1>12, <1>13, <1>14, <1>15, <1>16, <1>17, <1>18, <1>19,
           <1>20, <1>21, <1>22, <1>23, <1>24, <1>25
    DEF Next, MainStep, ListerStep, DetailerStep, UpdaterStep, ServerStep, Done


\* The types of the variables, and no thread is ahead of the one whose items
\* it reads.
THEOREM Types == Spec => [](TypeOK /\ Progress)
<1>1. Init => TypeOK /\ Progress
  <2> SUFFICES ASSUME Init PROVE TypeOK /\ Progress
    OBVIOUS
  <2>1. Last \in Nat /\ Last > 0
    BY SessionAssumption DEF Last
  <2>2. <<>> \in Seq(Fixups) /\ <<>> \in Seq(Workers)
        /\ <<>> \in Seq(Colls \X Fixups)
    BY EmptySeq
  <2>3. [t \in Workers |-> "running"]
          \in [Workers -> {"running", "SUCCESS", "FAILURE"}]
    OBVIOUS
  <2>4. TypeOK
    <3>1. /\ fixupq \in Seq(Fixups) /\ dead \in Seq(Workers)
          /\ puts \in Seq(Fixups) /\ requests \in Seq(Colls \X Fixups)
      BY <2>2 DEF Init
    <3>2. how \in [Workers -> {"running", "SUCCESS", "FAILURE"}]
      BY <2>3 DEF Init
    <3>3. /\ litem \in 1..(Last + 1) /\ lout \in 0..Last
          /\ ditem \in 1..(2 * Last + 1) /\ dout \in 0..(2 * Last)
          /\ uitem \in 1..(2 * Last + 1) /\ nfix \in 0..MaxFixups
          /\ listed \in 0..Last /\ sent \in 0..(2 * Last)
      BY <2>1, SessionAssumption DEF Init
    <3> QED BY <3>1, <3>2, <3>3 DEF Init, TypeOK
  <2>5. Progress
    BY <2>1 DEF Init, Progress
  <2> QED BY <2>4, <2>5
<1>2. TypeOK /\ Progress /\ [Next]_vars => TypeOK' /\ Progress'
  BY TypesStep
<1> QED BY <1>1, <1>2, PTL DEF Spec

-----------------------------------------------------------------------------
(* fixups_close(), the end of the updater, and the assertions *)

\* Every step keeps updater() and fixups_close() in their order.
LEMMA ControlStep ==
    ASSUME TypeOK, Progress, Control, [Next]_vars
    PROVE  Control'
<1> USE DEF fixupsVars, listerVars, detailerVars, updaterVars, serverVars,
        muxVars, mainVars, threadsVars
<1>a. Last \in Nat /\ uitem \in Nat
  BY SessionAssumption DEF Last, TypeOK
<1>1. CASE ThreadsWaitSleeps
  BY <1>a, <1>1
    DEF ThreadsWaitSleeps, Control, SecondBatch, Running, Workers, TypeOK
<1>2. CASE Reap
  BY <1>a, <1>2 DEF Reap, Control, SecondBatch, Running, Workers, TypeOK
<1>3. CASE Return
  BY <1>a, <1>3 DEF Return, Control, SecondBatch, Running, Workers, TypeOK
<1>4. CASE ListerWrites
  BY <1>a, <1>4
    DEF ListerWrites, Control, SecondBatch, Running, Workers, TypeOK
<1>5. CASE ListerEnds
  <2>1. \E status \in {"SUCCESS", "FAILURE"} : Exit("lister", status)
    BY <1>5 DEF ListerEnds
  <2>2. /\ how' = [how EXCEPT !["lister"] = how'["lister"]]
        /\ how'["lister"] # "running"
        /\ asleep' = asleep \ {"main"}
    BY <2>1 DEF Exit, TypeOK, Workers
  <2> QED BY <1>5, <2>2
    DEF ListerEnds, Control, TypeOK, Running, Workers, SecondBatch
<1>6. CASE DetailerReads
  BY <1>a, <1>6
    DEF DetailerReads, Control, SecondBatch, Running, Workers, TypeOK
<1>7. CASE DetailerWrites
  BY <1>a, <1>7
    DEF DetailerWrites, Control, SecondBatch, Running, Workers, TypeOK
<1>8. CASE FixupsColl
  BY <1>a, <1>8 DEF FixupsColl, Control, SecondBatch, Running, Workers, TypeOK
<1>9. CASE FixupsGet
  BY <1>a, <1>9 DEF FixupsGet, Control, SecondBatch, Running, Workers, TypeOK
<1>10. CASE FixupsGetNone
  BY <1>a, <1>10
    DEF FixupsGetNone, Control, SecondBatch, Running, Workers, TypeOK
<1>11. CASE RequestFixup
  BY <1>a, <1>11
    DEF RequestFixup, Control, SecondBatch, Running, Workers, TypeOK
<1>12. CASE FixupsSectionEnds
  BY <1>a, <1>12
    DEF FixupsSectionEnds, Control, SecondBatch, Running, Workers, TypeOK
<1>13. CASE DetailerEnds
  <2>1. \E status \in {"SUCCESS", "FAILURE"} : Exit("detailer", status)
    BY <1>13 DEF DetailerEnds
  <2>2. /\ how' = [how EXCEPT !["detailer"] = how'["detailer"]]
        /\ how'["detailer"] # "running"
        /\ asleep' = asleep \ {"main"}
    BY <2>1 DEF Exit, TypeOK, Workers
  <2> QED BY <1>13, <2>2
    DEF DetailerEnds, Control, TypeOK, Running, Workers, SecondBatch
<1>14. CASE UpdaterReads
  BY <1>a, <1>14
    DEF UpdaterReads, Control, SecondBatch, SecondBatch, Running, Workers,
        TypeOK
<1>15. CASE NeedFixup
  BY <1>a, <1>15 DEF NeedFixup, Control, SecondBatch, Running, Workers, TypeOK
<1>16. CASE FixupsClose
  BY <1>a, <1>16
    DEF FixupsClose, Control, SecondBatch, Running, Workers, TypeOK
<1>17. CASE FixupsSignal
  BY <1>a, <1>17
    DEF FixupsSignal, Control, SecondBatch, Running, Workers, TypeOK
<1>18. CASE UpdaterEnds
  <2>1. \E status \in {"SUCCESS", "FAILURE"} : Exit("updater", status)
    BY <1>18 DEF UpdaterEnds
  <2>2. /\ how' = [how EXCEPT !["updater"] = how'["updater"]]
        /\ how'["updater"] # "running"
        /\ asleep' = asleep \ {"main"}
    BY <2>1 DEF Exit, TypeOK, Workers
  <2> QED BY <1>18, <2>2
    DEF UpdaterEnds, Control, TypeOK, Running, Workers, SecondBatch
<1>19. CASE UpdaterFails
  BY <1>a, <1>19
    DEF UpdaterFails, Control, AfterError, SecondBatch, Running, Workers,
        TypeOK
<1>20. CASE ServerLists
  BY <1>a, <1>20
    DEF ServerLists, Control, SecondBatch, Running, Workers, TypeOK
<1>21. CASE ServerSends
  BY <1>a, <1>21
    DEF ServerSends, Control, SecondBatch, Running, Workers, TypeOK
<1>22. CASE ConnectionLost
  BY <1>a, <1>22
    DEF ConnectionLost, Control, SecondBatch, Running, Workers, TypeOK
<1>23. ASSUME NEW t \in Workers, Fails(t) PROVE Control'
  <2>1. how' = [how EXCEPT ![t] = "FAILURE"] /\ asleep' = asleep \ {"main"}
    BY <1>23 DEF Fails, Exit
  <2> QED BY <1>23, <2>1
    DEF Fails, Control, TypeOK, Running, Workers, SecondBatch
<1>24. ASSUME NEW t \in asleep, SpuriousWakeup(t) PROVE Control'
  BY <1>a, <1>24 DEF SpuriousWakeup, Control, SecondBatch
<1>25. CASE UNCHANGED vars
  BY <1>25 DEF vars, Control, SecondBatch
<1> QED BY <1>1, <1>2, <1>3, <1>4, <1>5, <1>6, <1>7, <1>8, <1>9, <1>10,
           <1>11, <1>12, <1>13, <1>14, <1>15, <1>16, <1>17, <1>18, <1>19,
           <1>20, <1>21, <1>22, <1>23, <1>24, <1>25
    DEF Next, MainStep, ListerStep, DetailerStep, UpdaterStep, ServerStep, Done


\* The updater closes the fixups after its first batch, whether it fails or
\* not, and never ends without having done so.
THEOREM Controlled == Spec => []Control
<1>1. Init => Control
  <2> SUFFICES ASSUME Init PROVE Control
    OBVIOUS
  <2>1. ~SecondBatch(uitem) /\ ~(uitem > 2 * Last)
    BY SessionAssumption DEF Init, SecondBatch, Last
  <2>2. how["updater"] = "running"
    BY DEF Init, Workers
  <2> QED BY <2>1, <2>2 DEF Init, Control
<1>2. TypeOK /\ Progress /\ Control /\ [Next]_vars => Control'
  BY ControlStep
<1> QED BY <1>1, <1>2, Types, PTL DEF Spec

\* The assertions of fixups.c and threads.c hold.
THEOREM NoAssertionFails == Spec => []AssertionsHold
<1>1. Control => AssertionsHold
  BY DEF Control, AssertionsHold, Workers
<1> QED BY <1>1, Controlled, PTL

-----------------------------------------------------------------------------
(* No signal is lost *)

\* No step leaves a thread asleep with something to do and no signal to come.
LEMMA WakeupStep ==
    ASSUME TypeOK, NoLostWakeup, [Next]_vars
    PROVE  NoLostWakeup'
<1> USE DEF fixupsVars, listerVars, detailerVars, updaterVars, serverVars,
        muxVars, mainVars, threadsVars
<1>1. CASE ThreadsWaitSleeps
  BY <1>1 DEF ThreadsWaitSleeps, NoLostWakeup, Running
<1>2. CASE Reap
  BY <1>2 DEF Reap, NoLostWakeup, Running
<1>3. CASE Return
  BY <1>3 DEF Return, NoLostWakeup, Running
<1>4. CASE ListerWrites
  BY <1>4 DEF ListerWrites, NoLostWakeup, Running
<1>5. CASE ListerEnds
  BY <1>5 DEF ListerEnds, NoLostWakeup, Running, Exit
<1>6. CASE DetailerReads
  BY <1>6 DEF DetailerReads, NoLostWakeup, Running
<1>7. CASE DetailerWrites
  BY <1>7 DEF DetailerWrites, NoLostWakeup, Running
<1>8. CASE FixupsColl
  BY <1>8 DEF FixupsColl, NoLostWakeup, Running
<1>9. CASE FixupsGet
  BY <1>9 DEF FixupsGet, NoLostWakeup, Running
<1>10. CASE FixupsGetNone
  BY <1>10 DEF FixupsGetNone, NoLostWakeup, Running
<1>11. CASE RequestFixup
  BY <1>11 DEF RequestFixup, NoLostWakeup, Running
<1>12. CASE FixupsSectionEnds
  BY <1>12 DEF FixupsSectionEnds, NoLostWakeup, Running
<1>13. CASE DetailerEnds
  BY <1>13 DEF DetailerEnds, NoLostWakeup, Running, Exit
<1>14. CASE UpdaterReads
  BY <1>14 DEF UpdaterReads, NoLostWakeup, Running
<1>15. CASE NeedFixup
  BY <1>15 DEF NeedFixup, NoLostWakeup, Running, WasEmpty
<1>16. CASE FixupsClose
  BY <1>16 DEF FixupsClose, NoLostWakeup, Running, WasEmpty
<1>17. CASE FixupsSignal
  BY <1>17 DEF FixupsSignal, NoLostWakeup, Running
<1>18. CASE UpdaterEnds
  BY <1>18 DEF UpdaterEnds, NoLostWakeup, Running, Exit
<1>19. CASE UpdaterFails
  BY <1>19 DEF UpdaterFails, NoLostWakeup, Running, AfterError
<1>20. CASE ServerLists
  BY <1>20 DEF ServerLists, NoLostWakeup, Running
<1>21. CASE ServerSends
  BY <1>21 DEF ServerSends, NoLostWakeup, Running
<1>22. CASE ConnectionLost
  BY <1>22 DEF ConnectionLost, NoLostWakeup, Running
<1>23. ASSUME NEW t \in Workers, Fails(t) PROVE NoLostWakeup'
  BY <1>23 DEF Fails, Exit, NoLostWakeup
<1>24. ASSUME NEW t \in asleep, SpuriousWakeup(t) PROVE NoLostWakeup'
  BY <1>24 DEF SpuriousWakeup, NoLostWakeup
<1>25. CASE UNCHANGED vars
  BY <1>25 DEF vars, NoLostWakeup
<1> QED BY <1>1, <1>2, <1>3, <1>4, <1>5, <1>6, <1>7, <1>8, <1>9, <1>10,
           <1>11, <1>12, <1>13, <1>14, <1>15, <1>16, <1>17, <1>18, <1>19,
           <1>20, <1>21, <1>22, <1>23, <1>24, <1>25
    DEF Next, MainStep, ListerStep, DetailerStep, UpdaterStep, ServerStep, Done

\* Neither the detailer nor the main thread sleeps through what it waits for.
THEOREM NoWakeupIsLost == Spec => []NoLostWakeup
<1>1. Init => NoLostWakeup
  BY DEF Init, NoLostWakeup
<1>2. TypeOK /\ NoLostWakeup /\ [Next]_vars => NoLostWakeup'
  BY WakeupStep
<1> QED BY <1>1, <1>2, Types, PTL DEF Spec

-----------------------------------------------------------------------------
(* The scan time *)

\* A scan time is set before the answer to its COLL line.
LEMMA ScannedStep ==
    ASSUME TypeOK, Progress, Scanned, [Next]_vars
    PROVE  Scanned'
<1> USE DEF fixupsVars, listerVars, detailerVars, updaterVars, serverVars,
        muxVars, mainVars, threadsVars
<1>1. CASE DetailerReads
  <2> SUFFICES ASSUME NEW c \in Colls, ditem >= 2 * c - 1
               PROVE  c \in scantime'
    BY <1>1, SessionAssumption DEF DetailerReads, Scanned, TypeOK, Colls
  <2>1. CASE ditem >= 2 * c
    BY <1>1, <2>1 DEF DetailerReads, Scanned
  <2>2. CASE ditem = 2 * c - 1
    <3>1. ditem \in 1..Last /\ Last = 2 * NColl + 1
      BY <1>1, SessionAssumption DEF DetailerReads, TypeOK, Last
    <3>2. ~SecondBatch(ditem)
      BY <3>1, SessionAssumption DEF SecondBatch
    <3>3. Place(ditem) = 2 * c - 1 /\ CollOf(ditem) = c /\ Place(ditem) # Last
      BY <2>2, <3>1, <3>2, SessionAssumption DEF Place, CollOf, Colls
    <3>4. IsColl(ditem)
      BY <3>3 DEF IsColl, Colls
    <3> QED BY <1>1, <3>3, <3>4 DEF DetailerReads, ScanTime
  <2> QED BY <2>1, <2>2, SessionAssumption DEF TypeOK, Colls
<1>2. CASE ditem' = ditem /\ dread' = dread /\ scantime' = scantime
  BY <1>2 DEF Scanned
<1>3. CASE DetailerWrites
  <2>1. ditem' = ditem + 1 /\ dread /\ ~dread' /\ scantime' = scantime
        /\ ditem \in Nat
    BY <1>3, SessionAssumption DEF DetailerWrites, TypeOK, Last
  <2> QED BY <2>1, SessionAssumption DEF Scanned, Colls
<1>4. CASE SecondBatch(ditem) /\ ditem' = ditem + 1 /\ dread' = dread
           /\ scantime' = scantime
  <2>1. \A c \in Colls : ditem >= 2 * c
    BY <1>4, SessionAssumption DEF SecondBatch, Last, Colls, TypeOK
  <2> QED BY <1>4, <2>1 DEF Scanned
<1>5. DetailerEnds => SecondBatch(ditem)
  BY SessionAssumption DEF DetailerEnds, SecondBatch, Last
<1> QED
  BY <1>1, <1>2, <1>3, <1>4, <1>5
  DEF Next, MainStep, ListerStep, DetailerStep, UpdaterStep, ServerStep, Done,
      vars, ThreadsWaitSleeps, Reap, Return, ListerWrites, ListerEnds,
      FixupsColl, FixupsGet, FixupsGetNone, RequestFixup, FixupsSectionEnds,
      InFixups, DetailerEnds, UpdaterReads, NeedFixup, FixupsClose,
      FixupsSignal, UpdaterEnds, Fails, UpdaterFails, ServerLists,
      ServerSends, ConnectionLost, SpuriousWakeup

\* The updater never opens a status file before the scan time is there.
THEOREM ScanTimeIsKnown == Spec => []ScanTimeKnown
<1>1. Init => Scanned
  BY SessionAssumption DEF Init, Scanned, Colls
<1>2. TypeOK /\ Progress /\ Scanned /\ [Next]_vars => Scanned'
  BY ScannedStep
<1>3. TypeOK /\ Progress /\ Control /\ Scanned => ScanTimeKnown
  <2> SUFFICES ASSUME TypeOK, Progress, Control, Scanned, upc = "batch",
                      IsBody(uitem)
               PROVE  CollOf(uitem) \in scantime
    BY DEF ScanTimeKnown
  <2>1. /\ uitem \in 1..(2 * Last + 1) /\ ~(uitem > 2 * Last)
        /\ uitem <= ditem /\ ditem \in Nat
        /\ Last \in Nat
    BY SessionAssumption DEF TypeOK, Progress, Control, Last
  <2>2. CollOf(uitem) \in Colls /\ Place(uitem) = 2 * CollOf(uitem)
    BY <2>1, CollOfItem
  <2>3. Place(uitem) <= uitem
    BY <2>1 DEF Place, SecondBatch
  <2>4. ditem >= 2 * CollOf(uitem)
    BY <2>1, <2>2, <2>3 DEF Colls
  <2> QED BY <2>2, <2>4 DEF Scanned
<1> QED BY <1>1, <1>2, <1>3, Types, Controlled, PTL DEF Spec


-----------------------------------------------------------------------------
(* The fixups *)

\* A fixup is never mistaken for none.
LEMMA FixupIsOne ==
    ASSUME NEW f \in Fixups
    PROVE  f # NoFixup /\ f[1] \in Colls
BY DEF Fixups, NoFixup

\* The types FixupsInOrder is about.
LEMMA QueueTypes ==
    ASSUME TypeOK
    PROVE  /\ Len(puts) \in Nat /\ Len(requests) \in Nat /\ Len(fixupq) \in Nat
           /\ InHand \in 0..1
           /\ puts \in Seq(Fixups) /\ fixupq \in Seq(Fixups)
           /\ requests \in Seq(Colls \X Fixups)
<1>1. /\ puts \in Seq(Fixups) /\ fixupq \in Seq(Fixups)
      /\ requests \in Seq(Colls \X Fixups)
  BY DEF TypeOK
<1> QED BY <1>1, LenProperties DEF InHand

\* fixups_put(), fixups_get() and the requests keep the fixups in line.
LEMMA QueueStep ==
    ASSUME TypeOK, Progress, Queue, [Next]_vars
    PROVE  Queue'
<1> USE DEF fixupsVars, listerVars, detailerVars, updaterVars, serverVars,
        muxVars, mainVars, threadsVars
<1> DEFINE r == Len(requests)
           q == Len(fixupq)
<1>a. /\ Len(puts) \in Nat /\ r \in Nat /\ q \in Nat /\ InHand \in 0..1
      /\ puts \in Seq(Fixups) /\ fixupq \in Seq(Fixups)
      /\ requests \in Seq(Colls \X Fixups)
  BY QueueTypes
<1>1. CASE FixupsGet
  <2>1. /\ fixupq # <<>> /\ fixup = NoFixup /\ InHand = 0
        /\ fixup' = Head(fixupq) /\ fixupq' = Tail(fixupq)
        /\ UNCHANGED <<puts, requests>>
    BY <1>1 DEF FixupsGet, WantsFixup, InHand
  <2>2. /\ fixup' \in Fixups /\ fixup' = fixupq[1]
        /\ Len(fixupq') = q - 1 /\ q \in Nat \ {0}
        /\ \A i \in 1..(q - 1) : fixupq'[i] = fixupq[i + 1]
    BY <1>a, <2>1, HeadTailProperties, EmptySeq
  <2>3. InHand' = 1
    BY <2>2, FixupIsOne DEF InHand
  <2>4. Len(puts) = r + q /\ \A i \in 1..q : puts[r + i] = fixupq[i]
    BY <1>a, <2>1 DEF Queue
  <2>5. Len(puts') = Len(requests') + InHand' + Len(fixupq')
    BY <1>a, <2>1, <2>2, <2>3, <2>4
  <2>6. puts'[Len(requests') + 1] = fixup'
    BY <1>a, <2>1, <2>2, <2>4
  <2>7. \A i \in 1..Len(fixupq') :
          puts'[Len(requests') + InHand' + i] = fixupq'[i]
    <3> TAKE i \in 1..Len(fixupq')
    <3>1. i + 1 \in 1..q /\ r + 1 + i = r + (i + 1)
      BY <1>a, <2>2
    <3>2. puts[r + (i + 1)] = fixupq[i + 1]
      BY <2>4, <3>1
    <3> QED BY <2>1, <2>2, <2>3, <3>1, <3>2
  <2> QED BY <2>1, <2>5, <2>6, <2>7 DEF Queue
<1>2. CASE RequestFixup
  <2> DEFINE e == <<CollOf(ditem), fixup>>
  <2>1. /\ fixup # NoFixup /\ fixup[1] = CollOf(ditem) /\ fixup' = NoFixup
        /\ requests' = Append(requests, e)
        /\ UNCHANGED <<puts, fixupq>>
    BY <1>2 DEF RequestFixup
  <2>2. e \in Colls \X Fixups
    BY <1>2, DetailerPlace DEF RequestFixup, TypeOK
  <2>3. e[2] = fixup /\ e[1] = fixup[1]
    BY <2>1
  <2> HIDE DEF e
  <2>4. /\ Len(requests') = r + 1 /\ requests'[r + 1] = e
        /\ \A i \in 1..r : requests'[i] = requests[i]
    BY <1>a, <2>1, <2>2, AppendProperties
  <2>5. InHand = 1 /\ InHand' = 0 /\ puts[r + 1] = fixup
    BY <2>1 DEF InHand, Queue
  <2>6. \A i \in 1..(r + 1) :
          puts'[i] = requests'[i][2] /\ requests'[i][1] = requests'[i][2][1]
    <3> TAKE i \in 1..(r + 1)
    <3>1. CASE i = r + 1
      BY <2>1, <2>3, <2>4, <2>5, <3>1
    <3>2. CASE i # r + 1
      BY <1>a, <2>1, <2>4, <3>2 DEF Queue
    <3> QED BY <3>1, <3>2
  <2>7. Len(puts) = r + 1 + q /\ \A i \in 1..q : puts[r + 1 + i] = fixupq[i]
    BY <2>5 DEF Queue
  <2>8. Len(puts') = Len(requests') + InHand' + Len(fixupq')
    BY <1>a, <2>1, <2>4, <2>5, <2>7
  <2>9. \A i \in 1..Len(fixupq') :
          puts'[Len(requests') + InHand' + i] = fixupq'[i]
    <3>1. Len(requests') + InHand' = r + 1
      BY <1>a, <2>4, <2>5
    <3> QED BY <2>1, <2>7, <3>1
  <2>10. \A i \in 1..Len(requests') :
           puts'[i] = requests'[i][2] /\ requests'[i][1] = requests'[i][2][1]
    BY <2>4, <2>6
  <2> HIDE DEF r, q
  <2> QED BY <2>1, <2>8, <2>9, <2>10 DEF Queue
<1>3. CASE NeedFixup
  <2> DEFINE f == <<CollOf(uitem), nfix + 1>>
  <2>1. /\ puts' = Append(puts, f) /\ fixupq' = Append(fixupq, f)
        /\ UNCHANGED <<fixup, requests>>
    BY <1>3 DEF NeedFixup
  <2>2. f \in Fixups
    BY <1>3, PutIsFixup
  <2> HIDE DEF f
  <2>3. /\ Len(puts') = Len(puts) + 1 /\ puts'[Len(puts) + 1] = f
        /\ \A i \in 1..Len(puts) : puts'[i] = puts[i]
    BY <1>a, <2>1, <2>2, AppendProperties
  <2>4. /\ Len(fixupq') = q + 1 /\ fixupq'[q + 1] = f
        /\ \A i \in 1..q : fixupq'[i] = fixupq[i]
    BY <1>a, <2>1, <2>2, AppendProperties
  <2>5. InHand' = InHand /\ Len(puts) = r + InHand + q
    BY <2>1 DEF InHand, Queue
  <2>6. \A i \in 1..(q + 1) : puts'[r + InHand + i] = fixupq'[i]
    <3> TAKE i \in 1..(q + 1)
    <3>1. CASE i = q + 1
      BY <1>a, <2>3, <2>4, <2>5, <3>1
    <3>2. CASE i # q + 1
      BY SMTT(30), <1>a, <2>3, <2>4, <2>5, <3>2 DEF Queue
    <3> QED BY <3>1, <3>2
  <2>7. fixup # NoFixup => InHand = 1 /\ puts'[r + 1] = fixup
    BY <1>a, <2>3, <2>5 DEF InHand, Queue
  <2>8. \A i \in 1..r :
          puts'[i] = requests[i][2] /\ requests[i][1] = requests[i][2][1]
    BY <1>a, <2>3, <2>5 DEF Queue
  <2>9. Len(puts') = r + InHand' + Len(fixupq')
    BY <1>a, <2>3, <2>4, <2>5
  <2> QED BY <2>1, <2>4, <2>5, <2>6, <2>7, <2>8, <2>9 DEF Queue
<1>4. CASE UNCHANGED <<fixup, fixupq, puts, requests>>
  BY <1>4 DEF Queue, InHand
<1> QED
  BY <1>1, <1>2, <1>3, <1>4
  DEF Next, MainStep, ListerStep, DetailerStep, UpdaterStep, ServerStep, Done,
      vars, ThreadsWaitSleeps, Reap, Return, ListerWrites, ListerEnds,
      DetailerReads, DetailerWrites, FixupsColl, FixupsGetNone,
      FixupsSectionEnds, DetailerEnds, UpdaterReads, FixupsClose,
      FixupsSignal, UpdaterEnds, Fails, UpdaterFails, ServerLists,
      ServerSends, ConnectionLost, SpuriousWakeup

\* Queue is FixupsInOrder.
LEMMA QueueMeansOrder ==
    ASSUME TypeOK, Queue
    PROVE  FixupsInOrder
<1> DEFINE r == Len(requests)
           q == Len(fixupq)
           req == [i \in 1..r |-> requests[i][2]]
           hand == IF fixup = NoFixup THEN <<>> ELSE <<fixup>>
           rh == req \o hand
           all == rh \o fixupq
           h == InHand
<1>a. /\ Len(puts) \in Nat /\ r \in Nat /\ q \in Nat /\ InHand \in 0..1
      /\ puts \in Seq(Fixups) /\ fixupq \in Seq(Fixups)
      /\ requests \in Seq(Colls \X Fixups)
  BY QueueTypes
<1>1. req \in Seq(Fixups) /\ Len(req) = r
  <2>1. \A i \in 1..r : requests[i][2] \in Fixups
    BY <1>a, ElementOfSeq
  <2> QED BY <1>a, <2>1
<1>2. hand \in Seq(Fixups) /\ Len(hand) = h
      /\ (h = 1 => hand[1] = fixup /\ fixup # NoFixup)
  BY DEF TypeOK, InHand
<1>3. \A i \in 1..r : req[i] = requests[i][2]
  OBVIOUS
<1>4. rh \in Seq(Fixups) /\ Len(rh) = r + h
      /\ \A i \in 1..(r + h) : rh[i] = IF i <= r THEN req[i] ELSE hand[i - r]
  <2> HIDE DEF req, hand, r, h
  <2> QED BY <1>1, <1>2, ConcatProperties
<1>5. all \in Seq(Fixups) /\ Len(all) = r + h + q
      /\ \A i \in 1..(r + h + q) :
           all[i] = IF i <= r + h THEN rh[i] ELSE fixupq[i - (r + h)]
  <2> HIDE DEF rh, r, h
  <2>1. rh \in Seq(Fixups) /\ Len(rh) = r + h /\ fixupq \in Seq(Fixups)
        /\ Len(fixupq) = q
    BY <1>a, <1>4
  <2>2. all \in Seq(Fixups) /\ Len(all) = Len(rh) + Len(fixupq)
        /\ \A i \in 1..(Len(rh) + Len(fixupq)) :
             all[i] = IF i <= Len(rh) THEN rh[i] ELSE fixupq[i - Len(rh)]
    BY <2>1, ConcatProperties
  <2> QED BY <2>1, <2>2
<1>6. /\ Len(puts) = r + h + q
      /\ \A i \in 1..r : puts[i] = requests[i][2]
      /\ fixup # NoFixup => puts[r + 1] = fixup
      /\ \A i \in 1..q : puts[r + h + i] = fixupq[i]
  BY DEF Queue
<1>b. r \in Nat /\ h \in 0..1 /\ q \in Nat
  BY <1>a
<1> HIDE DEF req, hand, rh, all, r, h, q
<1>7. ASSUME NEW i \in 1..(r + h + q)
      PROVE  puts[i] = all[i]
  <2>1. CASE i <= r
    <3>1. i \in 1..r /\ i \in 1..(r + h)
      BY <1>b, <2>1
    <3>2. puts[i] = req[i]
      BY <1>3, <1>6, <3>1
    <3>3. rh[i] = req[i]
      BY <1>4, <2>1, <3>1
    <3>4. all[i] = rh[i]
      BY <1>b, <1>5, <2>1, <3>1
    <3> QED BY <3>2, <3>3, <3>4
  <2>2. CASE i > r /\ i <= r + h
    <3>1. i = r + 1 /\ h = 1
      BY <1>b, <2>2
    <3>2. i \in 1..(r + h) /\ i - r = 1
      BY <1>b, <3>1
    <3>3. puts[i] = fixup /\ hand[i - r] = fixup
      BY <1>2, <1>6, <3>1, <3>2
    <3>4. rh[i] = hand[i - r]
      BY <1>b, <1>4, <2>2, <3>2
    <3>5. all[i] = rh[i]
      BY <1>b, <1>5, <2>2, <3>2
    <3> QED BY <3>3, <3>4, <3>5
  <2>3. CASE i > r + h
    <3> DEFINE k == i - (r + h)
    <3>1. k \in 1..q /\ r + h + k = i
      BY <1>b, <2>3
    <3>2. puts[r + h + k] = fixupq[k]
      BY <1>6, <3>1
    <3>3. all[i] = fixupq[k]
      BY <1>b, <1>5, <2>3
    <3> QED BY <3>1, <3>2, <3>3
  <2> QED BY <1>b, <2>1, <2>2, <2>3
<1>8. puts = all
  BY <1>a, <1>5, <1>6, <1>7, SeqEqual
<1> QED BY <1>8 DEF FixupsInOrder, req, hand, rh, all, r, Queue

\* Every fixup is requested once, in order and in its own section.
THEOREM FixupsAreInOrder == Spec => []FixupsInOrder
<1>1. Init => Queue
  BY DEF Init, Queue, InHand
<1>2. TypeOK /\ Progress /\ Queue /\ [Next]_vars => Queue'
  BY QueueStep
<1>3. TypeOK /\ Queue => FixupsInOrder
  BY QueueMeansOrder
<1> QED BY <1>1, <1>2, <1>3, Types, PTL DEF Spec

-----------------------------------------------------------------------------
(* The sections of the detailer *)

\* From one item to the next, the collection stays or is the next one.
LEMMA NextItem ==
    ASSUME NEW i \in 1..(2 * Last)
    PROVE  /\ ~SecondBatch(i + 1) => CollOf(i) <= CollOf(i + 1)
           /\ i = Last => CollOf(i + 1) = 1
           /\ SecondBatch(i) /\ IsColl(i) =>
                CollOf(i + 1) = CollOf(i) /\ i + 1 < 2 * Last
           /\ SecondBatch(i) /\ IsBody(i) =>
                /\ CollOf(i + 1) = CollOf(i) + 1
                /\ i + 1 = 2 * Last => CollOf(i) = NColl
<1> DEFINE p == Place(i)
<1>1. /\ NColl \in Nat \ {0} /\ Last = 2 * NColl + 1 /\ Last \in Nat
      /\ i + 1 \in 1..(2 * Last + 1)
  BY SessionAssumption DEF Last
<1>2. /\ p \in 1..Last
      /\ SecondBatch(i) => Place(i + 1) = p + 1 /\ i = Last + p
      /\ ~SecondBatch(i + 1) => Place(i + 1) = p + 1
      /\ i = Last => Place(i + 1) = 1
  BY <1>1 DEF Place, SecondBatch
<1>3. CollOf(i) = (p + 1) \div 2 /\ CollOf(i + 1) = (Place(i + 1) + 1) \div 2
  BY DEF CollOf
<1>4. /\ IsColl(i) <=> p % 2 = 1 /\ p # Last
      /\ IsBody(i) <=> p % 2 = 0
  BY DEF IsColl, IsBody
<1> HIDE DEF p
<1>5. /\ (p + 1) \div 2 <= (p + 2) \div 2
      /\ p % 2 = 1 => (p + 2) \div 2 = (p + 1) \div 2
      /\ p % 2 = 0 => (p + 2) \div 2 = (p + 1) \div 2 + 1
      /\ p % 2 = 0 /\ p + 1 = Last => (p + 1) \div 2 = NColl
      /\ p % 2 = 1 => p + 1 # Last
      /\ (1 + 1) \div 2 = 1
  BY <1>1, <1>2, SMT
<1>6. ~SecondBatch(i + 1) => CollOf(i) <= CollOf(i + 1)
  BY <1>2, <1>3, <1>5
<1>7. i = Last => CollOf(i + 1) = 1
  BY <1>2, <1>3, <1>5
<1>8. ASSUME SecondBatch(i), IsColl(i)
      PROVE  CollOf(i + 1) = CollOf(i) /\ i + 1 < 2 * Last
  BY <1>1, <1>2, <1>3, <1>4, <1>5, <1>8
<1>9. ASSUME SecondBatch(i), IsBody(i)
      PROVE  /\ CollOf(i + 1) = CollOf(i) + 1
             /\ i + 1 = 2 * Last => CollOf(i) = NColl
  BY <1>1, <1>2, <1>3, <1>4, <1>5, <1>9
<1> QED BY <1>6, <1>7, <1>8, <1>9

\* The updater goes through the collections in order, and so the detailer
\* passes one only when no fixup of it can come any more.
LEMMA SectionsStep ==
    ASSUME TypeOK, Progress, Control, Queue, Sections, [Next]_vars
    PROVE  Sections'
<1> USE DEF fixupsVars, listerVars, detailerVars, updaterVars, serverVars,
        muxVars, mainVars, threadsVars
<1> DEFINE r == Len(requests)
           n == Len(puts)
<1>a. /\ n \in Nat /\ r \in Nat
      /\ puts \in Seq(Fixups) /\ fixupq \in Seq(Fixups)
      /\ requests \in Seq(Colls \X Fixups)
      /\ \A i \in 1..n : puts[i] \in Fixups /\ puts[i][1] \in 1..NColl
  BY QueueTypes, ElementOfSeq, FixupIsOne DEF Colls
<1>b. /\ NColl \in Nat \ {0} /\ Last \in Nat /\ Last >= 3
      /\ ditem \in 1..(2 * Last + 1) /\ uitem \in 1..(2 * Last + 1)
      /\ CollOf(ditem) \in 1..(NColl + 1) /\ CollOf(uitem) \in 1..(NColl + 1)
  BY SessionAssumption, CollOfItem DEF Last, TypeOK
<1>1. CASE UNCHANGED <<puts, requests, closed, uitem, ditem, eof, fixup,
                       fixupq>>
  BY <1>1 DEF Sections
<1>2. CASE DetailerWrites
  <2>1. /\ ditem \in 1..Last /\ ditem' = ditem + 1
        /\ UNCHANGED <<puts, requests, closed, uitem, eof, fixup, fixupq>>
    BY <1>2, <1>b DEF DetailerWrites, Progress
  <2>2. SecondBatch(ditem') => CollOf(ditem') = 1
    BY <1>b, <2>1, NextItem DEF SecondBatch
  <2>3. ~(ditem' >= 2 * Last)
    BY <1>b, <2>1
  <2> QED BY SMTT(30), <1>a, <1>b, <2>1, <2>2, <2>3 DEF Sections
<1>3. CASE FixupsColl
  <2>1. /\ ditem \in 1..(2 * Last) /\ SecondBatch(ditem) /\ IsColl(ditem)
        /\ ditem' = ditem + 1
        /\ UNCHANGED <<puts, requests, closed, uitem, eof, fixup, fixupq>>
    BY <1>3, DetailerPlace DEF FixupsColl
  <2>2. CollOf(ditem') = CollOf(ditem) /\ ~(ditem' >= 2 * Last)
    BY <1>b, <2>1, NextItem
  <2> QED BY <2>1, <2>2 DEF Sections
<1>4. CASE FixupsGet
  <2>1. /\ ~eof
        /\ UNCHANGED <<puts, requests, closed, uitem, ditem, eof>>
    BY <1>4 DEF FixupsGet, WantsFixup
  <2> QED BY <2>1 DEF Sections
<1>5. CASE FixupsGetNone
  <2>1. /\ fixup = NoFixup /\ fixupq = <<>> /\ (eof' => closed \/ eof)
        /\ UNCHANGED <<puts, requests, closed, uitem, ditem, fixup, fixupq>>
        /\ (ditem >= 2 * Last => eof')
    BY <1>5 DEF FixupsGetNone, WantsFixup, Sections
  <2> QED BY <2>1 DEF Sections
<1>6. CASE RequestFixup
  <2>1. /\ fixup # NoFixup
        /\ UNCHANGED <<puts, closed, uitem, ditem, eof, fixupq>>
    BY <1>6 DEF RequestFixup
  <2>2. <<CollOf(ditem), fixup>> \in Colls \X Fixups
    BY <1>6, DetailerPlace DEF RequestFixup, TypeOK
  <2>3. Len(requests') = r + 1
    BY <1>6, <1>a, <2>2, AppendProperties DEF RequestFixup
  <2>4. \A i \in (r + 2)..n : i \in (r + 1)..n
    BY <1>a
  <2> QED BY <1>a, <2>1, <2>3, <2>4 DEF Sections
<1>7. CASE FixupsSectionEnds
  <2>1. /\ ditem \in 1..(2 * Last) /\ SecondBatch(ditem) /\ IsBody(ditem)
        /\ ditem' = ditem + 1 /\ ditem < 2 * Last
        /\ UNCHANGED <<puts, requests, closed, uitem, eof, fixup, fixupq>>
    BY <1>7, DetailerPlace DEF FixupsSectionEnds, InFixups
  <2>2. /\ CollOf(ditem') = CollOf(ditem) + 1
        /\ ditem' = 2 * Last => CollOf(ditem) = NColl
    BY <2>1, NextItem
  <2>3. CASE eof
    <3>1. closed /\ n = r
      BY <1>a, <2>3, EmptySeq DEF Sections, Queue, InHand
    <3>2. (r + 1)..n = {}
      BY <1>a, <3>1
    <3> QED BY <1>a, <2>1, <2>3, <3>1, <3>2 DEF Sections
  <2>4. CASE ~eof
    <3>1. fixup # NoFixup /\ fixup[1] # CollOf(ditem)
      BY <1>7, <2>4 DEF FixupsSectionEnds
    <3>2. r + 1 \in 1..n /\ puts[r + 1] = fixup
      BY <3>1, QueueTypes DEF Queue, InHand
    <3>3. CollOf(ditem) <= fixup[1]
      BY <1>a, <2>1, <3>2 DEF Sections
    <3>4. fixup[1] \in 1..NColl
      BY <1>a, <3>2
    <3>5. CollOf(ditem') <= fixup[1]
      BY <1>b, <2>2, <3>1, <3>3, <3>4
    <3>6. \A i \in (r + 1)..n : CollOf(ditem') <= puts[i][1]
      <4> TAKE i \in (r + 1)..n
      <4>1. i \in 1..n /\ r + 1 <= i
        BY <1>a
      <4>2. fixup[1] <= puts[i][1] /\ puts[i][1] \in 1..NColl
        BY <1>a, <3>2, <4>1 DEF Sections
      <4> QED BY SMTT(30), <1>b, <2>2, <3>4, <3>5, <4>2
    <3>7. ~closed /\ ~SecondBatch(uitem) => CollOf(ditem') <= CollOf(uitem)
      <4> SUFFICES ASSUME ~closed, ~SecondBatch(uitem)
                   PROVE  CollOf(ditem') <= CollOf(uitem)
        OBVIOUS
      <4>1. fixup[1] <= CollOf(uitem)
        BY <3>2 DEF Sections
      <4> QED BY <1>b, <2>2, <3>4, <3>5, <4>1
    <3>8. ~(ditem' >= 2 * Last)
      BY <1>b, <2>1, <2>2, <3>1, <3>3, <3>4
    <3> QED BY <2>1, <2>4, <3>6, <3>7, <3>8 DEF Sections
  <2> QED BY <2>3, <2>4
<1>8. CASE DetailerEnds
  <2>1. /\ ditem = 2 * Last
        /\ UNCHANGED <<puts, requests, closed, uitem, eof, fixup, fixupq>>
    BY <1>8 DEF DetailerEnds
  <2>2. eof /\ closed /\ fixup = NoFixup /\ fixupq = <<>>
    BY <1>b, <2>1 DEF Sections
  <2>3. (r + 1)..n = {}
    BY <1>a, <2>2, EmptySeq DEF Queue, InHand
  <2> QED BY <2>1, <2>2, <2>3 DEF Sections
<1>9. CASE UpdaterReads
  <2>1. /\ uitem \in 1..(2 * Last) /\ uitem' = uitem + 1
        /\ UNCHANGED <<puts, requests, closed, ditem, eof, fixup, fixupq>>
    BY <1>9, <1>b DEF UpdaterReads, Control
  <2>2. ~SecondBatch(uitem') =>
          CollOf(uitem) <= CollOf(uitem') /\ ~SecondBatch(uitem)
    BY <1>b, <2>1, NextItem DEF SecondBatch
  <2>3. CollOf(uitem') \in 1..(NColl + 1)
    BY <1>b, <2>1, CollOfItem
  <2> QED BY SMTT(30), <1>a, <1>b, <2>1, <2>2, <2>3 DEF Sections
<1>10. CASE NeedFixup
  <2> DEFINE f == <<CollOf(uitem), nfix + 1>>
  <2>1. /\ puts' = Append(puts, f)
        /\ UNCHANGED <<requests, closed, uitem, ditem, eof, fixup>>
    BY <1>10 DEF NeedFixup
  <2>2. ~closed /\ ~SecondBatch(uitem) /\ ~eof
    BY <1>10 DEF NeedFixup, Control, Sections
  <2>3. f \in Fixups /\ f[1] = CollOf(uitem)
    BY <1>10, PutIsFixup
  <2> HIDE DEF f
  <2>4. /\ Len(puts') = n + 1 /\ puts'[n + 1] = f
        /\ \A i \in 1..n : puts'[i] = puts[i]
    BY <1>a, <2>1, <2>3, AppendProperties
  <2>5. \A i \in 1..(n + 1) : puts'[i][1] <= CollOf(uitem)
    <3> TAKE i \in 1..(n + 1)
    <3>1. CASE i = n + 1
      BY <1>b, <2>3, <2>4, <3>1
    <3>2. CASE i \in 1..n
      BY <2>2, <2>4, <3>2 DEF Sections
    <3> QED BY <1>a, <3>1, <3>2
  <2>6. \A i, j \in 1..(n + 1) : i <= j => puts'[i][1] <= puts'[j][1]
    <3> SUFFICES ASSUME NEW i \in 1..(n + 1), NEW j \in 1..(n + 1), i <= j
                 PROVE  puts'[i][1] <= puts'[j][1]
      OBVIOUS
    <3>1. CASE j = n + 1
      BY <2>3, <2>4, <2>5, <3>1
    <3>2. CASE j \in 1..n
      <4>1. i \in 1..n
        BY <1>a, <3>2
      <4> QED BY <2>4, <3>2, <4>1 DEF Sections
    <3> QED BY <1>a, <3>1, <3>2
  <2>7. ASSUME SecondBatch(ditem), NEW i \in (r + 1)..(n + 1)
        PROVE  CollOf(ditem) <= puts'[i][1]
    <3>1. CASE i = n + 1
      BY <2>2, <2>3, <2>4, <2>7, <3>1 DEF Sections
    <3>2. CASE i \in (r + 1)..n
      <4>1. i \in 1..n
        BY <1>a, <3>2
      <4> QED BY <2>4, <2>7, <3>2, <4>1 DEF Sections
    <3> QED BY <1>a, <3>1, <3>2
  <2> QED BY <1>b, <2>1, <2>2, <2>4, <2>5, <2>6, <2>7 DEF Sections
<1>11. CASE FixupsClose
  <2>1. /\ closed'
        /\ UNCHANGED <<puts, requests, uitem, ditem, eof, fixup, fixupq>>
    BY <1>11 DEF FixupsClose
  <2> QED BY <2>1 DEF Sections
<1> QED
  BY <1>1, <1>2, <1>3, <1>4, <1>5, <1>6, <1>7, <1>8, <1>9, <1>10, <1>11
  DEF Next, MainStep, ListerStep, DetailerStep, UpdaterStep, ServerStep, Done,
      vars, ThreadsWaitSleeps, Reap, Return, ListerWrites, ListerEnds,
      DetailerReads, FixupsSignal, UpdaterEnds, Fails, UpdaterFails,
      ServerLists, ServerSends, ConnectionLost, SpuriousWakeup

\* No fixup is left behind by the sections of detailer_batch().
THEOREM SectionsInOrder == Spec => [](Queue /\ Sections)
<1>1. Init => Queue /\ Sections
  <2> SUFFICES ASSUME Init PROVE Queue /\ Sections
    OBVIOUS
  <2>1. ~SecondBatch(ditem) /\ ~(ditem >= 2 * Last)
    BY SessionAssumption DEF Init, SecondBatch, Last
  <2> QED BY <2>1 DEF Init, Queue, InHand, Sections
<1>2. TypeOK /\ Progress /\ Control /\ Queue /\ Sections /\ [Next]_vars =>
        Queue' /\ Sections'
  BY QueueStep, SectionsStep
<1> QED BY <1>1, <1>2, Types, Controlled, PTL DEF Spec

-----------------------------------------------------------------------------
(* The outcome of the session *)

\* The end of a worker is all there is about it in Outcome.
LEMMA OutcomeAfterExit ==
    ASSUME TypeOK, Outcome, NEW t \in Workers,
           NEW status \in {"SUCCESS", "FAILURE"}, Exit(t, status),
           result = "NONE",
           UNCHANGED <<upc, uerror, uitem, mstatus, down, muxstatus, result>>,
           ditem' = ditem \/ (t = "detailer" /\ ditem' > 2 * Last),
           t = "updater" /\ status = "SUCCESS" => ~uerror,
           t = "detailer" /\ status = "SUCCESS" => ditem' > 2 * Last
    PROVE  Outcome'
<1>1. /\ how'[t] = status
      /\ \A u \in Workers \ {t} : how'[u] = how[u]
      /\ Len(dead') = Len(dead) + 1
      /\ dead'[Len(dead) + 1] = t
      /\ \A i \in 1..Len(dead) : dead'[i] = dead[i]
      /\ Len(dead) \in Nat
  BY SMTT(30), ExitStep, LenProperties DEF TypeOK
<1>2. ASSUME NEW u \in Workers, how'[u] = "FAILURE"
      PROVE  mstatus = "FAILURE" \/ \E i \in 1..Len(dead') : dead'[i] = u
  <2>1. CASE u = t
    <3>1. Len(dead) + 1 \in 1..Len(dead')
      BY <1>1
    <3> QED BY <1>1, <2>1, <3>1
  <2>2. CASE u # t
    <3>1. how[u] = "FAILURE"
      BY <1>1, <1>2, <2>2
    <3>2. \A i \in 1..Len(dead) : i \in 1..Len(dead') /\ dead'[i] = dead[i]
      BY <1>1
    <3> QED BY <3>1, <3>2 DEF Outcome
  <2> QED BY <2>1, <2>2
<1>3. how'["updater"] = "SUCCESS" => ~uerror
  BY <1>1 DEF Outcome, Workers
<1>4. how'["detailer"] = "SUCCESS" => ditem' > 2 * Last
  BY <1>1 DEF Outcome, Workers
<1> QED BY <1>2, <1>3, <1>4 DEF Outcome

\* Whoever fails, proto_run() gets to know of it.
LEMMA OutcomeStep ==
    ASSUME TypeOK, Progress, Control, Outcome, [Next]_vars
    PROVE  Outcome'
<1> USE DEF fixupsVars, listerVars, detailerVars, updaterVars, serverVars,
        muxVars, mainVars, threadsVars
<1>a. /\ Last \in Nat /\ uitem \in Nat /\ ditem \in 1..(2 * Last + 1)
      /\ \A t \in Workers : Running(t) => result = "NONE"
  BY SessionAssumption DEF Last, TypeOK, Control, Running
<1>1. CASE UNCHANGED <<upc, uerror, uitem, ditem, how, dead, mstatus, down,
                       muxstatus, result>>
  BY <1>1 DEF Outcome
<1>2. CASE Reap
  <2> DEFINE t == Head(dead)
  <2>1. /\ dead \in Seq(Workers) /\ dead # <<>> /\ result = "NONE"
        /\ dead' = Tail(dead)
        /\ UNCHANGED <<upc, uerror, uitem, ditem, how, result>>
    BY <1>2 DEF Reap, TypeOK
  <2>2. /\ t = dead[1] /\ t \in Workers
        /\ Len(dead) \in Nat \ {0} /\ Len(dead') = Len(dead) - 1
        /\ \A i \in 1..(Len(dead) - 1) : dead'[i] = dead[i + 1]
    BY <2>1, HeadTailProperties, EmptySeq
  <2>3. IF FirstFailure(t)
        THEN mstatus' = "FAILURE" /\ down' = TRUE
             /\ muxstatus' = FirstStatus("FAILURE")
        ELSE UNCHANGED <<mstatus, down, muxstatus>>
    BY <1>2 DEF Reap
  <2>4. mstatus \in {"SUCCESS", "FAILURE"}
    BY DEF TypeOK
  <2> HIDE DEF t
  <2>5. mstatus = "FAILURE" => mstatus' = "FAILURE"
    BY <2>3, <2>4 DEF FirstFailure
  <2>6. how[t] = "FAILURE" => mstatus' = "FAILURE"
    BY <2>3, <2>4 DEF FirstFailure
  <2>7. ASSUME NEW u \in Workers, how'[u] = "FAILURE"
        PROVE  mstatus' = "FAILURE" \/ \E i \in 1..Len(dead') : dead'[i] = u
    <3> SUFFICES ASSUME mstatus' # "FAILURE"
                 PROVE  \E i \in 1..Len(dead') : dead'[i] = u
      OBVIOUS
    <3>1. PICK i \in 1..Len(dead) : dead[i] = u
      BY <2>1, <2>5, <2>7 DEF Outcome
    <3>2. i # 1
      BY <2>1, <2>2, <2>6, <2>7, <3>1
    <3>3. i - 1 \in 1..Len(dead') /\ dead'[i - 1] = dead[(i - 1) + 1]
      BY <2>2, <3>2
    <3> QED BY <3>1, <3>3
  <2>8. /\ down' => muxstatus' = "FAILURE"
        /\ mstatus' = "FAILURE" => down'
    BY <2>1, <2>3 DEF FirstStatus, Outcome
  <2> QED BY <2>1, <2>7, <2>8 DEF Outcome
<1>3. CASE Return
  <2>1. /\ dead = <<>> /\ result = "NONE" /\ result' = muxstatus'
        /\ IF mstatus = "SUCCESS"
           THEN down' = TRUE /\ muxstatus' = FirstStatus("SUCCESS")
           ELSE UNCHANGED <<down, muxstatus>>
        /\ UNCHANGED <<upc, uerror, uitem, ditem, how, dead, mstatus>>
    BY <1>3 DEF Return
  <2>2. mstatus \in {"SUCCESS", "FAILURE"}
    BY DEF TypeOK
  <2>3. /\ down' /\ result' # "NONE"
        /\ result' = "SUCCESS" => mstatus = "SUCCESS"
    BY <2>1, <2>2 DEF FirstStatus, Outcome
  <2> QED BY <2>1, <2>3 DEF Outcome
<1>4. CASE ListerEnds
  <2>1. /\ Exit("lister", "SUCCESS") /\ result = "NONE"
        /\ UNCHANGED <<upc, uerror, uitem, ditem, mstatus, down, muxstatus,
                       result>>
    BY <1>a, <1>4 DEF ListerEnds, Workers
  <2> QED BY <2>1, OutcomeAfterExit DEF Workers
<1>5. CASE DetailerEnds
  <2>1. /\ Exit("detailer", "SUCCESS") /\ result = "NONE"
        /\ ditem' > 2 * Last
        /\ UNCHANGED <<upc, uerror, uitem, mstatus, down, muxstatus, result>>
    BY <1>a, <1>5 DEF DetailerEnds, Workers
  <2> QED BY <2>1, OutcomeAfterExit DEF Workers
<1>6. CASE UpdaterEnds
  <2>1. /\ Exit("updater", IF uerror THEN "FAILURE" ELSE "SUCCESS")
        /\ result = "NONE"
        /\ UNCHANGED <<upc, uerror, uitem, ditem, mstatus, down, muxstatus,
                       result>>
    BY <1>a, <1>6 DEF UpdaterEnds, Workers
  <2>2. CASE uerror
    <3>1. Exit("updater", "FAILURE")
      BY <2>1, <2>2
    <3> QED BY <2>1, <3>1, OutcomeAfterExit DEF Workers
  <2>3. CASE ~uerror
    <3>1. Exit("updater", "SUCCESS")
      BY <2>1, <2>3
    <3> QED BY <2>1, <2>3, <3>1, OutcomeAfterExit DEF Workers
  <2> QED BY <2>2, <2>3
<1>7. ASSUME NEW t \in Workers, Fails(t) PROVE Outcome'
  <2>1. /\ Exit(t, "FAILURE") /\ result = "NONE"
        /\ UNCHANGED <<upc, uerror, uitem, ditem, mstatus, down, muxstatus,
                       result>>
    BY <1>a, <1>7 DEF Fails
  <2> QED BY <2>1, OutcomeAfterExit
<1>8. CASE /\ ditem' = ditem + 1
           /\ UNCHANGED <<upc, uerror, uitem, how, dead, mstatus, down,
                          muxstatus, result>>
  BY <1>a, <1>8 DEF Outcome
<1>9. CASE UpdaterReads \/ NeedFixup \/ FixupsClose \/ FixupsSignal
           \/ UpdaterFails
  <2>1. /\ UNCHANGED <<ditem, how, dead, mstatus, down, muxstatus, result>>
        /\ how["updater"] = "running"
    BY <1>9 DEF UpdaterReads, NeedFixup, FixupsClose, FixupsSignal,
                UpdaterFails, Running
  <2>2. upc' = "end" /\ ~uerror' => uitem' > 2 * Last
    <3>1. CASE UpdaterReads
      BY <1>a, <3>1 DEF UpdaterReads, Outcome
    <3>2. CASE NeedFixup \/ FixupsClose \/ FixupsSignal
      BY <3>2 DEF NeedFixup, FixupsClose, FixupsSignal
    <3>3. CASE UpdaterFails
      BY <3>3 DEF UpdaterFails
    <3> QED BY <1>9, <3>1, <3>2, <3>3
  <2> QED BY <2>1, <2>2 DEF Outcome
<1>10. CASE ConnectionLost
  BY <1>10 DEF ConnectionLost, Outcome
<1>11. FixupsSectionEnds \/ FixupsColl \/ DetailerWrites => ditem' = ditem + 1
  BY DEF FixupsSectionEnds, FixupsColl, DetailerWrites
<1> QED
  BY <1>1, <1>2, <1>3, <1>4, <1>5, <1>6, <1>7, <1>8, <1>9, <1>10, <1>11
  DEF Next, MainStep, ListerStep, DetailerStep, UpdaterStep, ServerStep, Done,
      vars, ThreadsWaitSleeps, ListerWrites, DetailerReads, DetailerWrites,
      FixupsColl, FixupsGet, FixupsGetNone, RequestFixup, FixupsSectionEnds,
      ServerLists, ServerSends, SpuriousWakeup

\* proto_run() reports success only if the updater has received everything,
\* no fixup is left, and no worker has failed.
THEOREM SuccessIsForAll == Spec => []SuccessIsComplete
<1>1. Init => Outcome
  <2> SUFFICES ASSUME Init PROVE Outcome
    OBVIOUS
  <2>1. \A t \in Workers : how[t] = "running"
    BY DEF Init
  <2> QED BY <2>1 DEF Init, Outcome, Workers
<1>2. TypeOK /\ Progress /\ Control /\ Outcome /\ [Next]_vars => Outcome'
  BY OutcomeStep
<1>3. TypeOK /\ Progress /\ Control /\ Queue /\ Sections /\ Outcome =>
        SuccessIsComplete
  <2> SUFFICES ASSUME TypeOK, Progress, Control, Queue, Sections, Outcome,
                      result = "SUCCESS"
               PROVE  /\ uitem > 2 * Last
                      /\ Len(requests) = Len(puts)
                      /\ \A t \in Workers : how[t] = "SUCCESS"
    BY DEF SuccessIsComplete
  <2>1. Last \in Nat /\ ditem \in Nat /\ Len(dead) = 0
    BY EmptySeq, SessionAssumption DEF Outcome, TypeOK, Last
  <2>2. \A t \in Workers : how[t] = "SUCCESS"
    <3> TAKE t \in Workers
    <3>1. how[t] # "running" /\ how[t] \in {"running", "SUCCESS", "FAILURE"}
      BY DEF Control, TypeOK
    <3>2. how[t] # "FAILURE"
      BY <2>1 DEF Outcome
    <3> QED BY <3>1, <3>2
  <2>3. uitem > 2 * Last /\ ditem > 2 * Last
    BY <2>2 DEF Control, Outcome, Workers
  <2>4. fixup = NoFixup /\ fixupq = <<>>
    BY <2>1, <2>3 DEF Sections
  <2>5. Len(requests) = Len(puts)
    BY <2>4, EmptySeq, QueueTypes DEF Queue, InHand
  <2> QED BY <2>2, <2>3, <2>5
<1> QED BY <1>1, <1>2, <1>3, Types, Controlled, SectionsInOrder, PTL DEF Spec

=============================================================================
