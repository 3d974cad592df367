--------------------------- MODULE ConvergeProofs ----------------------------
(***************************************************************************)
(* The proof that a run of module Update without errors and edits leaves   *)
(* every file as the server has it, and none in two places.                *)
(*                                                                         *)
(* In this order: the invariant; what a command may do to files other than *)
(* its own, and why none is left in two places; what requests, details and *)
(* answers say of a file; the first and the last moment of a batch; what a *)
(* command does for its own file; a run from the list to its end.          *)
(***************************************************************************)
EXTENDS MergeProofs

-----------------------------------------------------------------------------
(* The invariant *)

\* A file that was left in two places is one that is just being moved; there is
\* no Attic in checkout mode.
OnePlace ==
    /\ \A p \in Files \ split :
         On(p) /\ On(Attic(p)) => pc \in {"move", "unlink"} /\ p = Cur.path
    /\ ~cvs => DOMAIN disk \subseteq Files

\* The requests and the commands ask for what the server has.
Meant(q) ==
    /\ q.cmd = "D" => ~Has(srv, q.path)
    /\ q.cmd = "T" => Live(srv, q.path)
    /\ q.cmd = "t" => ~Live(srv, q.path)
    /\ q.cmd \in {"U", "T", "t"} => q.ver = SrvAttr(q.path)
Apt(c) ==
    /\ c.cmd = "D" => ~Has(srv, c.path)
    /\ c.cmd \in {"C", "U", "Y", "T", "A", "V", "X", "L", "r"} => Live(srv, c.path)
    /\ c.cmd \in {"u", "c", "a", "v", "x", "l"} => ~Live(srv, c.path)
    /\ c.cmd \in {"L", "l"} => c.ver = srv[c.path].ver
Asked ==
    /\ \A i \in DOMAIN cmds : IF pc = "detail" THEN Meant(cmds[i]) ELSE Apt(cmds[i])
    /\ ~cvs => \A p \in Range(fixups) : Live(srv, p)

\* The updater is at work on a batch.
Busy == {"apply", "record", "move", "unlink"}

\* The status file is written out if it has to change, and only the first batch
\* leaves fixups behind.
Written ==
    /\ pc \in Busy /\ ~st.dirty => want = FileRecs(stat.recs)
    /\ pc = "flush" => want = FileRecs(stat.recs)
    /\ batch = "failed" => ~clean
    /\ batch = "fixups" => fixups = <<>>

\* What a command of the server takes for granted is so, unless a user changed
\* the file in between.
Fit(c) ==
    c.path \notin raced =>
      /\ c.cmd = "T" => On(c.path) /\ Ver(disk[c.path]) = c.ver
      /\ c.cmd = "L" => On(c.path) /\ disk[c.path] = c.ver
      /\ c.cmd = "l" => On(Attic(c.path)) /\ disk[Attic(c.path)] = c.ver
      /\ c.cmd \in {"V", "v"} /\ On(Existing(c.path)) => Ver(disk[Existing(c.path)]) = c.from

\* A file that a command is still to come for, or that is sent again.
Due(p, cs) == p \in Range(fixups) \/ \E i \in DOMAIN cs : cs[i].path = p

\* The commands that are not begun.
Ahead == IF pc = "apply" THEN cmds ELSE Tail(cmds)

\* While no user changes a file and nothing fails, every file is as the server
\* has it or due.
Settled ==
    /\ pc = "detail" => \A p \in Files \ raced : Due(p, cmds) \/ Synced(p)
    /\ pc \in Busy =>
         /\ \A i \in DOMAIN Ahead : Fit(Ahead[i])
         /\ \A p \in Files \ raced : Due(p, Rest) \/ Agrees(p, want)
    /\ pc = "flush" => \A p \in Files \ raced : Due(p, <<>>) \/ Agrees(p, want)
    /\ pc = "done" => \A p \in Files \ raced : Synced(p)

\* The commands that follow a file that is being moved are about others.
Others == pc = "unlink" => \A i \in DOMAIN Rest : Rest[i].path # Cur.path

SyncInv ==
    OnePlace /\ Asked /\ Written /\ Others /\ (edited = {} /\ clean => Settled)

-----------------------------------------------------------------------------
(* Files and their commands *)

\* The place of the command that is worked on.
LEMMA CurPlace ==
    ASSUME IInv, MergeInv, pc \in Busy, cmds # <<>>
    PROVE  /\ InPlace(Cur) /\ Cur.path \in Files \cup Dirs /\ Cur.path \in Paths
           /\ Cur.cmd \in DirCmds <=> Cur.path \notin Files
<1>1. CASE pc = "unlink"
  <2>1. Cur.cmd \in {"V", "v"} /\ Cur.path \in RcsFiles
    BY <1>1 DEF IInv, Plan
  <2>2. Cur.path \in Files /\ Cur.path \in Paths /\ Cur.cmd \in CvsCmds
    BY <2>1, FilePaths DEF CvsCmds
  <2>3. Cur.cmd \notin DirCmds /\ CmdMark(Cur.cmd) = "C"
    BY <2>2, CmdMarks
  <2> QED BY <2>2, <2>3 DEF InPlace
<1>2. CASE pc \in {"apply", "record", "move"}
  <2>1. Cur = cmds[1] /\ 1 \in DOMAIN cmds
    BY <1>2, HeadTodo
  <2>2. InPlace(Cur)
    BY <1>2, <2>1 DEF MergeInv, Working, Rest
  <2> QED BY <2>2, PlaceKey
<1> QED BY <1>1, <1>2 DEF Busy

\* The places of two files.
LEMMA FilePlaces ==
    ASSUME NEW p \in Files, NEW q \in Files, p # q
    PROVE  p \notin {q, Attic(q)} /\ Attic(p) \notin {q, Attic(q)}
<1>1. p \in Paths /\ q \in Paths
  BY FilePaths
<1> QED BY <1>1, AtticFacts

\* The batch is given up, or the next command is due, or a file is to be recorded,
\* or its old place to be cleared.
Goes ==
    \/ Fail
    \/ cmds' = Tail(cmds) /\ pc' = "apply"
    \/ cmds' = cmds /\ pc' = "unlink" /\ pc \in {"apply", "move"}
    \/ cmds' = cmds /\ pc' \in {"record", "move"} /\ pc = "apply"

\* An error takes back what is left of a batch, but nothing that was noted before.
LEMMA CommandGoes ==
    ASSUME IInv, Command
    PROVE  /\ Goes /\ cmds # <<>> /\ pc \in Busy
           /\ pc = "unlink" => Unlink
           /\ pc \in {"record", "move"} => RecordFile
           /\ edited' = edited /\ split \subseteq split' /\ known' = known
           /\ batch' = batch \/ Fail
<1>1. cmds # <<>>
  BY CommandQueues
<1>2. CASE MakeDir \/ RemoveDir \/ SetDirAttrs \/ RemoveFile \/ UpdateDead
            \/ CheckoutDead \/ SetAttrs \/ RecordCvs
  <2>1. /\ Fail \/ (cmds' = Tail(cmds) /\ pc' = "apply" /\ batch' = batch)
        /\ edited' = edited /\ split \subseteq split' /\ known' = known /\ pc = "apply"
    BY <1>2 DEF MakeDir, RemoveDir, SetDirAttrs, RemoveFile, UpdateDead, CheckoutDead,
       SetAttrs, RecordCvs, At, Consume, Limited, Deleted, NoFault, history
  <2> QED BY <1>1, <2>1 DEF Goes, Busy
<1>3. CASE Checkout \/ Diff \/ Rsync \/ Add \/ RcsFixup \/ RcsEdit \/ RcsEditFails
  <2>1. pc = "apply" /\ edited' = edited /\ split \subseteq split' /\ known' = known
    BY <1>3 DEF Checkout, Diff, Rsync, Add, RcsFixup, RcsEdit, RcsEditFails, AddFile,
       Patched, At, NoFault, history
  <2>2. ASSUME NEW good, UpdateFile(good) PROVE Goes /\ batch' = batch
    BY <2>1, <2>2, UpdateFileWays DEF Goes, UpdateFile
  <2>3. CASE Fail
    BY <1>1, <2>1, <2>3 DEF Goes, Busy
  <2>4. CASE Consume
    BY <1>1, <2>1, <2>4 DEF Goes, Busy, Consume
  <2>5. Fail \/ Consume \/ \E good : UpdateFile(good)
    BY <1>3 DEF Checkout, Diff, Rsync, Add, RcsFixup, RcsEdit, RcsEditFails, AddFile,
       Patched
  <2> QED BY <1>1, <2>1, <2>2, <2>3, <2>4, <2>5 DEF Busy
<1>4. CASE RecordFile
  <2>1. /\ pc \in {"record", "move"} /\ (batch' = batch \/ Fail)
        /\ edited' = edited /\ split \subseteq split' /\ known' = known
    BY <1>4 DEF RecordFile, NoFault, history
  <2>2. Goes
    BY <1>4 DEF RecordFile, NextOrUnlink, Goes
  <2> QED BY <1>1, <1>4, <2>1, <2>2 DEF Busy
<1>5. CASE Unlink
  <2>1. /\ cmds' = Tail(cmds) /\ pc' = "apply" /\ pc = "unlink" /\ batch' = batch
        /\ edited' = edited /\ split \subseteq split' /\ known' = known
    BY <1>5 DEF Unlink, NoFault, history
  <2> QED BY <1>1, <1>5, <2>1 DEF Goes, Busy
<1> QED BY <1>2, <1>3, <1>4, <1>5 DEF Command

\* What a command does to the disk, it does to the file it is about.
LEMMA CommandChanges ==
    ASSUME IInv, MergeInv, Command
    PROVE  \/ disk' = disk
           \/ /\ Cur.path \in Files
              /\ \E b \in BOOLEAN :
                   \/ disk' = Without(disk, Place(Cur.path, b))
                   \/ disk' = With(disk, Place(Cur.path, b), Cur.ver)
                   \/ disk' = [disk EXCEPT ![Place(Cur.path, b)] = Ver(@)]
<1>0. /\ cmds # <<>> /\ pc \in Busy
      /\ Cur.path \notin Files => Cur.cmd \in DirCmds
  BY CommandGoes, CurPlace
<1>1. CASE MakeDir \/ RemoveDir \/ SetDirAttrs \/ SetAttrs \/ RecordCvs \/ RcsEditFails
            \/ RecordFile
  <2>1. disk' = disk
    BY <1>1 DEF MakeDir, RemoveDir, SetDirAttrs, SetAttrs, RecordCvs, RcsEditFails,
       RecordFile, Fail, NeedFixup, disks
  <2> QED BY <2>1
<1>2. Place(Cur.path, FALSE) = Cur.path
  BY DEF Place
<1>3. CASE RemoveFile \/ UpdateDead \/ CheckoutDead
  <2>1. disk' = disk \/ disk' = Without(disk, Cur.path)
    BY <1>3 DEF RemoveFile, UpdateDead, CheckoutDead, Limited, Deleted, Fail, disks
  <2>2. Cur.cmd \notin DirCmds
    BY <1>3 DEF RemoveFile, UpdateDead, CheckoutDead, At, DirCmds
  <2> QED BY <1>0, <1>2, <2>1, <2>2
<1>4. \E b \in BOOLEAN : Dest = Place(Cur.path, b)
  <2> DEFINE b == Cur.cmd \in {"a", "x", "v"}
  <2>1. b \in BOOLEAN /\ Dest = Place(Cur.path, b)
    BY DEF Dest
  <2> HIDE DEF b
  <2> QED BY <2>1
<1>5. CASE Checkout \/ Diff \/ Rsync \/ Add \/ RcsFixup
  <2>1. (disk' = disk) \/ \E good : UpdateFile(good)
    BY <1>5 DEF Checkout, Diff, Rsync, Add, RcsFixup, AddFile, Patched, Fail, disks
  <2>2. disk' = disk \/ disk' = With(disk, Dest, Cur.ver)
    BY <2>1, UpdateFileWays
  <2>3. Cur.cmd \notin DirCmds
    BY <1>5 DEF Checkout, Diff, Rsync, Add, RcsFixup, At, DirCmds
  <2> QED BY <1>0, <1>4, <2>2, <2>3
<1>6. CASE RcsEdit
  <2>1. disk' = [disk EXCEPT ![Dest] = Ver(@)] \/ \E good : UpdateFile(good)
    BY <1>6 DEF RcsEdit
  <2>2. \/ disk' = disk \/ disk' = With(disk, Dest, Cur.ver)
        \/ disk' = [disk EXCEPT ![Dest] = Ver(@)]
    BY <2>1, UpdateFileWays
  <2>3. Cur.cmd \notin DirCmds
    BY <1>6 DEF RcsEdit, At, DirCmds
  <2> QED BY <1>0, <1>4, <2>2, <2>3
<1>7. CASE Unlink
  <2>1. \E b \in BOOLEAN : disk' = Without(disk, Place(Cur.path, b))
    BY <1>7 DEF Unlink
  <2>2. Cur.path \in Files
    BY <1>7, FilePaths DEF Unlink, IInv, Plan
  <2> QED BY <2>1, <2>2
<1> QED BY <1>1, <1>3, <1>5, <1>6, <1>7 DEF Command

\* Nothing happens to a place.
Kept(l) ==
    /\ l \in DOMAIN disk' <=> l \in DOMAIN disk
    /\ l \in DOMAIN disk => disk'[l] = disk[l]

\* All other files are left alone.
LEMMA CommandElsewhere ==
    ASSUME IInv, MergeInv, Command, NEW p \in Files, p # Cur.path
    PROVE  Kept(p) /\ Kept(Attic(p))
<1>1. CASE disk' = disk
  BY <1>1 DEF Kept
<1>2. CASE Cur.path \in Files /\ disk' # disk
  <2>1. PICK b \in BOOLEAN :
          \/ disk' = Without(disk, Place(Cur.path, b))
          \/ disk' = With(disk, Place(Cur.path, b), Cur.ver)
          \/ disk' = [disk EXCEPT ![Place(Cur.path, b)] = Ver(@)]
    BY <1>2, CommandChanges
  <2>2. p # Place(Cur.path, b) /\ Attic(p) # Place(Cur.path, b)
    BY <1>2, FilePlaces DEF Place
  <2> QED BY <2>1, <2>2 DEF Kept, Without, With
<1> QED BY <1>1, <1>2, CommandChanges

-----------------------------------------------------------------------------
(* Files in two places *)

\* A command leaves its file in two places only if it says so, or until the old
\* one is cleared.
LEMMA CommandTwice ==
    ASSUME IInv, MergeInv, OnePlace, Command, cvs, Cur.path \in Files \ split',
           Cur.path \in DOMAIN disk', Attic(Cur.path) \in DOMAIN disk'
    PROVE  pc' \in {"move", "unlink"} /\ cmds' = cmds
<1> DEFINE p == Cur.path
           a == Attic(p)
<1>1. cmds # <<>> /\ pc # "detail" /\ split \subseteq split'
  BY CommandGoes, CommandQueues
<1>2. p \in DOMAIN disk' /\ a \in DOMAIN disk'
  OBVIOUS
<1>3. p \in Files /\ p \notin split'
  OBVIOUS
<1>4. pc \in {"apply", "record"} => ~(p \in DOMAIN disk /\ a \in DOMAIN disk)
  BY <1>1, <1>3 DEF OnePlace, On
<1>5. a # p
  BY <1>3, FilePaths, AtticFacts
<1> HIDE DEF p, a
<1>6. CASE pc \in {"apply", "record"} /\ disk' = disk
  BY <1>2, <1>4, <1>6
<1>7. CASE RemoveFile \/ UpdateDead \/ CheckoutDead
  <2>1. pc = "apply" /\ (disk' = disk \/ disk' = Without(disk, p))
    BY <1>7 DEF RemoveFile, UpdateDead, CheckoutDead, Limited, Deleted, Fail, disks, At, p
  <2> QED BY <1>2, <1>6, <2>1 DEF Without
<1>8. CASE Checkout \/ Diff
  <2>1. Cur.cmd \in CheckoutCmds
    BY <1>8 DEF Checkout, Diff, At, CheckoutCmds
  <2> QED BY <2>1, CurFacts, CommandQueues
<1>9. CASE Rsync
  <2>1. pc = "apply" /\ Dest = p
    BY <1>9 DEF Rsync, At, Dest, Place, p
  <2>2. disk' = disk \/ (p \in DOMAIN disk /\ \E good : UpdateFile(good))
    BY <1>9 DEF Rsync, Patched, Fail, disks, On, p
  <2>3. disk' = disk \/ (p \in DOMAIN disk /\ disk' = With(disk, p, Cur.ver))
    BY <2>1, <2>2, UpdateFileWays
  <2> QED BY <1>2, <1>4, <1>5, <1>6, <2>1, <2>3 DEF With
<1>10. CASE Add \/ RcsFixup
  <2>1. PICK b \in BOOLEAN : AddFile(b) /\ Cur.cmd \in (IF b THEN {"a", "x"} ELSE {"A", "X"})
    BY <1>10 DEF Add, RcsFixup, At
  <2>2. pc = "apply" /\ Dest = Place(p, b)
    BY <1>10, <2>1 DEF Add, RcsFixup, At, Dest, p
  <2>3. PICK good \in BOOLEAN :
          /\ UpdateFile(good)
          /\ split' = IF good /\ On(Place(p, ~b)) THEN split \cup {p} ELSE split
    BY <2>1 DEF AddFile, p
  <2>4. CASE ~good
    <3>1. disk' = disk
      BY <2>3, <2>4 DEF UpdateFile, NeedFixup
    <3> QED BY <1>6, <2>2, <3>1
  <2>5. CASE good
    <3>1. disk' = With(disk, Place(p, b), Cur.ver)
      BY <2>2, <2>3, <2>5 DEF UpdateFile
    <3>2. Place(p, ~b) \notin DOMAIN disk
      BY <1>3, <2>3, <2>5 DEF On
    <3>3. Place(p, ~b) \notin DOMAIN disk'
      BY <1>5, <3>1, <3>2 DEF With, Place, a
    <3> QED BY <1>2, <3>3 DEF Place, a
  <2> QED BY <2>4, <2>5
<1>11. CASE RcsEdit
  <2>1. pc = "apply" /\ On(Orig)
    BY <1>11 DEF RcsEdit, At
  <2>2. disk' = [disk EXCEPT ![Dest] = Ver(@)] \/ \E good : UpdateFile(good)
    BY <1>11 DEF RcsEdit
  <2>3. CASE Moves
    <3>1. \E good : UpdateFile(good)
      BY <1>11, <2>3 DEF RcsEdit, Edits
    <3> QED BY <2>3, <3>1, UpdateFileWays
  <2>4. CASE ~Moves
    <3>1. Dest \in DOMAIN disk
      BY <1>11, <2>1, <2>4 DEF Moves, On, RcsEdit, At
    <3>2. \/ disk' = disk \/ disk' = With(disk, Dest, Cur.ver)
          \/ disk' = [disk EXCEPT ![Dest] = Ver(@)]
      BY <2>2, UpdateFileWays
    <3>3. DOMAIN disk' = DOMAIN disk
      BY <3>1, <3>2 DEF With
    <3> QED BY <1>2, <1>4, <2>1, <3>3
  <2> QED BY <2>3, <2>4
<1>12. CASE Unlink
  <2>1. \E b \in BOOLEAN : disk' = Without(disk, Place(p, b))
    BY <1>12 DEF Unlink, p
  <2> QED BY <1>2, <2>1 DEF Without, Place, a
<1>13. CASE MakeDir \/ RemoveDir \/ SetDirAttrs \/ SetAttrs \/ RecordCvs \/ RcsEditFails
  <2>1. disk' = disk /\ pc = "apply"
    BY <1>13 DEF MakeDir, RemoveDir, SetDirAttrs, SetAttrs, RecordCvs, RcsEditFails,
       Fail, NeedFixup, disks, At
  <2> QED BY <1>6, <2>1
<1>14. CASE RecordFile
  <2>1. disk' = disk /\ pc \in {"record", "move"}
    BY <1>14 DEF RecordFile, Fail, disks
  <2>2. CASE pc = "move"
    <3>1. Cur.cmd \in FileCmds
      BY <2>2 DEF IInv, Plan
    <3>2. Dest \in {p, a}
      BY <1>1, <3>1, DestPlace DEF p, a
    <3>3. On(Dest)
      BY <1>2, <2>1, <3>2 DEF On
    <3> QED BY <1>14, <2>2, <3>3 DEF RecordFile, NextOrUnlink
  <2> QED BY <1>6, <2>1, <2>2
<1> QED BY <1>7, <1>8, <1>9, <1>10, <1>11, <1>12, <1>13, <1>14 DEF Command

\* So a command leaves every other file in one place.
LEMMA CommandOnePlace ==
    ASSUME IInv, MergeInv, OnePlace, Command
    PROVE  OnePlace'
<1>1. split \subseteq split'
  BY CommandGoes
<1>2. cvs' = cvs /\ srv' = srv
  BY InputKept DEF Next, Run
<1>3. ~cvs => DOMAIN disk' \subseteq Files
  BY CommandDisk DEF OnePlace
<1>4. ASSUME NEW p \in Files \ split', p \in DOMAIN disk', Attic(p) \in DOMAIN disk'
      PROVE  pc' \in {"move", "unlink"} /\ p = Cur'.path
  <2>1. p \in Files /\ p \in Paths /\ p \notin split
    BY <1>1, <1>4, FilePaths
  <2>2. CASE p # Cur.path
    <3>1. p \in DOMAIN disk /\ Attic(p) \in DOMAIN disk
      BY <1>4, <2>1, <2>2, CommandElsewhere DEF Kept
    <3> QED BY <2>1, <2>2, <3>1 DEF OnePlace, On
  <2>3. CASE p = Cur.path
    <3>1. cvs
      BY <1>3, <1>4, <2>1, AtticFacts
    <3>2. pc' \in {"move", "unlink"} /\ cmds' = cmds
      BY <1>4, <2>3, <3>1, CommandTwice DEF On
    <3>3. Cur' = Cur
      BY <3>2 DEF Cur
    <3> QED BY <2>3, <3>2, <3>3
  <2> QED BY <2>2, <2>3
<1> QED BY <1>2, <1>3, <1>4 DEF OnePlace, On

\* And so does everything else, but a crash before the old place is cleared.
LEMMA OnePlaceStep == IInv /\ MergeInv /\ OnePlace /\ [Next]_vars => OnePlace'
<1> SUFFICES ASSUME IInv, MergeInv, OnePlace, [Next]_vars PROVE OnePlace'
  OBVIOUS
<1>1. cvs' = cvs
  BY InputKept
<1>2. ASSUME DOMAIN disk' \subseteq DOMAIN disk, split \subseteq split',
             \A p \in Files \ split' :
               On(p) /\ On(Attic(p)) /\ pc \in {"move", "unlink"} /\ p = Cur.path =>
                 pc' \in {"move", "unlink"} /\ p = Cur'.path
      PROVE  OnePlace'
  BY <1>1, <1>2 DEF OnePlace, On
<1>3. CASE Command
  BY <1>3, CommandOnePlace
<1>4. CASE UserEdits
  <2>1. DOMAIN disk' \subseteq DOMAIN disk
    BY <1>4 DEF UserEdits, Without
  <2> QED BY <1>2, <1>4, <2>1 DEF UserEdits, Cur
<1>5. CASE Crash
  <2>1. disk' = disk /\ split' = IF pc \in {"move", "unlink"} THEN split \cup {Cur.path} ELSE split
    BY <1>5 DEF Crash, disks
  <2> QED BY <1>2, <2>1
<1>6. CASE Start \/ RemoveStatus \/ Detail \/ Close \/ Flush \/ Again \/ LostConnection
  <2>1. disk' = disk /\ split' = split /\ pc \notin {"move", "unlink"}
    BY <1>6 DEF Start, RemoveStatus, Detail, Close, Flush, Again, LostConnection, Fail,
       NoFault, history, disks
  <2> QED BY <1>2, <2>1
<1>7. CASE UNCHANGED vars
  <2>1. disk' = disk /\ split' = split /\ pc' = pc /\ cmds' = cmds
    BY <1>7 DEF vars, disks, history
  <2> QED BY <1>2, <2>1 DEF Cur
<1> QED BY <1>3, <1>4, <1>5, <1>6, <1>7 DEF Next, Run

\* A tree has every file in one place.
LEMMA InitOnePlace == Init => OnePlace
<1> SUFFICES ASSUME Init PROVE OnePlace
  OBVIOUS
<1>1. PICK base \in Trees({"none", "live", "dead"}, {"v1"}) :
        disk = [l \in {Place(p, ~Live(base, p)) : p \in {q \in Files : Stored(base, q)}}
                  |-> "v1"]
  BY DEF Init
<1>2. \A l \in DOMAIN disk : \E p \in Files : Stored(base, p) /\ l = Place(p, ~Live(base, p))
  BY <1>1
<1>3. ASSUME NEW p \in Files, On(p), On(Attic(p)) PROVE FALSE
  <2>1. p \in Paths /\ Attic(p) \notin Files
    BY FilePaths, AtticFacts
  <2>2. PICK q \in Files : p = Place(q, ~Live(base, q))
    BY <1>2, <1>3 DEF On
  <2>3. PICK r \in Files : Attic(p) = Place(r, ~Live(base, r))
    BY <1>2, <1>3 DEF On
  <2>4. q \in Paths /\ r \in Paths /\ Attic(q) \notin Files
    BY FilePaths, AtticFacts
  <2>5. Live(base, q) /\ p = q
    BY <2>2, <2>4 DEF Place
  <2>6. ~Live(base, r) /\ Attic(p) = Attic(r)
    BY <2>1, <2>3 DEF Place
  <2>7. p = r
    BY <2>1, <2>4, <2>6, AtticFacts
  <2> QED BY <2>5, <2>6, <2>7
<1>4. ~cvs => DOMAIN disk \subseteq Files
  BY <1>2 DEF Stored, Place
<1> QED BY <1>3, <1>4 DEF OnePlace

-----------------------------------------------------------------------------
(* Requests, details and answers *)

\* The list for the status file names files and directories as such.
LEMMA ListNamed ==
    ASSUME IInv, MergeInv
    PROVE  LET w == Walk(stat.recs)
           IN /\ w.out \in Seq(Items) /\ Named(w.out)
              /\ Lists(w.out, stat.recs, Len(stat.recs))
<1>1. TypeOK /\ stat.recs \in Seq(Good) /\ Linked(<<>>, stat.recs)
  BY DEF IInv, MergeInv, Tidy
<1>2. Walk(stat.recs) \in Walks /\ Lists(Walk(stat.recs).out, stat.recs, Len(stat.recs))
  BY <1>1, WalkNames
<1> QED BY <1>2 DEF Walks, Lists, Named

\* What is requested for it is what the server has.
LEMMA RequestsMeant ==
    ASSUME IInv, MergeInv
    PROVE  \A i \in DOMAIN Requests(Walk(stat.recs).out) : Meant(Requests(Walk(stat.recs).out)[i])
<1> DEFINE list == Walk(stat.recs).out
           q == Requests(list)
<1>1. Range(q) = RequestSet(list)
  <2>1. list \in Seq(Items) /\ Named(list) /\ TypeOK /\ Plan
    BY ListNamed DEF IInv
  <2> HIDE DEF list
  <2> QED BY <2>1, RequestsInOrder
<1> HIDE DEF q, list
<1>2. ASSUME NEW c \in RequestSet(list) PROVE Meant(c)
  <2>1. Wanted(c, Range(list), ListedDirs(list)) /\ Filled(c)
    BY RequestWanted
  <2>2. c.cmd \in {"U", "T", "t"} => c.ver = SrvAttr(c.path)
    <3> DEFINE v == IF c.cmd \in {"U", "T", "t"} THEN SrvAttr(c.path) ELSE ""
               x == Cmd(c.cmd, c.path, v, "")
    <3>1. x.ver = v
      BY DEF Cmd
    <3>2. c = x
      BY <2>1 DEF Filled
    <3>3. c.ver = v
      <4> HIDE DEF x, v
      <4> QED BY <3>1, <3>2
    <3> QED BY <3>3
  <2> QED BY <2>1, <2>2 DEF Wanted, Meant
<1>3. \A i \in DOMAIN q : q[i] \in Range(q)
  BY DEF Range
<1> QED BY <1>1, <1>2, <1>3 DEF q, list

\* What the detailer says of a file is what is there.
Seen(d, q) ==
    /\ d.path = q.path
    /\ q.cmd = "U" => d.cmd \in {"C", "U", "S"} /\ (d.cmd # "C" => On(q.path))
    /\ q.cmd \in {"T", "t"} =>
         /\ d.cmd \in {"A", "r", "V", "L", "l"}
         /\ d.cmd = "L" => q.cmd = "T" /\ On(q.path) /\ disk[q.path] = q.ver /\ d.ver = q.ver
         /\ d.cmd = "l" => /\ q.cmd = "t" /\ On(Attic(q.path)) /\ d.ver = q.ver
                           /\ disk[Attic(q.path)] = q.ver
         /\ d.cmd = "V" => d.from = Ver(disk[Existing(q.path)])
    /\ q.cmd \notin {"U", "T", "t"} => d = q

\* The detailer says so.
LEMMA DetailTold ==
    ASSUME NEW d, NEW q, NEW valid, IsDetail(d, q, valid)
    PROVE  Seen(d, q)
<1>2. CASE q.cmd = "U"
  <2>1. PICK sr : d = DetailCheckout(q, sr)
    BY <1>2 DEF IsDetail
  <2>2. d.path = q.path /\ d.cmd \in {"C", "U", "S"} /\ (d.cmd # "C" => On(q.path))
    BY <2>1 DEF DetailCheckout, Cmd
  <2> QED BY <1>2, <2>2 DEF Seen
<1>3. CASE q.cmd \in {"T", "t"}
  <2> DEFINE place == Place(q.path, q.cmd = "t")
             Says(x) == /\ x.path = q.path /\ x.cmd \in {"A", "r", "V", "L", "l"}
                        /\ x.cmd = "L" => q.cmd = "T" /\ On(place) /\ disk[place] = q.ver
                                          /\ x.ver = q.ver
                        /\ x.cmd = "l" => q.cmd = "t" /\ On(place) /\ disk[place] = q.ver
                                          /\ x.ver = q.ver
                        /\ x.cmd = "V" => x.from = Ver(disk[Existing(q.path)])
  <2>1. Says(DetailRegular(q))
    BY DEF DetailRegular, Cmd
  <2>2. Says(DetailRcs(q, valid))
    BY <2>1 DEF DetailRcs, Cmd
  <2>3. Says(DetailCvs(q, valid))
    BY <1>3, <2>1, <2>2 DEF DetailCvs, Cmd
  <2>4. d = DetailCvs(q, valid)
    BY <1>3 DEF IsDetail
  <2>5. Says(d)
    BY <2>3, <2>4
  <2>6. /\ q.cmd = "t" => place = Attic(q.path)
        /\ q.cmd = "T" => place = q.path
    BY DEF Place
  <2> QED BY <1>3, <2>5, <2>6 DEF Seen
<1>4. CASE q.cmd \notin {"U", "T", "t"}
  <2>1. d = q
    BY <1>4 DEF IsDetail
  <2> QED BY <1>4, <2>1 DEF Seen
<1> QED BY <1>2, <1>3, <1>4

\* What the server answers.
LEMMA AnswerApt ==
    ASSUME IInv, NEW q \in Requested, Meant(q), NEW d \in DetailSet, Seen(d, q)
    PROVE  Apt(Answer(d)) /\ Answer(d).path = q.path
<1> DEFINE p == d.path
           To(c, f) == Cmd(c, p, SrvAttr(p), f)
           a == Answer(d)
<1>0. p = q.path /\ a.path = p
  BY AnswerStands DEF Stands, Seen
<1>1. \A c, f : To(c, f).cmd = c /\ To(c, f).path = p
  BY DEF Cmd
<1> HIDE DEF To
<1>2. CASE d.cmd \in {"C", "U", "S"}
  <2>1. CASE Live(srv, p)
    <3>1. \E c \in {"C", "U", "T"} : \E f : a = To(c, f)
      BY <1>2, <2>1 DEF Answer, To
    <3>2. a.cmd \in {"C", "U", "T"} /\ a.path = p
      BY <1>1, <3>1
    <3> HIDE DEF a, p
    <3> QED BY <1>0, <2>1, <3>2 DEF Apt, a
  <2>2. CASE ~Live(srv, p)
    <3>1. \E c \in {"c", "u"} : \E f : a = To(c, f)
      BY <1>2, <2>2 DEF Answer, To
    <3>2. a.cmd \in {"c", "u"} /\ a.path = p
      BY <1>1, <3>1
    <3> HIDE DEF a, p
    <3> QED BY <1>0, <2>2, <3>2 DEF Apt, a
  <2> QED BY <2>1, <2>2
<1>3. CASE d.cmd \in {"A", "V", "r"}
  <2>1. \E f : a = To(IF Live(srv, p) THEN d.cmd ELSE IF d.cmd = "V" THEN "v" ELSE "a", f)
    BY <1>3 DEF Answer, To
  <2>2. /\ a.cmd = IF Live(srv, p) THEN d.cmd ELSE IF d.cmd = "V" THEN "v" ELSE "a"
        /\ a.path = p
    BY <1>1, <2>1
  <2>3. CASE Live(srv, p)
    <3>1. a.cmd \in {"A", "V", "r"}
      BY <1>3, <2>2, <2>3
    <3> HIDE DEF a, p
    <3> QED BY <1>0, <2>2, <2>3, <3>1 DEF Apt, a
  <2>4. CASE ~Live(srv, p)
    <3>1. a.cmd \in {"v", "a"}
      BY <2>2, <2>4
    <3> HIDE DEF a, p
    <3> QED BY <1>0, <2>2, <2>4, <3>1 DEF Apt, a
  <2> QED BY <2>3, <2>4
<1>4. CASE d.cmd \in {"L", "l"}
  <2>1. a = d
    BY <1>4 DEF Answer
  <2>2. q.cmd \in {"T", "t"} /\ d.ver = q.ver /\ (d.cmd = "L" <=> q.cmd = "T")
    <3>1. q.cmd \in {"T", "t"}
      <4>1. q.cmd \notin {"U", "T", "t"} => q.cmd \in DirCmds \cup {"D"} /\ d = q
        BY DEF Requested, Seen
      <4>2. q.cmd = "U" => d.cmd \in {"C", "U", "S"}
        BY DEF Seen
      <4> QED BY <1>4, <4>1, <4>2 DEF DirCmds
    <3> QED BY <1>4, <3>1 DEF Seen
  <2>3. q.ver = SrvAttr(p) /\ (q.cmd = "T" => Live(srv, p)) /\ (q.cmd = "t" => ~Live(srv, p))
    BY <1>0, <2>2 DEF Meant
  <2>4. cvs /\ Has(srv, p)
    BY <1>0, <2>2 DEF Requested, Served
  <2>5. d.ver = srv[p].ver
    BY <2>2, <2>3, <2>4 DEF SrvAttr, Stored
  <2> QED BY <1>0, <1>4, <2>1, <2>2, <2>3, <2>5 DEF Apt
<1>5. CASE d.cmd \in DirCmds \cup {"D"}
  <2>1. a = d
    BY <1>5 DEF Answer, DirCmds
  <2>2. d = q
    <3>1. q.cmd \notin {"U", "T", "t"}
      BY <1>5 DEF Seen, DirCmds
    <3> QED BY <3>1 DEF Seen
  <2> QED BY <1>0, <1>5, <2>1, <2>2 DEF Apt, Meant, DirCmds
<1>6. d.cmd \in DirCmds \cup {"D"} \cup DetailCmds
  BY DEF DetailSet
<1> QED BY <1>0, <1>2, <1>3, <1>4, <1>5, <1>6 DEF DetailCmds

\* The details of all requests, and the answers.
LEMMA DetailAnswers ==
    ASSUME IInv, MergeInv, Asked, Detail
    PROVE  /\ DOMAIN cmds' = DOMAIN cmds
           /\ \A i \in DOMAIN cmds : \E d \in DetailSet :
                /\ cmds[i] \in Requested /\ Meant(cmds[i]) /\ Seen(d, cmds[i])
                /\ cmds'[i] = Answer(d)
<1>1. TypeOK /\ Book /\ pc = "detail"
  BY DEF IInv, Detail
<1>2. cmds \in Seq(Requested)
  BY <1>1 DEF IInv, Plan
<1>3. PICK valid \in BOOLEAN : cmds' = [i \in DOMAIN Details(valid) |-> Answer(Details(valid)[i])]
  BY DEF Detail
<1> DEFINE ds == Details(valid)
<1>4. /\ ds \in Seq(DetailSet) /\ DOMAIN ds = DOMAIN cmds
      /\ \A i \in DOMAIN cmds : IsDetail(ds[i], cmds[i], valid)
  BY <1>1, <1>2, DetailsAre
<1>5. cmds' = [i \in DOMAIN ds |-> Answer(ds[i])]
  BY <1>3
<1> HIDE DEF ds
<1>6. ASSUME NEW i \in DOMAIN cmds
      PROVE  /\ ds[i] \in DetailSet /\ cmds[i] \in Requested /\ Meant(cmds[i])
             /\ Seen(ds[i], cmds[i]) /\ cmds'[i] = Answer(ds[i])
  <2>1. ds[i] \in DetailSet /\ cmds[i] \in Requested
    BY <1>2, <1>4
  <2>2. Meant(cmds[i])
    BY <1>1 DEF Asked
  <2> QED BY <1>4, <1>5, <2>1, <2>2, DetailTold
<1> QED BY <1>4, <1>5, <1>6

\* Fixups are sent for files of the server.
LEMMA FixupsApt ==
    ASSUME IInv, Asked
    PROVE  \A i \in DOMAIN FixupCmds : Apt(FixupCmds[i])
<1> SUFFICES ASSUME NEW i \in DOMAIN fixups PROVE Apt(FixupCmds[i])
  BY DEF FixupCmds
<1>1. FixupCmds[i] = Cmd(IF ~cvs THEN "Y" ELSE IF Live(srv, fixups[i]) THEN "X" ELSE "x",
                         fixups[i], srv[fixups[i]].ver, "")
  BY DEF FixupCmds
<1>2. ~cvs => Live(srv, fixups[i])
  BY DEF Asked, Range
<1> DEFINE c == FixupCmds[i]
<1> DEFINE t == IF ~cvs THEN "Y" ELSE IF Live(srv, fixups[i]) THEN "X" ELSE "x"
           e == Cmd(t, fixups[i], srv[fixups[i]].ver, "")
<1>3. e.path = fixups[i] /\ e.cmd = t /\ c = e
  BY <1>1 DEF Cmd
<1> HIDE DEF c, e
<1>4. Apt(c)
  <2>1. CASE Live(srv, c.path)
    <3>1. c.cmd \in {"Y", "X"}
      BY <1>3, <2>1
    <3> QED BY <2>1, <3>1 DEF Apt
  <2>2. CASE ~Live(srv, c.path)
    <3>1. c.cmd = "x"
      BY <1>2, <1>3, <2>2
    <3> QED BY <2>2, <3>1 DEF Apt
  <2> QED BY <2>1, <2>2
<1> QED BY <1>4 DEF c

\* In checkout mode only the transfer of a file that the server has alive is repeated.
LEMMA CommandFixups ==
    ASSUME IInv, Asked, Command, ~cvs, fixups' # fixups
    PROVE  Live(srv, Cur.path) /\ fixups' = Append(fixups, Cur.path)
<1>1. pc # "detail" /\ cmds # <<>> /\ fixups' = Append(fixups, Cur.path)
  BY CommandQueues
<1>2. Cur = cmds[1] /\ 1 \in DOMAIN cmds
  BY <1>1, HeadTodo
<1>3. Apt(Cur)
  BY <1>1, <1>2 DEF Asked
<1>4. CASE Checkout \/ Diff
  <2>1. Cur.cmd \in {"C", "Y", "U"}
    BY <1>4 DEF Checkout, Diff, At
  <2> QED BY <1>1, <1>3, <2>1 DEF Apt
<1>5. CASE Rsync \/ Add \/ RcsFixup \/ RcsEdit \/ RcsEditFails
  <2>1. Cur.cmd \in CvsCmds
    BY <1>5 DEF Rsync, Add, RcsFixup, RcsEdit, RcsEditFails, At, CvsCmds
  <2> QED BY <1>1, <2>1, CurFacts
<1>6. CASE MakeDir \/ RemoveDir \/ SetDirAttrs \/ RemoveFile \/ UpdateDead
            \/ CheckoutDead \/ SetAttrs \/ RecordCvs \/ RecordFile \/ Unlink
  <2>1. fixups' = fixups
    BY <1>6 DEF MakeDir, RemoveDir, SetDirAttrs, RemoveFile, UpdateDead,
     CheckoutDead, SetAttrs, RecordCvs, RecordFile, Unlink, Consume, Fail, Limited, Deleted
  <2> QED BY <2>1
<1> QED BY <1>4, <1>5, <1>6 DEF Command

\* Requests, answers and fixups keep to the server's tree.
LEMMA AskedStep == IInv /\ MergeInv /\ Asked /\ [Next]_vars => Asked'
<1> SUFFICES ASSUME IInv, MergeInv, Asked, [Next]_vars PROVE Asked'
  OBVIOUS
<1>1. cvs' = cvs /\ srv' = srv
  BY InputKept
<1>2. /\ \A c : Apt(c)' <=> Apt(c)
      /\ \A c : Meant(c)' <=> Meant(c)
      /\ \A p : Live(srv, p)' <=> Live(srv, p)
  BY <1>1 DEF Apt, Meant, Live, Has, SrvAttr, Stored
<1> DEFINE Fine == /\ \A i \in DOMAIN cmds' : IF pc' = "detail" THEN Meant(cmds'[i])
                                              ELSE Apt(cmds'[i])
                   /\ ~cvs => \A p \in Range(fixups') : Live(srv, p)
<1>3. Fine => Asked'
  BY <1>1, <1>2 DEF Asked, Apt, Meant, Live, Has, SrvAttr, Stored
<1>4. /\ ~cvs => \A p \in Range(fixups) : Live(srv, p)
      /\ Range(<<>>) = {} /\ DOMAIN <<>> = {}
  BY DEF Asked, Range
<1>5. CASE Start
  <2>1. cmds' = Requests(Walk(stat.recs).out) /\ pc' = "detail" /\ fixups' = fixups
    BY <1>5 DEF Start
  <2>2. Fine
    BY <1>4, <2>1, RequestsMeant
  <2> QED BY <1>3, <2>2
<1>6. CASE Detail
  <2>1. pc' = "apply" /\ fixups' = fixups
    BY <1>6 DEF Detail
  <2>2. \A i \in DOMAIN cmds' : Apt(cmds'[i])
    BY <1>6, DetailAnswers, AnswerApt
  <2> QED BY <1>3, <1>4, <2>1, <2>2
<1>7. CASE Command
  <2>1. /\ pc # "detail" /\ cmds # <<>>
        /\ \/ cmds' = Tail(cmds) /\ pc' = "apply"
           \/ cmds' = <<>> /\ pc' = "apply"
           \/ cmds' = cmds /\ pc' # "detail"
    BY <1>7, CommandQueues DEF Staying
  <2>2. \A i \in DOMAIN cmds : Apt(cmds[i])
    BY <2>1 DEF Asked
  <2>3. \A i \in DOMAIN cmds' : Apt(cmds'[i])
    <3>1. cmds \in Seq(Todo)
      BY <2>1 DEF IInv, Plan
    <3>2. \A i \in DOMAIN Tail(cmds) : i + 1 \in DOMAIN cmds /\ Tail(cmds)[i] = cmds[i + 1]
      BY <2>1, <3>1
    <3> QED BY <1>4, <2>1, <2>2, <3>2
  <2>4. ~cvs => \A p \in Range(fixups') : Live(srv, p)
    <3> SUFFICES ASSUME ~cvs, fixups' # fixups
                 PROVE  \A p \in Range(fixups') : Live(srv, p)
      BY <1>4
    <3>1. Live(srv, Cur.path) /\ fixups' = Append(fixups, Cur.path)
      BY <1>7, CommandFixups
    <3>2. Range(fixups') = Range(fixups) \cup {Cur.path}
      <4>1. fixups \in Seq(Files)
        BY DEF IInv, TypeOK
      <4> QED BY <3>1, <4>1, RangeAppend
    <3> QED BY <1>4, <3>1, <3>2
  <2> QED BY <1>3, <2>1, <2>3, <2>4
<1>8. CASE Close \/ Flush
  <2>1. pc' # "detail" /\ pc # "detail"
    BY <1>8 DEF Close, Flush, NextBatch
  <2>2. \/ cmds' = cmds /\ fixups' = fixups
        \/ cmds' = FixupCmds /\ fixups' = <<>>
    BY <1>8 DEF Close, Flush, NextBatch
  <2>3. Fine
    BY <1>4, <2>1, <2>2, FixupsApt DEF Asked
  <2> QED BY <1>3, <2>3
<1>9. CASE Again \/ Crash
  <2>1. cmds' = <<>> /\ fixups' = <<>>
    BY <1>9 DEF Again, Crash, Reset
  <2> QED BY <1>3, <1>4, <2>1
<1>10. CASE LostConnection
  <2>1. cmds' = <<>> /\ fixups' = fixups
    BY <1>10 DEF LostConnection, Fail
  <2> QED BY <1>3, <1>4, <2>1
<1>11. CASE RemoveStatus \/ UserEdits \/ UNCHANGED vars
  <2>1. pc' = pc /\ cmds' = cmds /\ fixups' = fixups
    BY <1>11 DEF RemoveStatus, UserEdits, vars
  <2> QED BY <1>3, <2>1 DEF Asked
<1> QED BY <1>5, <1>6, <1>7, <1>8, <1>9, <1>10, <1>11 DEF Next, Run

\* No other command is about the same file.
LEMMA OtherPaths ==
    ASSUME IInv, MergeInv, pc \in Busy \ {"unlink"}, cmds # <<>>, Cur.path \in Files
    PROVE  \A i \in DOMAIN Tail(cmds) : Tail(cmds)[i].path # Cur.path
<1>1. cmds \in Seq(Todo) /\ Cur = cmds[1] /\ 1 \in DOMAIN cmds
  BY HeadTodo DEF IInv, Plan, Busy
<1>2. \A i \in DOMAIN Tail(cmds) : i + 1 \in DOMAIN cmds /\ Tail(cmds)[i] = cmds[i + 1] /\ 1 < i + 1
  BY <1>1, TailIs
<1>3. ASSUME NEW i \in DOMAIN Tail(cmds) PROVE Tail(cmds)[i].path # Cur.path
  <2> DEFINE c == Tail(cmds)[i]
  <2>1. RecLess(CmdKey(Cur), CmdKey(c)) /\ InPlace(c)
    BY <1>1, <1>2 DEF MergeInv, Working, Orderly, Rest, Busy
  <2>2. InPlace(Cur) /\ (Cur.cmd \in DirCmds <=> Cur.path \notin Files)
    BY CurPlace
  <2> HIDE DEF c
  <2>3. ASSUME c.path = Cur.path PROVE FALSE
    <3>1. c.cmd \notin DirCmds /\ Cur.cmd \notin DirCmds /\ c.path \in Paths
          /\ CmdKey(c) \in Recs /\ CmdKey(Cur) \in Recs
      BY <2>1, <2>2, <2>3, PlaceKey
    <3>2. Key(c.path, FALSE) = CmdKey(c) /\ Key(Cur.path, FALSE) = CmdKey(Cur)
      BY <2>1, <2>2, <3>1, PlaceKey
    <3>3. Same(CmdKey(Cur), CmdKey(c))
      BY <2>3, <3>2 DEF Same
    <3> QED BY <2>1, <3>1, <3>3, LessIrreflexive
  <2> QED BY <2>3 DEF c
<1> QED BY <1>3

\* The commands after that of a file that is being moved.
LEMMA OthersStep == IInv /\ MergeInv /\ Others /\ [Next]_vars => Others'
<1> SUFFICES ASSUME IInv, MergeInv, [Next]_vars, Others, pc' = "unlink" PROVE Others'
  BY DEF Others
<1>1. CASE Command
  <2>1. cmds # <<>> /\ pc \in Busy \ {"unlink"} /\ cmds' = cmds
    <3>1. Goes /\ cmds # <<>> /\ pc \in Busy
      BY <1>1, CommandGoes
    <3>2. pc # "unlink"
      BY <1>1, <3>1, CommandGoes DEF Unlink
    <3>3. ~Fail
      BY DEF Fail
    <3> QED BY <3>1, <3>2, <3>3 DEF Goes
  <2>4. \A i \in DOMAIN Tail(cmds) : Tail(cmds)[i].path # Cur.path
    <3>1. Cur.path \in Files
      BY <1>1, <2>1, CommandQueues, FilePaths DEF Staying
    <3> QED BY <2>1, <3>1, OtherPaths
  <2>5. Rest' = Tail(cmds) /\ Cur' = Cur
    BY <2>1 DEF Rest, Cur
  <2> QED BY <2>4, <2>5 DEF Others
<1>2. CASE UserEdits \/ UNCHANGED vars
  <2>1. pc' = pc /\ cmds' = cmds
    BY <1>2 DEF UserEdits, vars
  <2>2. Rest' = Rest /\ Cur' = Cur
    BY <2>1 DEF Rest, Cur
  <2> QED BY <2>1, <2>2 DEF Others
<1>3. CASE Start \/ RemoveStatus \/ Detail \/ Close \/ Flush \/ Again \/ Crash \/ LostConnection
  <2>1. pc' # "unlink"
    BY <1>3 DEF Start, RemoveStatus, Detail, Close, Flush, NextBatch, Again, Crash,
       LostConnection, Fail
  <2> QED BY <2>1
<1> QED BY <1>1, <1>2, <1>3 DEF Next, Run

\* A command that is not to be repeated leaves the queue alone.
LEMMA CommandClean ==
    ASSUME IInv, Command
    PROVE  /\ clean' => clean
           /\ batch = "fixups" => fixups' = fixups
<1>0. clean \in BOOLEAN
  BY DEF IInv, TypeOK
<1>1. CASE MakeDir \/ RemoveDir \/ SetDirAttrs \/ RemoveFile \/ UpdateDead
            \/ CheckoutDead \/ SetAttrs \/ RecordCvs \/ RecordFile \/ Unlink
  <2>1. fixups' = fixups /\ (clean' = clean \/ clean' = FALSE)
    BY <1>1 DEF MakeDir, RemoveDir, SetDirAttrs, RemoveFile, UpdateDead, CheckoutDead,
       SetAttrs, RecordCvs, RecordFile, Unlink, Fail, Limited, Deleted
  <2> QED BY <1>0, <2>1
<1>2. ASSUME NeedFixup PROVE (clean' => clean) /\ (batch = "fixups" => fixups' = fixups)
  BY <1>0, <1>2 DEF NeedFixup
<1>3. ASSUME Fail PROVE (clean' => clean) /\ (batch = "fixups" => fixups' = fixups)
  BY <1>3 DEF Fail
<1>4. ASSUME NEW good, UpdateFile(good)
      PROVE  (clean' => clean) /\ (batch = "fixups" => fixups' = fixups)
  BY <1>0, <1>2, <1>4 DEF UpdateFile
<1>5. CASE Checkout
  BY <1>4, <1>5 DEF Checkout
<1>6. CASE Diff \/ Rsync
  BY <1>3, <1>4, <1>6 DEF Diff, Rsync, Patched
<1>7. CASE Add \/ RcsFixup
  BY <1>4, <1>7 DEF Add, RcsFixup, AddFile
<1>8. CASE RcsEdit
  <2>1. \/ \E good : UpdateFile(good)
        \/ fixups' = fixups /\ clean' = clean
    BY <1>8 DEF RcsEdit
  <2> QED BY <1>0, <1>4, <2>1
<1>9. CASE RcsEditFails
  BY <1>2, <1>3, <1>9 DEF RcsEditFails
<1> QED BY <1>1, <1>5, <1>6, <1>7, <1>8, <1>9 DEF Command

\* As long as nothing has to be written, nothing has changed.
LEMMA CommandWrites ==
    ASSUME IInv, MergeInv, Command
    PROVE  stat' = stat /\ (~st'.dirty => ~st.dirty /\ want' = want)
<1>1. cmds # <<>> /\ pc \in Busy /\ (pc = "unlink" => Unlink) /\ pc # "detail"
  BY CommandGoes, CommandQueues
<1>2. stat' = stat
  <2>1. raced \subseteq raced'
    BY RacedGrows DEF Next, Run
  <2> QED BY <2>1, CommandBook
<1>3. CASE pc = "unlink"
  <2>1. st' = st /\ want' = want
    BY <1>1, <1>3 DEF Unlink
  <2> QED BY <1>2, <2>1
<1>4. CASE pc # "unlink"
  <2>1. InPlace(Cur)
    BY <1>1, CurPlace
  <2>2. Outcome
    BY <1>4, <2>1, CommandEffect
  <2>3. CASE Effect(Cur, st, want, st', want')
    <3>1. cmds \in Seq(Todo) /\ Todo \subseteq Cmds
      BY <1>1 DEF IInv, Plan, Todo
    <3>2. cmds \in Seq(Cmds) /\ Cur = Head(cmds)
      BY <3>1 DEF Cur
    <3>3. Working(st, want, cmds)
      BY <1>1, <1>4 DEF MergeInv, Rest, Busy
    <3>4. ~st'.dirty => ~st.dirty /\ want' = want
      BY <1>1, <2>3, <3>2, <3>3, WorkOn
    <3> QED BY <1>2, <3>4
  <2>4. CASE cmds' = <<>> /\ st' = st /\ want' = want
    BY <1>2, <2>4
  <2> QED BY <2>2, <2>3, <2>4 DEF Outcome
<1> QED BY <1>3, <1>4

\* The status file to be written is the one the updater was to make.
LEMMA WrittenStep == IInv /\ MergeInv /\ Written /\ [Next]_vars => Written'
<1> SUFFICES ASSUME IInv, MergeInv, Written, [Next]_vars PROVE Written'
  OBVIOUS
<1> DEFINE Same4 == /\ batch' = "failed" => ~clean'
                    /\ batch' = "fixups" => fixups' = <<>>
<1>0. OpenStatus(stat) /\ stat' = stat => want' = FileRecs(stat'.recs)
  BY DEF OpenStatus
<1>1. CASE Command
  <2>1. /\ pc \in Busy /\ (batch' = batch \/ Fail) /\ (clean' => clean)
        /\ (batch = "fixups" => fixups' = fixups) /\ pc' \in Busy
    BY <1>1, CommandGoes, CommandClean, CommandQueues DEF Staying, Busy
  <2>2. stat' = stat /\ (~st'.dirty => ~st.dirty /\ want' = want)
    BY <1>1, CommandWrites
  <2>3. Same4
    BY <2>1 DEF Written, Fail
  <2>4. ~st'.dirty => want' = FileRecs(stat'.recs)
    BY <2>1, <2>2 DEF Written
  <2> QED BY <2>1, <2>3, <2>4 DEF Written, Busy
<1>2. CASE Start \/ RemoveStatus
  <2>1. pc' \in {"idle", "detail"} /\ batch' = batch /\ fixups' = fixups /\ clean' = clean
    BY <1>2 DEF Start, RemoveStatus
  <2> QED BY <2>1 DEF Written, Busy
<1>3. CASE Detail
  <2>1. /\ pc' = "apply" /\ OpenStatus(stat) /\ stat' = stat /\ batch' = batch
        /\ fixups' = fixups /\ clean' = clean
    BY <1>3 DEF Detail
  <2> QED BY <1>0, <2>1 DEF Written, Busy
<1>4. ASSUME NextBatch(stat), stat' = stat, clean' = clean PROVE Written'
  <2>1. CASE batch # "updates"
    BY <1>4, <2>1 DEF NextBatch, Written, Busy
  <2>2. CASE batch' = "fixups" /\ fixups' = <<>> /\ OpenStatus(stat) /\ pc' = "apply"
    BY <1>0, <1>4, <2>2 DEF Written, Busy
  <2> QED BY <1>4, <2>1, <2>2 DEF NextBatch
<1>5. CASE Close
  <2> DEFINE s == Finish(st)
  <2>1. clean' = clean /\ pc = "apply" /\ cmds = <<>>
    BY <1>5 DEF Close
  <2>2. CASE NextBatch(stat) /\ stat' = stat
    BY <1>4, <2>1, <2>2
  <2>3. CASE pc' = "aborted" /\ batch' = batch /\ fixups' = fixups
    BY <2>1, <2>3 DEF Written, Busy
  <2>4. CASE /\ ~s.abort /\ pc' = "flush"
             /\ stat' = [scan |-> st.scan, recs |-> s.out, whole |-> TRUE]
             /\ batch' = batch /\ want' = want /\ fixups' = fixups
    <3>1. Working(st, want, cmds)
      BY <2>1 DEF MergeInv, Rest
    <3>2. Merged(st) /\ FileRecs(st.out \o Left(st)) = want
      BY <3>1 DEF Working
    <3>3. FileRecs(s.out) = want
      BY <2>4, <3>2, FinishMerged
    <3>4. stat'.recs = s.out
      BY <2>4
    <3> QED BY <2>1, <2>4, <3>3, <3>4 DEF Written, Busy
  <2> QED BY <1>5, <2>2, <2>3, <2>4 DEF Close
<1>6. CASE Flush
  BY <1>4, <1>6 DEF Flush
<1>7. CASE Again \/ Crash
  <2>1. pc' = "idle" /\ batch' = "updates"
    BY <1>7 DEF Again, Crash, Reset
  <2> QED BY <2>1 DEF Written, Busy
<1>8. CASE LostConnection
  <2>1. /\ pc = "apply" /\ pc' = pc /\ st' = st /\ want' = want /\ stat' = stat
        /\ batch' = "failed" /\ clean' = FALSE
    BY <1>8 DEF LostConnection, Fail
  <2> QED BY <2>1 DEF Written, Busy
<1>9. CASE UserEdits \/ UNCHANGED vars
  <2>1. /\ pc' = pc /\ st' = st /\ want' = want /\ stat' = stat /\ batch' = batch
        /\ clean' = clean /\ fixups' = fixups
    BY <1>9 DEF UserEdits, vars
  <2> QED BY <2>1 DEF Written
<1> QED BY <1>1, <1>2, <1>3, <1>5, <1>6, <1>7, <1>8, <1>9 DEF Next, Run

-----------------------------------------------------------------------------
(* Files that are not asked for *)

\* An item of a list by its fields.
LEMMA ItemIs ==
    ASSUME NEW t, NEW p, NEW a, NEW r, Report(r) = Item(t, p, a)
    PROVE  /\ r.path = p
           /\ LET place == Place(p, r.type = "v")
              IN \/ r.type = "C" /\ t = "F"
                    /\ (a # Bogus => On(p) /\ disk[p] = r.attr /\ a = r.ver)
                 \/ r.type = "c" /\ t = "F" /\ On(p) /\ a = Bogus
                 \/ r.type = "c" /\ t = "f" /\ ~On(p) /\ a = r.ver
                 \/ /\ r.type \notin {"C", "c"} /\ On(place)
                    /\ t = IF r.type = "v" THEN "f" ELSE "F"
                    /\ (a # Bogus => a = disk[place] /\ a = r.attr)
                 \/ r.type \notin {"C", "c"} /\ t = "F" /\ a = Bogus
<1>1. \A t1, p1, a1 : /\ Item(t1, p1, a1).type = t1 /\ Item(t1, p1, a1).path = p1
                      /\ Item(t1, p1, a1).attr = a1
  BY DEF Item
<1>2. /\ Report(r).type = t /\ Report(r).path = p /\ Report(r).attr = a
  BY <1>1
<1>3. r.path = p
  BY <1>2, ReportFile
<1>4. CASE r.type = "C"
  <2>1. Report(r) = Item("F", p, IF On(p) /\ disk[p] = r.attr THEN r.ver ELSE Bogus)
    BY <1>3, <1>4 DEF Report
  <2>2. t = "F" /\ a = IF On(p) /\ disk[p] = r.attr THEN r.ver ELSE Bogus
    BY <1>1, <1>2, <2>1
  <2> QED BY <1>3, <1>4, <2>2
<1>5. CASE r.type = "c"
  <2>1. Report(r) = IF On(p) THEN Item("F", p, Bogus) ELSE Item("f", p, r.ver)
    BY <1>3, <1>5 DEF Report
  <2>2. CASE On(p)
    <3>1. t = "F" /\ a = Bogus
      BY <1>1, <1>2, <2>1, <2>2
    <3> QED BY <1>3, <1>5, <2>2, <3>1
  <2>3. CASE ~On(p)
    <3>1. t = "f" /\ a = r.ver
      BY <1>1, <1>2, <2>1, <2>3
    <3> QED BY <1>3, <1>5, <2>3, <3>1
  <2> QED BY <2>2, <2>3
<1>6. CASE r.type \notin {"C", "c"}
  <2> DEFINE place == Place(p, r.type = "v")
  <2>1. Report(r) = IF On(place)
                    THEN Item(IF r.type = "v" THEN "f" ELSE "F", p, Equal(r, disk[place]))
                    ELSE Item("F", p, Bogus)
    BY <1>3, <1>6 DEF Report
  <2> HIDE DEF place
  <2>2. CASE On(place)
    <3>1. t = (IF r.type = "v" THEN "f" ELSE "F") /\ a = Equal(r, disk[place])
      BY <1>1, <1>2, <2>1, <2>2
    <3>2. a # Bogus => a = disk[place] /\ a = r.attr
      BY <3>1 DEF Equal
    <3> QED BY <1>3, <1>6, <2>2, <3>1, <3>2 DEF place
  <2>3. CASE ~On(place)
    <3>1. t = "F" /\ a = Bogus
      BY <1>1, <1>2, <2>1, <2>3
    <3> QED BY <1>3, <1>6, <3>1
  <2> QED BY <2>2, <2>3
<1> QED BY <1>4, <1>5, <1>6

\* A file that is listed as the server has it, is as the server has it.
LEMMA ReportAgrees ==
    ASSUME IInv, NEW r \in Honest(raced) \cap Moded(cvs), AFile(r),
           NEW recs, r \in recs, r.path \in Files \ raced, Has(srv, r.path),
           Report(r) = Item(IF Live(srv, r.path) THEN "F" ELSE "f", r.path, SrvAttr(r.path))
    PROVE  Agrees(r.path, recs)
<1> DEFINE p == r.path
           v == srv[p].ver
           t == IF Live(srv, p) THEN "F" ELSE "f"
           a == SrvAttr(p)
<1>1. p \in Files /\ p \notin raced /\ Has(srv, p) /\ Report(r) = Item(t, p, a)
  OBVIOUS
<1>2. v \in Versions /\ v # Bogus /\ "dead" # Bogus /\ Ver(v) = v
  <2>1. v \in Versions
    BY <1>1, TreeTypes DEF IInv, Plan
  <2> QED BY <2>1, WordTypes DEF Versions, Bogus
<1>3. r.type \in {"C", "c", "V", "v"} /\ (r.type \in {"V", "v"} <=> cvs)
      /\ (r.type = "C" => Ver(r.attr) = r.ver)
  BY <1>1 DEF Honest, Moded, Recs, AFile, DirTypes
<1>4. a = IF Stored(srv, p) THEN v ELSE "dead"
  BY DEF SrvAttr
<1>5. Stored(srv, p) <=> cvs \/ Live(srv, p)
  BY <1>1 DEF Stored
<1>6. Agrees(p, recs) <=>
        IF Stored(srv, p)
        THEN LET place == Place(p, cvs /\ ~Live(srv, p))
             IN /\ On(place) /\ Ver(disk[place]) = v
                /\ \E x \in recs : x.path = p /\ x.attr = disk[place] /\ (~cvs => x.ver = v)
        ELSE ~On(p) /\ \E x \in recs : x.path = p /\ x.type = "c"
  BY <1>1 DEF Agrees
<1> HIDE DEF v, t, a
<1>7. LET place == Place(p, r.type = "v")
      IN \/ r.type = "C" /\ t = "F" /\ (a # Bogus => On(p) /\ disk[p] = r.attr /\ a = r.ver)
         \/ r.type = "c" /\ t = "F" /\ On(p) /\ a = Bogus
         \/ r.type = "c" /\ t = "f" /\ ~On(p) /\ a = r.ver
         \/ /\ r.type \notin {"C", "c"} /\ On(place)
            /\ t = IF r.type = "v" THEN "f" ELSE "F"
            /\ (a # Bogus => a = disk[place] /\ a = r.attr)
         \/ r.type \notin {"C", "c"} /\ t = "F" /\ a = Bogus
  BY <1>1, ItemIs
<1>8. a # Bogus /\ p = r.path /\ r \in recs
  BY <1>2, <1>4
<1>9. t = IF Live(srv, p) THEN "F" ELSE "f"
  BY DEF t
<1> HIDE DEF p
<1>10. CASE ~cvs /\ Live(srv, p)
  <2>1. r.type = "C" /\ On(p) /\ disk[p] = r.attr /\ a = r.ver /\ a = v
    BY <1>3, <1>4, <1>5, <1>7, <1>8, <1>9, <1>10
  <2>2. Place(p, cvs /\ ~Live(srv, p)) = p
    BY <1>10 DEF Place
  <2> QED BY <1>3, <1>5, <1>6, <1>8, <1>10, <2>1, <2>2 DEF p
<1>11. CASE ~cvs /\ ~Live(srv, p)
  <2>1. r.type = "c" /\ ~On(p)
    BY <1>3, <1>7, <1>8, <1>9, <1>11
  <2> QED BY <1>5, <1>6, <1>8, <1>11, <2>1 DEF p
<1>12. CASE cvs
  <2> DEFINE place == Place(p, r.type = "v")
  <2>1. /\ On(place) /\ a = disk[place] /\ a = r.attr /\ a = v
        /\ t = IF r.type = "v" THEN "f" ELSE "F"
    <3>1. r.type \notin {"C", "c"} /\ a = v
      BY <1>3, <1>4, <1>5, <1>12
    <3> QED BY <1>7, <1>8, <3>1
  <2>2. r.type = "v" <=> ~Live(srv, p)
    BY <1>9, <2>1
  <2>3. place = Place(p, cvs /\ ~Live(srv, p))
    BY <1>12, <2>2 DEF Place
  <2> QED BY <1>2, <1>5, <1>6, <1>8, <1>12, <2>1, <2>3 DEF p
<1> QED BY <1>10, <1>11, <1>12

\* Why something is requested of a file.
LEMMA RequestFile ==
    ASSUME NEW list
    PROVE  /\ \A x \in Range(list) : x.type \in {"F", "f"} /\ ~Has(srv, x.path) =>
                Cmd("D", x.path, "", "") \in RequestSet(list)
           /\ \A p \in Files : /\ Has(srv, p)
                               /\ Item(IF Live(srv, p) THEN "F" ELSE "f", p, SrvAttr(p)) \notin Range(list)
                => \E c \in RequestSet(list) : c.path = p
<1> DEFINE listed == Range(list)
           ds == {x.path : x \in {y \in listed : y.type = "D"}}
           Known(p) == Item(IF Live(srv, p) THEN "F" ELSE "f", p, SrvAttr(p)) \in listed
           Update == IF cvs THEN "T" ELSE "U"
           U(p) == Cmd(IF cvs /\ ~Live(srv, p) THEN "t" ELSE Update, p, SrvAttr(p), "")
           S1 == SentDirs(srv) \ ds
           S2 == {e \in SentDirs(srv) : Item("U", e, "dir") \notin listed}
           S3 == ds \ DirsOf(srv)
           S4 == {y \in listed : y.type \in {"F", "f"} /\ ~Has(srv, y.path)}
           S5 == {q \in Files : Has(srv, q) /\ ~Known(q)}
           R1 == {Cmd("I", d, "", "") : d \in S1}
           R2 == {Cmd("J", d, "", "") : d \in S2}
           R3 == {Cmd(c, d, "", "") : c \in {"i", "j"}, d \in S3}
           R4 == {Cmd("D", x.path, "", "") : x \in S4}
           R5 == {U(p) : p \in S5}
<1>1. RequestSet(list) = R1 \cup R2 \cup R3 \cup R4 \cup R5
  BY DEF RequestSet
<1>2. ASSUME NEW x \in listed, x.type \in {"F", "f"}, ~Has(srv, x.path)
      PROVE  Cmd("D", x.path, "", "") \in RequestSet(list)
  <2>1. x \in S4
    BY <1>2
  <2> HIDE DEF S4, R1, R2, R3, R5
  <2>2. Cmd("D", x.path, "", "") \in R4
    BY <2>1
  <2> HIDE DEF R4
  <2> QED BY <1>1, <2>2
<1>3. ASSUME NEW p \in Files, Has(srv, p), ~Known(p)
      PROVE  \E c \in RequestSet(list) : c.path = p
  <2>1. p \in S5
    BY <1>3
  <2>2. U(p).path = p
    BY DEF Cmd
  <2> HIDE DEF S5, R1, R2, R3, R4, U
  <2>3. U(p) \in R5
    BY <2>1
  <2> HIDE DEF R5
  <2> QED BY <1>1, <2>2, <2>3
<1> QED BY <1>2, <1>3

\* A file that the server does not ask for is as the server has it.
LEMMA NotAsked ==
    ASSUME IInv, MergeInv, ModeInv, NEW p \in Files \ raced,
           \A c \in RequestSet(Walk(stat.recs).out) : c.path # p
    PROVE  IF Has(srv, p) THEN Synced(p)
           ELSE p \notin {x.path : x \in ToSet(Walk(stat.recs).out)}
<1> DEFINE list == Walk(stat.recs).out
           recs == stat.recs
<1>1. list \in Seq(Items) /\ Named(list) /\ Lists(list, recs, Len(recs))
  BY ListNamed
<1>2. recs \in Seq(Honest(raced)) /\ recs \in Seq(Moded(cvs))
  BY DEF IInv, Book, ModeInv
<1>3. ToSet(list) = Range(list)
  BY DEF ToSet, Range
<1>4. \A c \in RequestSet(list) : c.path # p
  OBVIOUS
<1> HIDE DEF list, recs
<1>5. \A x \in Range(list) : x.type \in {"F", "f"} /\ ~Has(srv, x.path) =>
         Cmd("D", x.path, "", "") \in RequestSet(list)
  BY RequestFile
<1>6. CASE ~Has(srv, p)
  <2>1. ASSUME NEW x \in Range(list), x.path = p PROVE FALSE
    <3>1. AFile(x)
      BY <1>1, <2>1, FolderFacts DEF Named
    <3>2. x.type \in {"F", "f"}
      <4>1. x \in Items
        BY <1>1 DEF Range
      <4> QED BY <3>1, <4>1 DEF Items, AFile, DirTypes
    <3>3. Cmd("D", x.path, "", "") \in RequestSet(list)
      <4>1. ~Has(srv, x.path) /\ x \in Range(list)
        BY <1>6, <2>1
      <4> QED BY <1>5, <3>2, <4>1
    <3> DEFINE c == Cmd("D", x.path, "", "")
    <3>4. c.path = x.path
      BY DEF Cmd
    <3>5. c \in RequestSet(list)
      BY <3>3
    <3> HIDE DEF c
    <3> QED BY <1>4, <2>1, <3>4, <3>5
  <2> QED BY <1>3, <1>6, <2>1 DEF list
<1>7. CASE Has(srv, p)
  <2> DEFINE x == Item(IF Live(srv, p) THEN "F" ELSE "f", p, SrvAttr(p))
  <2>2. x \in Range(list)
    BY <1>4, <1>7, RequestFile
  <2>3. AFile(x) /\ x.path = p
    BY DEF Item, AFile, DirTypes
  <2>4. PICK i \in 1..Len(recs) : Reached(recs[i]) /\ x = Report(recs[i])
    <3> HIDE DEF x
    <3> QED BY <1>1, <2>2, <2>3 DEF Lists
  <2>5. recs[i] \in Honest(raced) /\ recs[i] \in Moded(cvs) /\ recs[i] \in Range(recs)
    BY <1>2 DEF Range
  <2>6. AFile(recs[i])
    BY <2>4 DEF Reached
  <2>7. recs[i].path = p
    BY <2>3, <2>4, ReportFile
  <2>8. recs[i] \in FileRecs(recs)
    BY <2>5, <2>6 DEF FileRecs, AFile
  <2>9. Agrees(recs[i].path, FileRecs(recs))
    BY <1>7, <2>4, <2>5, <2>6, <2>7, <2>8, ReportAgrees
  <2> QED BY <1>7, <2>7, <2>9 DEF recs, Synced
<1> QED BY <1>6, <1>7

-----------------------------------------------------------------------------
(* What is requested is answered *)

\* What an answer is made from.
LEMMA AnswerFrom ==
    ASSUME NEW d \in DetailSet
    PROVE  /\ Answer(d).cmd = "T" => d.cmd \in {"U", "S"}
           /\ Answer(d).cmd \in {"L", "l"} => Answer(d) = d
           /\ Answer(d).cmd \in {"V", "v"} => d.cmd = "V" /\ Answer(d).from = d.from
<1> DEFINE p == d.path
           To(c, f) == Cmd(c, p, SrvAttr(p), f)
           a == Answer(d)
           G == /\ a.cmd = "T" => d.cmd \in {"U", "S"}
                /\ a.cmd \in {"L", "l"} => a = d
                /\ a.cmd \in {"V", "v"} => d.cmd = "V" /\ a.from = d.from
<1>1. \A c, f : To(c, f).cmd = c /\ To(c, f).from = f
  BY DEF Cmd
<1> HIDE DEF To
<1>2. CASE d.cmd \in {"C", "U", "S"}
  <2>1. CASE ~Live(srv, p)
    <3>1. \E c \in {"c", "u"} : \E f : a = To(c, f)
      BY <1>2, <2>1 DEF Answer, To
    <3>2. a.cmd \in {"c", "u"}
      BY <1>1, <3>1
    <3> HIDE DEF a
    <3>3. G
      BY <3>2
    <3> QED BY <3>3 DEF a
  <2>2. CASE Live(srv, p) /\ d.cmd \in {"U", "S"}
    <3>1. \E c \in {"C", "U", "T"} : \E f : a = To(c, f)
      BY <1>2, <2>2 DEF Answer, To
    <3>2. a.cmd \in {"C", "U", "T"}
      BY <1>1, <3>1
    <3> HIDE DEF a
    <3>3. G
      BY <2>2, <3>2
    <3> QED BY <3>3 DEF a
  <2>3. CASE Live(srv, p) /\ d.cmd = "C"
    <3>1. a = To("C", "")
      BY <2>3 DEF Answer, To
    <3>2. a.cmd = "C"
      BY <1>1, <3>1
    <3> HIDE DEF a
    <3>3. G
      BY <3>2
    <3> QED BY <3>3 DEF a
  <2> QED BY <1>2, <2>1, <2>2, <2>3
<1>3. CASE d.cmd = "V"
  <2>1. a = To(IF Live(srv, p) THEN "V" ELSE "v", d.from)
    BY <1>3 DEF Answer, To
  <2>2. a.cmd = (IF Live(srv, p) THEN "V" ELSE "v") /\ a.from = d.from
    BY <1>1, <2>1
  <2> HIDE DEF a, p
  <2>3. G
    BY <1>3, <2>2
  <2> QED BY <2>3 DEF a
<1>4. CASE d.cmd \in {"A", "r"}
  <2>1. \E c \in {"A", "r", "a"} : \E f : a = To(c, f)
    BY <1>4 DEF Answer, To
  <2>2. a.cmd \in {"A", "r", "a"}
    BY <1>1, <2>1
  <2> HIDE DEF a
  <2>3. G
    BY <2>2
  <2> QED BY <2>3 DEF a
<1>5. CASE d.cmd \in DirCmds \cup {"D", "L", "l"}
  <2>1. a = d
    BY <1>5 DEF Answer, DirCmds
  <2> QED BY <1>5, <2>1 DEF DirCmds
<1>6. d.cmd \in DirCmds \cup {"D"} \cup DetailCmds
  BY DEF DetailSet
<1> QED BY <1>2, <1>3, <1>4, <1>5, <1>6 DEF DetailCmds

\* What the answer takes for granted is what the detailer has seen.
LEMMA AnswerFits ==
    ASSUME IInv, NEW q \in Requested, NEW d \in DetailSet, Seen(d, q)
    PROVE  Fit(Answer(d))
<1> DEFINE a == Answer(d)
<1>1. a.path = d.path /\ d.path = q.path
  BY AnswerStands DEF Stands, Seen
<1>2. /\ a.cmd = "T" => d.cmd \in {"U", "S"}
      /\ a.cmd \in {"L", "l"} => a = d
      /\ a.cmd \in {"V", "v"} => d.cmd = "V" /\ a.from = d.from
  BY AnswerFrom
<1>3. a.cmd = "T" /\ On(a.path) => Ver(disk[a.path]) = a.ver \/ a.path \in raced
  BY AnswerType DEF IInv
<1>4. q.cmd \in DirCmds \cup {"D", "U", "T", "t"}
  BY DEF Requested
<1> HIDE DEF a
<1>5. CASE a.cmd = "T"
  <2>1. q.cmd = "U" /\ On(q.path)
    BY <1>2, <1>4, <1>5 DEF Seen, DirCmds
  <2> QED BY <1>1, <1>3, <1>5, <2>1 DEF Fit, a
<1>6. CASE a.cmd \in {"L", "l"}
  <2>1. q.cmd \in {"T", "t"} /\ a = d
    BY <1>2, <1>4, <1>6 DEF Seen, DirCmds
  <2> QED BY <1>1, <1>6, <2>1 DEF Fit, Seen, a
<1>7. CASE a.cmd \in {"V", "v"}
  <2>1. q.cmd \in {"T", "t"} /\ d.cmd = "V" /\ a.from = d.from
    BY <1>2, <1>4, <1>7 DEF Seen, DirCmds
  <2>2. a.from = Ver(disk[Existing(a.path)])
    BY <1>1, <2>1 DEF Seen
  <2> QED BY <1>7, <2>2 DEF Fit, a
<1>8. CASE a.cmd \notin {"T", "L", "l", "V", "v"}
  BY <1>8 DEF Fit, a
<1> QED BY <1>5, <1>6, <1>7, <1>8

\* Every file that was asked for is answered.
LEMMA DetailSettled ==
    ASSUME IInv, MergeInv, Asked, Detail, Settled
    PROVE  Settled'
<1>1. /\ pc = "detail" /\ pc' = "apply" /\ want' = FileRecs(stat.recs)
      /\ disk' = disk /\ srv' = srv /\ cvs' = cvs /\ known' = known /\ raced' = raced
      /\ fixups' = fixups
  BY DEF Detail, OpenStatus, NoFault, history, disks, input
<1>2. /\ DOMAIN cmds' = DOMAIN cmds
      /\ \A i \in DOMAIN cmds : \E d \in DetailSet :
           /\ cmds[i] \in Requested /\ Meant(cmds[i]) /\ Seen(d, cmds[i])
           /\ cmds'[i] = Answer(d)
  BY DetailAnswers
<1>3. ASSUME NEW i \in DOMAIN cmds'
      PROVE  Fit(cmds'[i]) /\ cmds'[i].path = cmds[i].path
  <2>1. PICK d \in DetailSet :
           /\ cmds[i] \in Requested /\ Meant(cmds[i]) /\ Seen(d, cmds[i])
           /\ cmds'[i] = Answer(d)
    BY <1>2
  <2> QED BY <2>1, AnswerFits, AnswerApt
<1>4. Rest' = cmds' /\ Ahead' = cmds'
  BY <1>1 DEF Rest, Ahead
<1>5. ASSUME NEW i \in DOMAIN Ahead' PROVE Fit(Ahead[i])'
  <2>1. Fit(cmds'[i])
    BY <1>3, <1>4
  <2> QED BY <1>1, <1>4, <2>1 DEF Fit, On, Existing
<1>6. ASSUME NEW p \in Files \ raced' PROVE Due(p, Rest)' \/ Agrees(p, want)'
  <2>1. Due(p, cmds) \/ Synced(p)
    BY <1>1 DEF Settled
  <2>2. CASE Due(p, cmds)
    <3>1. Due(p, Rest)'
      BY <1>1, <1>2, <1>3, <1>4, <2>2 DEF Due
    <3> QED BY <3>1
  <2>3. CASE Synced(p)
    <3>1. Agrees(p, want)'
      BY <1>1, <2>3 DEF Synced, Agrees, On, Live, Has, Stored
    <3> QED BY <3>1
  <2> QED BY <2>1, <2>2, <2>3
<1>7. /\ pc' = "apply"
      /\ \A i \in DOMAIN Ahead' : Fit(Ahead[i])'
      /\ \A p \in Files \ raced' : Due(p, Rest)' \/ Agrees(p, want)'
  BY <1>1, <1>5, <1>6
<1> QED BY <1>7 DEF Settled

-----------------------------------------------------------------------------
(* What a command does for its file *)

\* Of other files it records nothing.
LEMMA CommandWants ==
    ASSUME IInv, MergeInv, Command
    PROVE  \A r : r.path # Cur.path => (r \in want' <=> r \in want)
<1>1. cmds # <<>> /\ pc \in Busy /\ (pc = "unlink" => Unlink)
  BY CommandGoes
<1>2. CASE pc = "unlink"
  BY <1>1, <1>2 DEF Unlink
<1>3. CASE pc # "unlink"
  <2>1. InPlace(Cur)
    BY <1>1, CurPlace
  <2>2. Outcome
    BY <1>3, <2>1, CommandEffect
  <2>3. ASSUME NEW r \in Good, Same(r, CmdKey(Cur)) PROVE r.path = Cur.path
    BY <2>3 DEF Same, CmdKey, Rec
  <2>4. CASE want' = want
    BY <2>4
  <2>5. CASE \E r \in Good : Same(r, CmdKey(Cur)) /\ want' = WithoutPath(want, r.path) \cup {r}
    BY <2>3, <2>5 DEF WithoutPath
  <2>6. CASE want' = WithoutPath(want, Cur.path)
    BY <2>6 DEF WithoutPath
  <2>7. want' = want
        \/ (\E r \in Good : Same(r, CmdKey(Cur)) /\ want' = WithoutPath(want, r.path) \cup {r})
        \/ want' = WithoutPath(want, Cur.path)
    BY <2>2 DEF Outcome, Effect
  <2> QED BY <2>4, <2>5, <2>6, <2>7
<1> QED BY <1>2, <1>3

\* A file that is in its place and recorded.
LEMMA InstalledAgrees ==
    ASSUME IInv, srv' = srv, cvs' = cvs, NEW p \in Files, Stored(srv, p),
           NEW place, place = Place(p, cvs /\ ~Live(srv, p)),
           place \in DOMAIN disk', Ver(disk'[place]) = srv[p].ver,
           NEW r \in want', r.path = p, r.attr = disk'[place],
           ~cvs => r.ver = srv[p].ver
    PROVE  Agrees(p, want)'
<1>1. Has(srv, p)
  BY DEF Stored, Live, Has
<1>2. Stored(srv, p)' /\ Has(srv, p)' /\ (Live(srv, p)' <=> Live(srv, p))
  BY <1>1 DEF Stored, Has, Live
<1>3. Place(p, cvs' /\ ~Live(srv, p)') = place
  BY <1>2
<1> HIDE DEF Stored, Has, Live, Place
<1> QED BY <1>2, <1>3 DEF Agrees, On

\* A file that has to be repeated.
LEMMA RepeatedDue ==
    ASSUME IInv, NeedFixup, clean', Cur.path \in Files
    PROVE  Cur.path \in Range(fixups')
<1>1. batch # "fixups" /\ fixups' = Append(fixups, Cur.path) /\ fixups \in Seq(Files)
  BY DEF NeedFixup, IInv, TypeOK
<1>2. Range(fixups') = Range(fixups) \cup {Cur.path}
  BY <1>1, RangeAppend
<1> QED BY <1>2

\* A bad transfer has to be repeated.
LEMMA TransferDue ==
    ASSUME IInv, clean', Cur.path \in Files, NEW good, UpdateFile(good),
           pc' \notin {"record", "move"}
    PROVE  Cur.path \in Range(fixups')
<1>1. NeedFixup
  BY DEF UpdateFile
<1> QED BY <1>1, RepeatedDue

\* updater_updatefile(): a good file is recorded as it was installed.
LEMMA RecordAgrees ==
    ASSUME IInv, RecordFile, ~Fail, edited = {}, srv' = srv, cvs' = cvs, Apt(Cur),
           NEW p, p = Cur.path
    PROVE  p \in Files /\ Agrees(p, want)'
<1> DEFINE b == Cur.cmd \in {"a", "x", "v"}
           place == Place(p, cvs /\ ~Live(srv, p))
<1>1. pc \in {"record", "move"} /\ pc # "detail" /\ cmds # <<>> /\ Cur.cmd \in FileCmds
  BY DEF RecordFile, IInv, Plan
<1>2. /\ p \in Files /\ Has(srv, p) /\ Cur.ver = srv[p].ver
      /\ cvs <=> Cur.cmd \notin {"C", "Y", "U"}
  BY <1>1, CurFacts DEF FileCmds, CheckoutCmds, CvsCmds
<1>3. ~cvs => Live(srv, p)
  BY <1>2 DEF Apt
<1>4. Stored(srv, p) /\ (b <=> cvs /\ ~Live(srv, p))
  BY <1>1, <1>2, <1>3 DEF Stored, Apt, FileCmds
<1>5. Dest = place
  BY <1>4 DEF Dest, Place
<1>6. On(Dest) /\ disk' = disk /\ FileRec(disk[Dest]) \in want'
  BY DEF RecordFile, Recorded, NoFault, disks
<1>7. Ver(disk[Dest]) = srv[p].ver
  BY <1>1, <1>2, <1>6 DEF IInv, Installed
<1> DEFINE r == FileRec(disk[Dest])
<1>8. r.path = p /\ r.attr = disk[Dest] /\ (~cvs => r.ver = srv[p].ver)
  BY <1>2 DEF FileRec, Rec
<1> HIDE DEF place, r, b
<1>9. place \in DOMAIN disk' /\ Ver(disk'[place]) = srv[p].ver /\ r \in want' /\ r.attr = disk'[place]
  BY <1>5, <1>6, <1>7, <1>8 DEF On, r
<1>10. place = Place(p, cvs /\ ~Live(srv, p))
  BY DEF place
<1> QED BY <1>2, <1>4, <1>8, <1>9, <1>10, InstalledAgrees

\* A file that is not to be there.
LEMMA GoneAgrees ==
    ASSUME srv' = srv, cvs' = cvs, known' = known, NEW p \in Files, p \notin DOMAIN disk',
           \/ ~Has(srv, p) /\ \A r \in want' : r.path # p
           \/ /\ Has(srv, p) /\ ~Stored(srv, p)
              /\ \E r \in want' : r.path = p /\ r.type = "c"
    PROVE  Agrees(p, want)'
<1>1. /\ Stored(srv, p)' <=> Stored(srv, p)
      /\ Has(srv, p)' <=> Has(srv, p)
  BY DEF Stored, Has, Live
<1>2. CASE ~Has(srv, p) /\ \A r \in want' : r.path # p
  BY <1>1, <1>2 DEF Agrees, On
<1>3. CASE /\ Has(srv, p) /\ ~Stored(srv, p)
           /\ \E r \in want' : r.path = p /\ r.type = "c"
  BY <1>1, <1>3 DEF Agrees, On
<1> QED BY <1>2, <1>3

\* A command without an error leaves its file as the server has it, or the file is
\* to be repeated.
LEMMA CommandOwn ==
    ASSUME IInv, MergeInv, Asked, Command, ~Fail, clean', edited = {}, pc # "unlink",
           pc = "apply" => Fit(Cur), pc' \in {"apply", "unlink"},
           NEW p \in Files \ raced', p = Cur.path
    PROVE  p \in Range(fixups') \/ Agrees(p, want)'
<1> DEFINE G == p \in Range(fixups') \/ Agrees(p, want)'
           v == srv[p].ver
           place == Place(p, cvs /\ ~Live(srv, p))
<1>1. /\ cmds # <<>> /\ pc # "detail" /\ known' = known /\ pc \in Busy
      /\ p \in Files /\ p \notin raced /\ p \notin raced'
  <2>1. raced \subseteq raced'
    BY RacedGrows DEF Next, Run
  <2> QED BY <2>1, CommandGoes, CommandQueues
<1>2. cvs' = cvs /\ srv' = srv
  BY InputKept DEF Next, Run
<1>3. Cur.cmd \notin DirCmds
  BY <1>1, CurPlace
<1>4. Apt(Cur)
  <2>1. Cur = cmds[1] /\ 1 \in DOMAIN cmds
    BY <1>1, HeadTodo
  <2> QED BY <1>1, <2>1 DEF Asked
<1>5. /\ Cur.cmd \in CheckoutCmds => ~cvs
      /\ Cur.cmd \in CvsCmds => cvs
      /\ Cur.cmd \in CheckoutCmds \cup CvsCmds =>
           /\ Has(srv, p) /\ v \in Versions /\ Ver(v) = v
           /\ Cur.cmd \notin {"u", "c", "L", "l"} => Cur.ver = v
  BY <1>1, CurFacts, WordTypes
<1>6. Stored(srv, p) <=> IF cvs THEN Has(srv, p) ELSE Live(srv, p)
  BY DEF Stored
<1>7. place = IF cvs /\ ~Live(srv, p) THEN Attic(p) ELSE p
  BY DEF Place
<1> HIDE DEF G, v, place
<1>9. CASE MakeDir \/ RemoveDir \/ SetDirAttrs
  <2>1. Cur.cmd \in DirCmds
    BY <1>9 DEF MakeDir, RemoveDir, SetDirAttrs, At, DirCmds
  <2> QED BY <1>3, <2>1
<1>10. CASE RemoveFile
  <2>1. Cur.cmd = "D" /\ Deleted(p) /\ Forgotten(p)
    BY <1>10 DEF RemoveFile, Limited, At
  <2>2. ~Has(srv, p)
    BY <1>4, <2>1 DEF Apt
  <2>3. p \notin DOMAIN disk' /\ \A r \in want' : r.path # p
    BY <2>1 DEF Deleted, Without, Forgotten
  <2>4. Agrees(p, want)'
    BY <1>1, <1>2, <2>2, <2>3, GoneAgrees
  <2> QED BY <2>4
<1>11. CASE UpdateDead \/ CheckoutDead
  <2>1. /\ Cur.cmd \in {"u", "c"} /\ Recorded(Rec("c", p, "dead", ""))
        /\ disk' = Without(disk, p) \/ (disk' = disk /\ ~On(p))
    BY <1>11 DEF UpdateDead, CheckoutDead, Limited, Deleted, At, disks
  <2>2. ~Live(srv, p) /\ Has(srv, p) /\ ~Stored(srv, p)
    BY <1>4, <1>5, <1>6, <2>1 DEF Apt, CheckoutCmds
  <2>3. p \notin DOMAIN disk'
    BY <2>1 DEF Without, On
  <2>4. \E r \in want' : r.path = p /\ r.type = "c"
    <3> DEFINE r == Rec("c", p, "dead", "")
    <3>1. r.path = p /\ r.type = "c"
      BY DEF Rec
    <3>2. r \in want'
      BY <2>1 DEF Recorded
    <3> HIDE DEF r
    <3> QED BY <3>1, <3>2
  <2>5. Agrees(p, want)'
    BY <1>1, <1>2, <2>2, <2>3, <2>4, GoneAgrees
  <2> QED BY <2>5
<1>12. CASE SetAttrs
  <2>1. Cur.cmd = "T" /\ disk' = disk /\ pc = "apply"
    BY <1>12 DEF SetAttrs, At, disks
  <2>2. ~cvs /\ Live(srv, p) /\ Stored(srv, p) /\ Cur.ver = v /\ place = p
    BY <1>4, <1>5, <1>6, <1>7, <2>1 DEF Apt, CheckoutCmds
  <2>3. On(p) /\ Ver(disk[p]) = v
    BY <1>1, <2>1, <2>2 DEF Fit
  <2> DEFINE r == Rec("C", p, Cur.ver, disk[p])
  <2>4. r \in want'
    BY <1>12, <2>3 DEF SetAttrs, Recorded
  <2>5. r.path = p /\ r.attr = disk[p] /\ r.ver = v
    BY <2>2 DEF Rec
  <2> HIDE DEF r
  <2>6. Agrees(p, want)'
    BY <1>1, <1>2, <2>1, <2>2, <2>3, <2>4, <2>5, InstalledAgrees DEF On, v, place
  <2> QED BY <2>6
<1>13. CASE RecordCvs
  <2> DEFINE r == Rec(IF Cur.cmd = "l" THEN "v" ELSE "V", p, "", Cur.ver)
  <2>1. Cur.cmd \in {"L", "l"} /\ disk' = disk /\ r \in want' /\ pc = "apply"
    BY <1>13 DEF RecordCvs, At, disks, Recorded
  <2>2. r.path = p /\ r.attr = Cur.ver
    BY DEF Rec
  <2> HIDE DEF r
  <2>3. cvs /\ Has(srv, p) /\ Stored(srv, p) /\ Cur.ver = v /\ Ver(v) = v
    BY <1>4, <1>5, <1>6, <2>1 DEF Apt, CvsCmds, v
  <2>4. On(place) /\ disk[place] = Cur.ver
    <3>1. Cur.cmd = "L" => Live(srv, p)
      BY <1>4 DEF Apt
    <3>2. Cur.cmd = "l" => ~Live(srv, p)
      BY <1>4 DEF Apt
    <3> QED BY <1>1, <1>7, <2>1, <2>3, <3>1, <3>2 DEF Fit
  <2>5. Agrees(p, want)'
    BY <1>1, <1>2, <2>1, <2>2, <2>3, <2>4, InstalledAgrees DEF On, v, place
  <2> QED BY <2>5
<1>14. ASSUME NEW good, UpdateFile(good) PROVE G
  BY <1>1, <1>14, TransferDue DEF G
<1>15. CASE Checkout \/ Diff \/ Rsync \/ Add \/ RcsFixup
  <2>1. \E good : UpdateFile(good)
    BY <1>15 DEF Checkout, Diff, Rsync, Add, RcsFixup, AddFile, Patched
  <2> QED BY <1>14, <2>1 DEF G
<1>16. CASE RcsEdit
  <2> DEFINE b == Cur.cmd = "v"
  <2>1. Cur.cmd \in {"V", "v"} /\ On(Orig) /\ pc = "apply"
    BY <1>16 DEF RcsEdit, At
  <2>2. cvs /\ Stored(srv, p) /\ Cur.ver = v /\ (b <=> ~Live(srv, p)) /\ b \in BOOLEAN
        /\ Ver(v) = v
    BY <1>4, <1>5, <1>6, <2>1 DEF Apt, CvsCmds
  <2>3. Dest = Place(p, b) /\ Dest = place
    BY <2>1, <2>2 DEF Dest, Place, place
  <2>4. CASE \E good : UpdateFile(good)
    BY <1>14, <2>4 DEF G
  <2>5. CASE /\ ~Edits /\ disk' = [disk EXCEPT ![Dest] = Ver(@)]
             /\ Recorded(FileRec(Ver(disk[Dest])))
    <3>1. Orig = Dest /\ Cur.from = v
      BY <2>1, <2>2, <2>5 DEF Edits, Moves
    <3>2. Ver(disk[Dest]) = v /\ Dest \in DOMAIN disk
      <4>1. On(Existing(p)) => Ver(disk[Existing(p)]) = Cur.from
        BY <1>1, <2>1 DEF Fit
      <4> QED BY <2>1, <3>1, <4>1 DEF Orig, On
    <3> DEFINE r == Rec(IF b THEN "v" ELSE "V", p, "", v)
    <3>3. r \in want'
      <4>1. r = FileRec(Ver(disk[Dest]))
        BY <2>1, <3>2 DEF FileRec
      <4> QED BY <2>5, <4>1 DEF Recorded
    <3>4. r.path = p /\ r.attr = v
      BY DEF Rec
    <3>5. place \in DOMAIN disk' /\ disk'[place] = v
      BY <2>3, <2>5, <3>2
    <3> HIDE DEF r
    <3>6. Agrees(p, want)'
      BY <1>1, <1>2, <2>2, <3>3, <3>4, <3>5, InstalledAgrees DEF v, place
    <3> QED BY <3>6
  <2> QED BY <1>16, <2>4, <2>5 DEF RcsEdit
<1>17. CASE RcsEditFails
  <2>1. NeedFixup
    BY <1>17 DEF RcsEditFails
  <2> QED BY <1>1, <2>1, RepeatedDue
<1>18. CASE RecordFile
  BY <1>2, <1>4, <1>18, RecordAgrees DEF G
<1>19. CASE Unlink
  BY <1>19 DEF Unlink
<1> QED BY <1>9, <1>10, <1>11, <1>12, <1>13, <1>15, <1>16, <1>17, <1>18, <1>19 DEF Command, G

-----------------------------------------------------------------------------
(* What a command does for the others *)

\* A file that is as the server has it stays so.
LEMMA CommandLeaves ==
    ASSUME IInv, MergeInv, Command, NEW p \in Files, p # Cur.path, Agrees(p, want)
    PROVE  Agrees(p, want)'
<1>1. known' = known /\ cvs' = cvs /\ srv' = srv
  BY CommandGoes, InputKept DEF Next, Run
<1>2. Kept(p) /\ Kept(Attic(p))
  BY CommandElsewhere
<1>3. \A r : r.path = p => (r \in want' <=> r \in want)
  BY CommandWants
<1>4. /\ Has(srv, p)' <=> Has(srv, p)
      /\ Stored(srv, p)' <=> Stored(srv, p)
      /\ Live(srv, p)' <=> Live(srv, p)
  BY <1>1 DEF Has, Stored, Live
<1> DEFINE place == Place(p, cvs /\ ~Live(srv, p))
<1>5. Place(p, cvs' /\ ~Live(srv, p)') = place /\ Kept(place)
  BY <1>1, <1>2, <1>4 DEF Place
<1>6. {r \in want' : r.path = p} = {r \in want : r.path = p}
  BY <1>3
<1> DEFINE own == {r \in want : r.path = p}
<1>7. Agrees(p, want) <=>
        IF ~Has(srv, p) THEN p \in known => own = {} /\ p \notin DOMAIN disk
        ELSE IF Stored(srv, p)
        THEN /\ place \in DOMAIN disk /\ Ver(disk[place]) = srv[p].ver
             /\ \E r \in own : r.attr = disk[place] /\ (~cvs => r.ver = srv[p].ver)
        ELSE p \notin DOMAIN disk /\ \E r \in own : r.type = "c"
  BY DEF Agrees, On
<1>8. Agrees(p, want)' <=>
        IF ~Has(srv, p) THEN p \in known => own = {} /\ p \notin DOMAIN disk'
        ELSE IF Stored(srv, p)
        THEN /\ place \in DOMAIN disk' /\ Ver(disk'[place]) = srv[p].ver
             /\ \E r \in own : r.attr = disk'[place] /\ (~cvs => r.ver = srv[p].ver)
        ELSE p \notin DOMAIN disk' /\ \E r \in own : r.type = "c"
  <2> HIDE DEF Has, Stored, Live, Place
  <2> QED BY <1>1, <1>4, <1>5, <1>6 DEF Agrees, On
<1> HIDE DEF place, own
<1> QED BY <1>2, <1>5, <1>7, <1>8 DEF Kept

\* What another command takes for granted stays so.
LEMMA CommandFits ==
    ASSUME IInv, MergeInv, Command, NEW c, c.path \in Files => c.path # Cur.path,
           c.cmd \in DirCmds \/ c.path \in Files, Fit(c)
    PROVE  Fit(c)'
<1> DEFINE p == c.path
           t == c.cmd
<1>1. raced \subseteq raced'
  BY RacedGrows DEF Next, Run
<1>2. CASE c.cmd \in DirCmds
  <2>1. c.cmd \notin {"T", "L", "l", "V", "v"}
    BY <1>2 DEF DirCmds
  <2> QED BY <2>1 DEF Fit
<1>3. CASE p \in Files
  <2>1. Kept(p) /\ Kept(Attic(p))
    BY <1>3, CommandElsewhere
  <2>2. Existing(p)' = Existing(p) /\ Kept(Existing(p))
    BY <2>1 DEF Existing, Kept
  <2>3. SUFFICES ASSUME p \notin raced'
                 PROVE  /\ t = "T" => p \in DOMAIN disk' /\ Ver(disk'[p]) = c.ver
                        /\ t = "L" => p \in DOMAIN disk' /\ disk'[p] = c.ver
                        /\ t = "l" => Attic(p) \in DOMAIN disk' /\ disk'[Attic(p)] = c.ver
                        /\ t \in {"V", "v"} /\ Existing(p) \in DOMAIN disk' =>
                             Ver(disk'[Existing(p)]) = c.from
    BY <2>2 DEF Fit, On
  <2>4. /\ t = "T" => p \in DOMAIN disk /\ Ver(disk[p]) = c.ver
        /\ t = "L" => p \in DOMAIN disk /\ disk[p] = c.ver
        /\ t = "l" => Attic(p) \in DOMAIN disk /\ disk[Attic(p)] = c.ver
        /\ t \in {"V", "v"} /\ Existing(p) \in DOMAIN disk => Ver(disk[Existing(p)]) = c.from
    BY <1>1, <2>3 DEF Fit, On
  <2> HIDE DEF p, t
  <2> QED BY <2>1, <2>2, <2>4 DEF Kept
<1> QED BY <1>2, <1>3

\* The old place of a file that is moved is not the one it belongs in.
LEMMA UnlinkAgrees ==
    ASSUME IInv, Asked, Unlink, Agrees(Cur.path, want), NEW p, p = Cur.path
    PROVE  Agrees(p, want)'
<1>1. /\ cmds # <<>> /\ pc = "unlink" /\ pc # "detail" /\ Cur.cmd \in {"V", "v"}
  BY DEF IInv, Plan, Unlink
<1>2. Cur = cmds[1] /\ 1 \in DOMAIN cmds
  BY <1>1, HeadTodo
<1>3. Apt(Cur)
  BY <1>1, <1>2 DEF Asked
<1>4. cvs /\ p \in Files /\ Has(srv, p) /\ Stored(srv, p)
  BY <1>1, CurFacts DEF CvsCmds, Stored
<1>5. Cur.cmd = "v" <=> ~Live(srv, p)
  BY <1>1, <1>3 DEF Apt
<1> DEFINE place == Place(p, cvs /\ ~Live(srv, p))
           old == Place(p, Cur.cmd # "v")
<1>6. place # old
  <2>1. p # Attic(p)
    BY <1>4, FilePaths, AtticFacts
  <2> QED BY <1>4, <1>5, <2>1 DEF Place
<1>7. disk' = Without(disk, old) /\ want' = want /\ srv' = srv /\ cvs' = cvs
  BY DEF Unlink, input
<1>8. /\ place \in DOMAIN disk /\ Ver(disk[place]) = srv[p].ver
      /\ \E r \in want : r.path = p /\ r.attr = disk[place] /\ (~cvs => r.ver = srv[p].ver)
  BY <1>4 DEF Agrees, On
<1>9. place = Place(p, cvs /\ ~Live(srv, p))
  OBVIOUS
<1> HIDE DEF place, old
<1>10. place \in DOMAIN disk' /\ disk'[place] = disk[place]
  BY <1>6, <1>7, <1>8 DEF Without
<1> QED BY <1>4, <1>7, <1>8, <1>9, <1>10, InstalledAgrees

\* So a command keeps every file settled or due.
LEMMA CommandSettled ==
    ASSUME IInv, MergeInv, Asked, Others, Settled, Command, clean', edited = {}
    PROVE  Settled'
<1>1. /\ cmds # <<>> /\ pc \in Busy /\ pc # "detail" /\ ~Fail
      /\ pc = "unlink" => Unlink
      /\ raced \subseteq raced'
  BY CommandGoes, CommandQueues, RacedGrows DEF Fail, Next, Run
<1>2. /\ pc' \in Busy /\ Ahead' = Tail(cmds)
      /\ pc' \in {"apply", "unlink"} => Rest' = Tail(cmds)
      /\ pc' \in {"record", "move"} => Rest' = cmds
      /\ pc = "unlink" => Rest = Tail(cmds) /\ pc' = "apply"
  <2>1. Goes
    BY CommandGoes
  <2>2. CASE cmds' = Tail(cmds) /\ pc' = "apply"
    BY <2>1, <2>2 DEF Rest, Ahead, Busy
  <2>3. CASE cmds' = cmds /\ pc' \in {"record", "move", "unlink"} /\ pc # "unlink"
    BY <2>1, <2>3 DEF Rest, Ahead, Busy
  <2> QED BY <1>1, <2>1, <2>2, <2>3 DEF Goes, Rest
<1>3. cmds \in Seq(Todo) /\ Cur = cmds[1] /\ 1 \in DOMAIN cmds
  BY <1>1, HeadTodo DEF IInv, Plan
<1>4. /\ \A i \in DOMAIN Tail(cmds) : i + 1 \in DOMAIN cmds /\ Tail(cmds)[i] = cmds[i + 1]
      /\ \A i \in DOMAIN cmds : i # 1 => i - 1 \in DOMAIN Tail(cmds) /\ Tail(cmds)[i - 1] = cmds[i]
  BY <1>1, <1>3, TailIs
<1>5. \A i \in DOMAIN Tail(cmds) : /\ \E j \in DOMAIN Rest : Tail(cmds)[i] = Rest[j]
                                  /\ \E j \in DOMAIN Ahead : Tail(cmds)[i] = Ahead[j]
  BY <1>1, <1>2, <1>4 DEF Rest, Ahead
<1>6. /\ \A j \in DOMAIN Rest : InPlace(Rest[j])
      /\ \A j \in DOMAIN Ahead : Fit(Ahead[j])
  BY <1>1 DEF Settled, MergeInv, Working, Busy
<1>7. /\ fixups \in Seq(Files) /\ Cur.path \in Paths
      /\ fixups' \in {fixups, Append(fixups, Cur.path)}
  BY <1>1, HeadTodo, CommandQueues DEF IInv, TypeOK
<1>8. Range(fixups) \subseteq Range(fixups')
  <2>1. Range(Append(fixups, Cur.path)) = Range(fixups) \cup {Cur.path}
    BY <1>7, RangeAppend
  <2> QED BY <1>7, <2>1
<1>9. Cur.path \in Files => \A i \in DOMAIN Tail(cmds) : Tail(cmds)[i].path # Cur.path
  BY <1>1, <1>2, OtherPaths DEF Others
<1>10. ASSUME NEW i \in DOMAIN Ahead' PROVE Fit(Ahead[i])'
  <2> DEFINE c == Tail(cmds)[i]
  <2>1. i \in DOMAIN Tail(cmds) /\ Ahead'[i] = c
    BY <1>2
  <2>2. Fit(c) /\ InPlace(c)
    BY <1>5, <1>6, <2>1
  <2>3. c.path \in Files => c.path # Cur.path
    BY <1>9, <2>1
  <2>4. c.cmd \in DirCmds \/ c.path \in Files
    BY <2>2, PlaceKey
  <2>5. PICK d : d = c
    OBVIOUS
  <2> HIDE DEF c
  <2>6. Fit(d)'
    BY <2>2, <2>3, <2>4, <2>5, CommandFits
  <2>7. Ahead'[i] = d
    BY <2>1, <2>5
  <2> QED BY <2>6, <2>7 DEF Fit
<1>11. ASSUME NEW p \in Files \ raced' PROVE Due(p, Rest)' \/ Agrees(p, want)'
  <2>1. p \in Files \ raced
    BY <1>1
  <2>2. Due(p, Rest) \/ Agrees(p, want)
    BY <1>1, <2>1 DEF Settled
  <2>3. p \in Range(fixups) => Due(p, Rest)'
    BY <1>8 DEF Due
  <2>4. CASE p # Cur.path
    <3>1. CASE Agrees(p, want)
      <4>1. Agrees(p, want)'
        BY <2>4, <3>1, CommandLeaves
      <4> QED BY <4>1
    <3>2. CASE \E j \in DOMAIN Rest : Rest[j].path = p
      <4>1. \E i \in DOMAIN Tail(cmds) : Tail(cmds)[i].path = p
        <5>1. PICK j \in DOMAIN Rest : Rest[j].path = p
          BY <3>2
        <5>2. CASE pc = "unlink"
          BY <1>2, <5>1, <5>2
        <5>3. CASE pc # "unlink"
          BY <1>3, <1>4, <2>4, <5>1, <5>3 DEF Rest
        <5> QED BY <5>2, <5>3
      <4>2. Due(p, Rest)'
        <5>1. CASE Rest' = Tail(cmds)
          BY <4>1, <5>1 DEF Due
        <5>2. CASE Rest' = cmds
          <6>1. \E i \in DOMAIN cmds : cmds[i].path = p
            BY <1>4, <4>1
          <6> QED BY <5>2, <6>1 DEF Due
        <5> QED BY <1>2, <5>1, <5>2 DEF Busy
      <4> QED BY <4>2
    <3> QED BY <2>2, <2>3, <3>1, <3>2 DEF Due
  <2>5. CASE p = Cur.path /\ pc # "unlink"
    <3>1. CASE pc' \in {"record", "move"}
      <4>1. Rest' = cmds /\ cmds[1].path = p
        BY <1>2, <1>3, <2>5, <3>1
      <4>2. Due(p, Rest)'
        BY <1>3, <4>1 DEF Due
      <4> QED BY <4>2
    <3>2. CASE pc' \in {"apply", "unlink"}
      <4>1. pc = "apply" => Fit(Cur)
        BY <1>3, <1>6 DEF Ahead
      <4>2. p \in Range(fixups') \/ Agrees(p, want)'
        BY <1>1, <2>5, <3>2, <4>1, CommandOwn
      <4>3. p \in Range(fixups') => Due(p, Rest)'
        BY DEF Due
      <4> QED BY <4>2, <4>3
    <3> QED BY <1>2, <3>1, <3>2 DEF Busy
  <2>6. CASE p = Cur.path /\ pc = "unlink"
    <3>1. p \in Range(fixups) \/ Agrees(p, want)
      BY <2>2, <2>6 DEF Due, Others
    <3>2. CASE Agrees(p, want)
      <4>1. Agrees(p, want)'
        BY <1>1, <2>6, <3>2, UnlinkAgrees
      <4> QED BY <4>1
    <3> QED BY <2>3, <3>1, <3>2
  <2> QED BY <2>4, <2>5, <2>6
<1>12. pc' \notin {"detail", "flush", "done"}
  BY <1>2 DEF Busy
<1>13. /\ \A i \in DOMAIN Ahead' : Fit(Ahead[i])'
       /\ \A p \in Files \ raced' : Due(p, Rest)' \/ Agrees(p, want)'
  BY <1>10, <1>11
<1> QED BY <1>12, <1>13 DEF Settled

-----------------------------------------------------------------------------
(* A run *)

\* lister_batch(): what is not asked for is as the server has it.
LEMMA StartSettled ==
    ASSUME IInv, MergeInv, ModeInv, Start
    PROVE  Settled'
<1>1. /\ pc' = "detail" /\ cmds' = Requests(Walk(stat.recs).out)
      /\ known' = {x.path : x \in ToSet(Walk(stat.recs).out)} \cap Files
      /\ disk' = disk /\ srv' = srv /\ cvs' = cvs /\ stat' = stat /\ raced' = raced
  BY DEF Start, disks, input
<1> DEFINE list == Walk(stat.recs).out
<1>2. Range(cmds') = RequestSet(list)
  <2>1. list \in Seq(Items) /\ Named(list) /\ TypeOK /\ Plan /\ cmds' = Requests(list)
    BY <1>1, ListNamed DEF IInv
  <2> HIDE DEF list
  <2> QED BY <2>1, RequestsInOrder
<1>3. ASSUME NEW p \in Files \ raced' PROVE Due(p, cmds)' \/ Synced(p)'
  <2>1. p \in Files \ raced
    BY <1>1
  <2>2. CASE \E c \in RequestSet(list) : c.path = p
    <3>1. \E i \in DOMAIN cmds' : cmds'[i].path = p
      BY <1>2, <2>2 DEF Range
    <3>2. Due(p, cmds)'
      BY <3>1 DEF Due
    <3> QED BY <3>2
  <2>3. CASE \A c \in RequestSet(list) : c.path # p
    <3>1. IF Has(srv, p) THEN Synced(p) ELSE p \notin {x.path : x \in ToSet(list)}
      BY <2>1, <2>3, NotAsked
    <3> HIDE DEF list
    <3>2. CASE Has(srv, p)
      <4>1. Agrees(p, FileRecs(stat.recs))
        BY <3>1, <3>2 DEF Synced
      <4>2. Agrees(p, FileRecs(stat.recs))'
        BY <1>1, <3>2, <4>1 DEF Agrees, On, Live, Has, Stored
      <4> QED BY <4>2 DEF Synced
    <3>3. CASE ~Has(srv, p)
      <4>1. p \notin known'
        BY <1>1, <3>1, <3>3 DEF list
      <4>2. ~Has(srv, p)'
        BY <1>1, <3>3 DEF Has
      <4>3. Synced(p)'
        BY <4>1, <4>2 DEF Synced, Agrees
      <4> QED BY <4>3
    <3> QED BY <3>2, <3>3
  <2> QED BY <2>2, <2>3
<1>4. \A p \in Files \ raced' : Due(p, cmds)' \/ Synced(p)'
  BY <1>3
<1> QED BY <1>1, <1>4 DEF Settled, Busy

\* updater_batch(): the fixups are sent next, or there are none.
LEMMA BatchSettled ==
    ASSUME IInv, Written, NextBatch(stat), clean,
           stat' = stat, disk' = disk, srv' = srv, cvs' = cvs, known' = known, raced' = raced,
           \A p \in Files \ raced : Due(p, <<>>) \/ Synced(p)
    PROVE  Settled'
<1>1. \A p : Due(p, <<>>) <=> p \in Range(fixups)
  BY DEF Due
<1>2. \A p : Synced(p)' <=> Synced(p)
  BY DEF Synced, Agrees, On, Live, Has, Stored
<1>3. CASE batch # "updates"
  <2>1. pc' = "done"
    BY <1>3 DEF NextBatch
  <2>2. fixups = <<>>
    BY <1>3 DEF Written, IInv, TypeOK
  <2>3. \A p \in Files \ raced : Synced(p)
    BY <1>1, <2>2 DEF Range
  <2>4. \A p \in Files \ raced' : Synced(p)'
    BY <1>2, <2>3
  <2> QED BY <2>1, <2>4 DEF Settled, Busy
<1>4. CASE batch = "updates"
  <2>1. cmds' = FixupCmds /\ pc' = "apply" /\ want' = FileRecs(stat.recs)
    BY <1>4 DEF NextBatch, OpenStatus
  <2>2. Rest' = FixupCmds /\ Ahead' = FixupCmds
    BY <2>1 DEF Rest, Ahead
  <2>3. ASSUME NEW i \in DOMAIN fixups
        PROVE  /\ FixupCmds[i].path = fixups[i]
               /\ FixupCmds[i].cmd \notin {"T", "L", "l", "V", "v"}
    <3> DEFINE t == IF ~cvs THEN "Y" ELSE IF Live(srv, fixups[i]) THEN "X" ELSE "x"
               c == Cmd(t, fixups[i], srv[fixups[i]].ver, "")
    <3>1. FixupCmds[i] = c
      BY DEF FixupCmds
    <3>2. c.path = fixups[i] /\ c.cmd = t
      BY DEF Cmd
    <3>3. t \notin {"T", "L", "l", "V", "v"}
      OBVIOUS
    <3> HIDE DEF c, t
    <3> QED BY <3>1, <3>2, <3>3
  <2>4. DOMAIN FixupCmds = DOMAIN fixups
    BY DEF FixupCmds
  <2>5. ASSUME NEW i \in DOMAIN Ahead' PROVE Fit(Ahead[i])'
    <3>1. Ahead'[i].cmd \notin {"T", "L", "l", "V", "v"}
      BY <2>2, <2>3, <2>4
    <3> QED BY <3>1 DEF Fit
  <2>6. ASSUME NEW p \in Files \ raced' PROVE Due(p, Rest)' \/ Agrees(p, want)'
    <3>1. CASE p \in Range(fixups)
      <4>1. \E i \in DOMAIN FixupCmds : FixupCmds[i].path = p
        BY <2>3, <2>4, <3>1 DEF Range
      <4>2. Due(p, Rest)'
        BY <2>2, <4>1 DEF Due
      <4> QED BY <4>2
    <3>2. CASE Synced(p)
      <4>1. Agrees(p, want)'
        BY <2>1, <3>2 DEF Synced, Agrees, On, Live, Has, Stored
      <4> QED BY <4>1
    <3> QED BY <1>1, <3>1, <3>2
  <2>7. /\ \A i \in DOMAIN Ahead' : Fit(Ahead[i])'
        /\ \A p \in Files \ raced' : Due(p, Rest)' \/ Agrees(p, want)'
    BY <2>5, <2>6
  <2> QED BY <2>1, <2>7 DEF Settled
<1> QED BY <1>3, <1>4

\* status_close(): what is written out is what was to be recorded.
LEMMA CloseSettled ==
    ASSUME IInv, Written, Settled, clean, Close \/ Flush
    PROVE  Settled'
<1>1. /\ disk' = disk /\ srv' = srv /\ cvs' = cvs /\ known' = known /\ raced' = raced
      /\ pc \in {"apply", "flush"} /\ (pc = "apply" => cmds = <<>>)
  BY DEF Close, Flush, disks, input, NoFault, history
<1>2. \A p \in Files \ raced : Due(p, <<>>) \/ Agrees(p, want)
  <2>1. pc = "apply" => Rest = <<>>
    BY <1>1 DEF Rest
  <2> QED BY <1>1, <2>1 DEF Settled, Busy
<1>3. CASE NextBatch(stat) /\ stat' = stat /\ want = FileRecs(stat.recs)
  <2>1. \A p \in Files \ raced : Due(p, <<>>) \/ Synced(p)
    BY <1>2, <1>3 DEF Synced
  <2> QED BY <1>1, <1>3, <2>1, BatchSettled
<1>4. CASE Flush
  <2>1. want = FileRecs(stat.recs) /\ NextBatch(stat) /\ stat' = stat
    BY <1>4 DEF Written, Flush
  <2> QED BY <1>3, <2>1
<1>5. CASE Close
  <2>1. CASE ~st.dirty /\ NextBatch(stat) /\ stat' = stat
    <3>1. want = FileRecs(stat.recs)
      BY <1>5, <2>1 DEF Written, Close, Busy
    <3> QED BY <1>3, <2>1, <3>1
  <2>2. CASE pc' = "aborted"
    BY <2>2 DEF Settled, Busy
  <2>3. CASE pc' = "flush" /\ want' = want /\ fixups' = fixups
    <3>1. ASSUME NEW p \in Files \ raced' PROVE Due(p, <<>>)' \/ Agrees(p, want)'
      <4>1. Due(p, <<>>) \/ Agrees(p, want)
        BY <1>1, <1>2
      <4>2. Due(p, <<>>) => Due(p, <<>>)'
        BY <2>3 DEF Due
      <4>3. Agrees(p, want) => Agrees(p, want)'
        BY <1>1, <2>3 DEF Agrees, On, Live, Has, Stored
      <4> QED BY <4>1, <4>2, <4>3
    <3>2. \A p \in Files \ raced' : Due(p, <<>>)' \/ Agrees(p, want)'
      BY <3>1
    <3> QED BY <2>3, <3>2 DEF Settled, Busy
  <2> QED BY <1>5, <2>1, <2>2, <2>3 DEF Close
<1> QED BY <1>4, <1>5

\* As long as no user changes a file and nothing fails.
LEMMA SettledStep ==
    ASSUME IInv, MergeInv, ModeInv, Asked, Written, Others,
           edited = {} /\ clean => Settled, [Next]_vars, edited' = {}, clean'
    PROVE  Settled'
<1>1. CASE Start
  BY <1>1, StartSettled
<1>2. CASE Detail
  <2>1. edited' = edited /\ clean' = clean
    BY <1>2 DEF Detail, NoFault, history
  <2> QED BY <1>2, <2>1, DetailSettled
<1>3. CASE Command
  <2>1. edited' = edited /\ (clean' => clean)
    BY <1>3, CommandGoes, CommandClean
  <2>2. Settled /\ edited = {}
    BY <2>1
  <2> QED BY <1>3, <2>2, CommandSettled
<1>4. CASE Close \/ Flush
  <2>1. edited' = edited /\ clean' = clean
    BY <1>4 DEF Close, Flush, NoFault, history
  <2> QED BY <1>4, <2>1, CloseSettled
<1>5. CASE RemoveStatus \/ Again \/ Crash
  <2>1. pc' = "idle"
    BY <1>5 DEF RemoveStatus, Again, Crash
  <2> QED BY <2>1 DEF Settled, Busy
<1>6. CASE LostConnection
  BY <1>6 DEF LostConnection, Fail
<1>7. CASE UserEdits
  <2>1. PICK place \in DOMAIN disk :
          edited' = edited \cup {p \in Files : place \in {p, Attic(p)}}
    BY <1>7 DEF UserEdits
  <2>2. \E p \in Files : place \in {p, Attic(p)}
    BY FilePaths DEF IInv, TypeOK
  <2> QED BY <2>1, <2>2
<1>8. CASE UNCHANGED vars
  <2>1. /\ edited' = edited /\ clean' = clean /\ pc' = pc /\ cmds' = cmds /\ fixups' = fixups
        /\ want' = want /\ stat' = stat /\ disk' = disk /\ srv' = srv /\ cvs' = cvs
        /\ known' = known /\ raced' = raced
    BY <1>8 DEF vars, input, disks, history
  <2>2. Settled
    BY <2>1
  <2>3. Rest' = Rest /\ Ahead' = Ahead
    BY <2>1 DEF Rest, Ahead
  <2>4. /\ \A c : Fit(c)' <=> Fit(c)
        /\ \A p, cs : Due(p, cs)' <=> Due(p, cs)
        /\ \A p, recs : Agrees(p, recs)' <=> Agrees(p, recs)
    BY <2>1 DEF Fit, Due, Agrees, On, Existing, Live, Has, Stored
  <2> QED BY <2>1, <2>2, <2>3, <2>4 DEF Settled, Synced, Fit, Due, Agrees, On, Existing,
          Live, Has, Stored
<1> QED BY <1>1, <1>2, <1>3, <1>4, <1>5, <1>6, <1>7, <1>8 DEF Next, Run

\* The beginning.
LEMMA InitSync == Init => SyncInv
<1> SUFFICES ASSUME Init PROVE SyncInv
  OBVIOUS
<1>1. /\ pc = "idle" /\ batch = "updates" /\ cmds = <<>> /\ fixups = <<>>
  BY DEF Init
<1>2. OnePlace
  BY InitOnePlace
<1>3. Asked
  BY <1>1 DEF Asked, Range
<1>4. Written /\ Others /\ Settled
  BY <1>1 DEF Written, Others, Settled, Busy
<1> QED BY <1>2, <1>3, <1>4 DEF SyncInv

\* The invariant is inductive, relative to those of the types, of the merge and of
\* the mode.
LEMMA SyncStep == IInv /\ MergeInv /\ ModeInv /\ SyncInv /\ [Next]_vars => SyncInv'
<1> SUFFICES ASSUME IInv, MergeInv, ModeInv, SyncInv, [Next]_vars PROVE SyncInv'
  OBVIOUS
<1>1. OnePlace /\ Asked /\ Written /\ Others /\ (edited = {} /\ clean => Settled)
  BY DEF SyncInv
<1>2. OnePlace' /\ Asked' /\ Written' /\ Others'
  BY <1>1, OnePlaceStep, AskedStep, WrittenStep, OthersStep
<1>3. edited' = {} /\ clean' => Settled'
  BY <1>1, SettledStep
<1> QED BY <1>2, <1>3 DEF SyncInv

\* A run that met no error, while no user changed a file, leaves every file as the
\* server has it, recorded with its revision or its attributes: whatever was left
\* behind by the runs before it, their errors, crashes and edits.  What was garbled
\* on the way has been repaired by the second batch.  Excepted are the files that a
\* user raced once; and no file is in two places, but for those said to be.
THEOREM Convergence == Spec => []Converges
<1>1. IInv /\ MergeInv /\ ModeInv /\ SyncInv /\ [Next]_vars => SyncInv'
  BY SyncStep
<1>2. SyncInv => Converges
  <2> SUFFICES ASSUME SyncInv, pc = "done", clean, edited = {}
               PROVE  /\ \A p \in Files \ raced : Synced(p)
                      /\ \A p \in Files \ split : ~(On(p) /\ On(Attic(p)))
    BY DEF Converges
  <2>1. \A p \in Files \ raced : Synced(p)
    BY DEF SyncInv, Settled
  <2>2. \A p \in Files \ split : ~(On(p) /\ On(Attic(p)))
    BY DEF SyncInv, OnePlace
  <2> QED BY <2>1, <2>2
<1> QED BY <1>1, <1>2, InitSync, Inductive, MergeInductive, ModeInductive, PTL DEF Spec
==============================================================================
