------------------------------- MODULE Update -------------------------------
(***************************************************************************)
(* One collection brought up to date, run after run: the lister's walk     *)
(* over the status file (lister.c, attrstack.c), the detailer's answers    *)
(* (detailer.c) and the updater's work on files, directories and status    *)
(* file (updater.c, status.c), with crashes, lost connections, garbled     *)
(* transfers, a deletion limit and users who change files meanwhile.       *)
(*                                                                         *)
(* A file is a path; in CVS mode a dead file is in the directory Attic,    *)
(* component 0.  The content of a file is one of the server's versions     *)
(* "v1" and "v2" or "local", a user's; a "+" says that it was touched.     *)
(* The attributes of a file (type, times, size, mode) are as good as its   *)
(* content: they are represented by the same values.                       *)
(*                                                                         *)
(* The threads run concurrently, but for each file the lister, the         *)
(* detailer and the updater act in this order and look at this file only,  *)
(* so Start and Detail take all files at once; what a user does to a file  *)
(* may fall before, between or after them.                                 *)
(***************************************************************************)
EXTENDS Status, FiniteSets

CONSTANTS
    Files,        \* the paths of the files
    RcsFiles,     \* those of them that are RCS files
    Limits,       \* the deletion limits of a run, -1 for none
    MaxDiff,      \* files that differ between base and server
    MaxFaults     \* crashes, lost connections, edits and so on

Far == 2147483647                                          \* INT_MAX

\* No name of a collection is empty or too long, none is a file and a directory
\* at once, and none has a directory named Attic.
ASSUME UpdateAssumption ==
    /\ Files \subseteq Seq(Nat \ {0}) \ {<<>>}
    /\ \A p, q \in Files : Len(p) < Far /\ ~IsStrictPrefix(p, q)
    /\ IsFiniteSet(Files)
    /\ RcsFiles \subseteq Files
    /\ Limits \subseteq Nat \cup {-1}
    /\ MaxFaults \in Nat

VARIABLES
    cvs,          \* CVS mode, otherwise checkout mode
    srv,          \* the server's tree
    disk,         \* the client's files: a function from their places
    dirs,         \* the client's directories
    stat,         \* the status file: scan time, records, whole lines only
    pc,           \* what the run does next
    batch,        \* "updates" or "fixups"
    cmds,         \* requests, details or commands on their way
    st,           \* the open status file
    want,         \* history: the file records it should end up with
    fixups,       \* files whose transfer has to be repeated
    limit,        \* deletions the run may still do, -1 for any number
    clean,        \* history: the run has met no error and no bad transfer
    known,        \* history: the files listed to the server
    edited,       \* history: files a user changed while the run was on
    split,        \* history: files that may have been left in two places
    raced,        \* history: files recorded with the attributes of a user's change
    faults
disks == <<disk, dirs>>
input == <<cvs, srv>>
history == <<known, edited, split, raced, faults>>
vars == <<input, disks, stat, pc, batch, cmds, st, want, fixups, limit, clean,
          history>>

ScanTime == 1                                   \* of the server's tree
NoFile == [scan |-> -1, recs |-> <<>>, whole |-> TRUE]
Versions == {"v1", "v2"}
Touch(e) == CASE e = "v1" -> "v1+" [] e = "v2" -> "v2+" [] OTHER -> e
Ver(e) == CASE e = "v1+" -> "v1" [] e = "v2+" -> "v2" [] OTHER -> e

\* By rank: SetToSortSeq would enumerate the functions from 1..n to S.  There
\* is a member of every rank if Less is a linear order on S; whatever Less is,
\* the sequence is one of members of S.
Sorted(S, Less(_, _)) ==
    LET Rank(x) == Cardinality({y \in S : Less(y, x)})
    IN [i \in 1..Cardinality(S) |->
          CHOOSE x \in S : Rank(x) = i - 1 \/ \A y \in S : Rank(y) # i - 1]

-----------------------------------------------------------------------------
(* Places: cvspath(), checkoutpath(), atticpath(), mkdirhier() *)

Attic(p) == Front(p) \o <<0, Last(p)>>
Place(p, attic) == IF attic THEN Attic(p) ELSE p
Existing(p) == IF p \in DOMAIN disk THEN p ELSE Attic(p)
On(place) == place \in DOMAIN disk
Above(p) == {SubSeq(p, 1, n) : n \in 1..(Len(p) - 1)}
With(f, x, e) == [y \in DOMAIN f \cup {x} |-> IF y = x THEN e ELSE f[y]]
Without(f, x) == [y \in DOMAIN f \ {x} |-> f[y]]

\* updater_prunedirs(): rmdir() upwards until one fails.  In the mutant it does
\* not fail.
PrunedBlindly(files, place) == dirs \ Above(place)
Pruned(files, place) ==
    IF Front(place) \notin dirs THEN dirs
    ELSE dirs \ {a \in Above(place) :
                   /\ \A f \in files : ~IsStrictPrefix(a, f)
                   /\ \A d \in dirs : IsStrictPrefix(a, d) => IsPrefix(d, place)}

-----------------------------------------------------------------------------
(* The lister.  w.here is the directory the server is in, following D and  *)
(* U; w.stack the attribute stack, here the directories they belong to;    *)
(* w.own whether every directory left was compared with its own.           *)

Item(t, p, a) == [type |-> t, path |-> p, attr |-> a]
Emit(w, t, r, a) == [w EXCEPT !.out = Append(@, Item(t, Append(w.here, Last(r.path)), a))]
Equal(r, a) == IF r.attr = a THEN a ELSE Bogus

\* lister_dodirdown()
ListDirDown(w, r) ==
    IF r.path \in dirs
    THEN [w EXCEPT !.out = Append(@, Item("D", Append(w.here, Last(r.path)), "")),
                   !.here = Append(@, Last(r.path)),
                   !.stack = Append(@, r.path)]
    ELSE [(IF On(r.path) THEN Emit(w, "F", r, Bogus) ELSE w) EXCEPT !.prune = w.depth]
\* lister_dodirup()
ListDirUp(w, r) ==
    [w EXCEPT !.out = Append(@, Item("U", w.here, Equal(r, "dir"))),
              !.here = Front(@),
              !.own = @ /\ w.stack # <<>> /\ Last(w.stack) = r.path,
              !.stack = Front(@)]
\* lister_dofile().  The mutant does not compare the attributes.
ListFileTrusting(w, r) == Emit(w, "F", r, IF On(r.path) THEN r.ver ELSE Bogus)
ListFile(w, r) ==
    Emit(w, "F", r, IF On(r.path) /\ disk[r.path] = r.attr THEN r.ver ELSE Bogus)
\* lister_dodead()
ListDead(w, r) ==
    IF On(r.path) THEN Emit(w, "F", r, Bogus) ELSE Emit(w, "f", r, r.ver)
\* lister_dorcs()
ListRcs(w, r) ==
    LET place == Place(r.path, r.type = "v")
    IN IF On(place)
       THEN Emit(w, IF r.type = "v" THEN "f" ELSE "F", r, Equal(r, disk[place]))
       ELSE Emit(w, "F", r, Bogus)

ListAnyFile(w, r) ==
    CASE r.type = "C" -> ListFile(w, r)
      [] r.type = "c" -> ListDead(w, r)
      [] OTHER -> IF cvs THEN ListRcs(w, r) ELSE w

\* One record of lister_coll().  The mutant does not end the pruning.
LeavePruned(w, r) == IF w.depth < w.prune THEN ListDirUp(w, r) ELSE w
Leave(w, r) ==
    IF w.depth < w.prune THEN ListDirUp(w, r)
    ELSE IF w.depth = w.prune THEN [w EXCEPT !.prune = Far]
    ELSE w
ListRecord(w, r) ==
    CASE r.type = "D" ->
           LET v == [w EXCEPT !.depth = @ + 1]
           IN IF v.depth < v.prune THEN ListDirDown(v, r) ELSE v
      [] r.type = "U" -> [Leave(w, r) EXCEPT !.depth = @ - 1]
      [] OTHER -> IF w.depth >= w.prune THEN w ELSE ListAnyFile(w, r)
Walk(recs) ==
    FoldLeft(ListRecord, [out |-> <<>>, here |-> <<>>, stack |-> <<>>, own |-> TRUE,
                          depth |-> 0, prune |-> Far], recs)

-----------------------------------------------------------------------------
(* The server: its tree, and its comparison with the client's list *)

SrvFile(at, v) == [at |-> at, ver |-> v]
Has(tree, p) == tree[p].at # "none"
Live(tree, p) == tree[p].at = "live"
Stored(tree, p) == IF cvs THEN Has(tree, p) ELSE Live(tree, p)
DirsOf(tree) == UNION {Above(p) : p \in {q \in Files : Has(tree, q)}}
SentDirs(tree) == UNION {Above(p) : p \in {q \in Files : Stored(tree, q)}}
SrvAttr(p) == IF Stored(srv, p) THEN srv[p].ver ELSE "dead"

Cmd(c, p, v, from) == [cmd |-> c, path |-> p, ver |-> v, from |-> from]
Order(S) ==
    LET Type(c) == CASE c \in {"J", "j"} -> "U" [] c \in {"I", "i"} -> "D" [] OTHER -> "C"
        Key2(x) == Rec(Type(x.cmd), x.path, "", "")
    IN Sorted(S, LAMBDA x, y : RecLess(Key2(x), Key2(y)))

\* What the server requests of the detailer for a list of files.
Requests(list) ==
    LET listed == Range(list)
        DirsListed == {x.path : x \in {y \in listed : y.type = "D"}}
        Known(p) == Item(IF Live(srv, p) THEN "F" ELSE "f", p, SrvAttr(p)) \in listed
        Update == IF cvs THEN "T" ELSE "U"
    IN Order({Cmd("I", d, "", "") : d \in SentDirs(srv) \ DirsListed}
       \cup {Cmd("J", d, "", "") :
                d \in {e \in SentDirs(srv) : Item("U", e, "dir") \notin listed}}
       \cup {Cmd(c, d, "", "") : c \in {"i", "j"}, d \in DirsListed \ DirsOf(srv)}
       \cup {Cmd("D", x.path, "", "") :
                x \in {y \in listed : y.type \in {"F", "f"} /\ ~Has(srv, y.path)}}
       \cup {Cmd(IF cvs /\ ~Live(srv, p) THEN "t" ELSE Update, p, SrvAttr(p), "") :
                p \in {q \in Files : Has(srv, q) /\ ~Known(q)}})

-----------------------------------------------------------------------------
(* The detailer.  A detail is a Cmd, from what the client has. *)

\* detailer_send_co().  The mutant does not compare the attributes.
DetailTrusting(q, sr) ==
    IF ~On(q.path) THEN Cmd("C", q.path, "", "")
    ELSE IF sr # <<>> /\ sr[1].type = "C" THEN Cmd("U", q.path, "", sr[1].ver)
    ELSE Cmd("S", q.path, "", Ver(disk[q.path]))
DetailCheckout(q, sr) ==
    IF ~On(q.path) THEN Cmd("C", q.path, "", "")
    ELSE IF sr # <<>> /\ sr[1].type = "C" /\ sr[1].attr = disk[q.path]
    THEN Cmd("U", q.path, "", sr[1].ver)
    ELSE Cmd("S", q.path, "", Ver(disk[q.path]))
\* detailer_send_regular(), detailer_send_rsync()
DetailRegular(q) ==
    IF On(q.path) THEN Cmd("r", q.path, "", disk[q.path]) ELSE Cmd("A", q.path, "", "")
\* detailer_send_rcs(): valid says whether a user's file parses as RCS.
DetailRcs(q, valid) ==
    IF disk[Existing(q.path)] = "local" /\ ~valid THEN DetailRegular(q)
    ELSE Cmd("V", q.path, "", Ver(disk[Existing(q.path)]))
\* detailer_checkrcsattr(), detailer_send_details()
DetailCvs(q, valid) ==
    LET place == Place(q.path, q.cmd = "t")
    IN IF On(place) /\ disk[place] = q.ver
       THEN Cmd(IF q.cmd = "t" THEN "l" ELSE "L", q.path, disk[place], "")
       ELSE IF ~On(Existing(q.path)) THEN Cmd("A", q.path, "", "")
       ELSE IF q.path \in RcsFiles THEN DetailRcs(q, valid)
       ELSE DetailRegular(q)

\* detailer_coll(): status_get() only reads and never goes back.
DetailOne(x, q, valid) ==
    LET key == Key(q.path, FALSE)
        s == IF q.cmd = "U" /\ On(q.path) THEN Seek(x.st, key, TRUE) ELSE x.st
        d == CASE q.cmd = "U" -> DetailCheckout(q, IF Found(s, key) THEN s.cur ELSE <<>>)
               [] q.cmd \in {"T", "t"} -> DetailCvs(q, valid)
               [] OTHER -> q
    IN [st |-> s, out |-> Append(x.out, d)]

Details(valid) ==
    LET One(x, q) == DetailOne(x, q, valid)
    IN FoldLeft(One, [st |-> Open(stat, -1), out |-> <<>>], cmds).out

\* What the server answers to a detail, on the updater's channel.
Answer(d) ==
    LET p == d.path
        To(c, from) == Cmd(c, p, SrvAttr(p), from)
        Edit(from) == IF from = srv[p].ver THEN To("T", "") ELSE To("U", from)
    IN IF d.cmd \in {"C", "U", "S"} /\ ~Live(srv, p)
       THEN To(IF d.cmd = "C" THEN "c" ELSE "u", "")
       ELSE
       CASE d.cmd = "U" -> Edit(d.from)
         [] d.cmd = "S" -> IF d.from \in Versions THEN Edit(d.from) ELSE To("C", "")
         [] d.cmd = "A" -> To(IF Live(srv, p) THEN "A" ELSE "a", "")
         [] d.cmd = "V" -> To(IF Live(srv, p) THEN "V" ELSE "v", d.from)
         [] d.cmd = "r" -> To(IF Live(srv, p) THEN "r" ELSE "a", d.from)
         [] d.cmd = "C" -> To("C", "")
         [] OTHER -> d

-----------------------------------------------------------------------------
(* The updater *)

FileRecs(recs) == {r \in Range(recs) : r.type \notin DirTypes}
Cur == Head(cmds)
At(S) == pc = "apply" /\ cmds # <<>> /\ Cur.cmd \in S
Consume == cmds' = Tail(cmds) /\ UNCHANGED <<input, stat, pc, batch>>
Recorded(r) ==
    /\ st' = Put(st, r)
    /\ want' = {w \in want : w.path # r.path} \cup {r}
Forgotten(p) ==
    /\ st' = Delete(st, p, FALSE)
    /\ want' = {w \in want : w.path # p}
Fail ==
    /\ batch' = "failed" /\ cmds' = <<>> /\ clean' = FALSE /\ pc' = "apply"
    /\ UNCHANGED <<input, disks, stat, st, want, fixups, limit>>
NoFault == UNCHANGED history
Fault == faults < MaxFaults /\ faults' = faults + 1

\* case 'I'
MakeDir ==
    /\ At({"I"})
    /\ dirs' = dirs \cup Above(Cur.path) \cup {Cur.path}
    /\ st' = Put(st, Rec("D", Cur.path, "", ""))
    /\ Consume /\ NoFault
    /\ UNCHANGED <<disk, want, fixups, limit, clean>>

\* cases 'i' and 'j': 'j' removes the directory, if it is empty
RemoveDir ==
    /\ At({"i", "j"})
    /\ dirs' = IF Cur.cmd = "j"
               /\ \A p \in DOMAIN disk \cup dirs : ~IsStrictPrefix(Cur.path, p)
               THEN dirs \ {Cur.path} ELSE dirs
    /\ st' = Delete(st, Cur.path, FALSE)
    /\ Consume /\ NoFault
    /\ UNCHANGED <<disk, want, fixups, limit, clean>>

\* case 'J', updater_setdirattrs().  The mutant does not record the attributes.
SetDirBlindly ==
    /\ At({"J"}) /\ NoFault
    /\ \/ Cur.path \notin dirs /\ Fail
       \/ /\ Cur.path \in dirs
          /\ st' = Put(st, Rec("U", Cur.path, "", Bogus))
          /\ Consume
          /\ UNCHANGED <<disks, want, fixups, limit, clean>>
SetDirAttrs ==
    /\ At({"J"}) /\ NoFault
    /\ \/ Cur.path \notin dirs /\ Fail
       \/ /\ Cur.path \in dirs
          /\ st' = Put(st, Rec("U", Cur.path, "", "dir"))
          /\ Consume
          /\ UNCHANGED <<disks, want, fixups, limit, clean>>

\* updater_delete(), updater_deletefile(): the deletion limit is looked at
\* first.  In CVS mode only the live place is cleared, and directories are left
\* to 'j'.
Limited == limit = 0 /\ Fail /\ NoFault
Deleted(p) ==
    /\ limit # 0
    /\ limit' = IF limit > 0 THEN limit - 1 ELSE limit
    /\ disk' = Without(disk, p)
    /\ dirs' = IF cvs THEN dirs ELSE Pruned(DOMAIN disk', p)
    /\ split' = IF cvs /\ On(Attic(p)) THEN split \cup {p} ELSE split
    /\ UNCHANGED <<fixups, clean, known, edited, raced, faults>>

\* case 'D'
RemoveFile ==
    /\ At({"D"})
    /\ Limited \/ (Deleted(Cur.path) /\ Forgotten(Cur.path) /\ Consume)

\* case 'u'
UpdateDead ==
    /\ At({"u"})
    /\ \/ Limited
       \/ /\ Deleted(Cur.path)
          /\ Recorded(Rec("c", Cur.path, "dead", "")) /\ Consume

\* case 'c': there should be no file
CheckoutDead ==
    /\ At({"c"})
    /\ \/ On(Cur.path) /\ Limited
       \/ /\ On(Cur.path) /\ Deleted(Cur.path)
          /\ Recorded(Rec("c", Cur.path, "dead", "")) /\ Consume
       \/ /\ ~On(Cur.path)
          /\ Recorded(Rec("c", Cur.path, "dead", "")) /\ Consume
          /\ NoFault
          /\ UNCHANGED <<disks, fixups, limit, clean>>

\* case 'T', updater_setattrs(): only the mode is set
SetAttrs ==
    /\ At({"T"})
    /\ IF On(Cur.path) THEN Recorded(Rec("C", Cur.path, Cur.ver, disk[Cur.path]))
       ELSE Forgotten(Cur.path)
    /\ raced' = IF On(Cur.path) /\ Ver(disk[Cur.path]) # Cur.ver
                THEN raced \cup ({Cur.path} \cap edited) ELSE raced
    /\ Consume
    /\ UNCHANGED <<known, edited, split, faults>>
    /\ UNCHANGED <<disks, fixups, limit, clean>>

\* cases 'L' and 'l'
RecordCvs ==
    /\ At({"L", "l"})
    /\ Recorded(Rec(IF Cur.cmd = "l" THEN "v" ELSE "V", Cur.path, "", Cur.ver))
    /\ Consume /\ NoFault
    /\ UNCHANGED <<disks, fixups, limit, clean>>

\* Where a file comes from and where it goes.  A file that moves to or from the
\* Attic is removed from its old place afterwards, by Unlink; origpath is only
\* looked at by updater_rcsedit().
Orig == Existing(Cur.path)
Dest == Place(Cur.path, Cur.cmd \in {"a", "x", "v"})
Moves == Cur.cmd \in {"V", "v"} /\ Orig # Dest
NextOrUnlink(moves) ==
    IF moves THEN pc' = "unlink" /\ UNCHANGED cmds
             ELSE pc' = "apply" /\ cmds' = Tail(cmds)

\* updater_needfixup().  The mutant does not call fixups_put().
NoFixup == UNCHANGED <<disk, st, want, fixups, clean>>
NeedFixup ==
    /\ fixups' = IF batch = "fixups" THEN fixups ELSE Append(fixups, Cur.path)
    /\ clean' = (clean /\ batch # "fixups")
    /\ UNCHANGED <<disk, st, want>>

\* updater_updatefile(): good says whether the checksum is the one announced.
\* The file is installed, and recorded by RecordFile.
UpdateFile(good) ==
    /\ IF good THEN /\ disk' = With(disk, Dest, Cur.ver)
                    /\ pc' = IF Moves THEN "move" ELSE "record"
                    /\ UNCHANGED <<cmds, st, want, fixups, clean>>
       ELSE NeedFixup /\ NextOrUnlink(Moves)
    /\ UNCHANGED <<input, stat, batch>>

\* The rest of updater_updatefile(): the attributes recorded are those of
\* whatever is there by then.
FileRec(a) ==
    CASE Cur.cmd \in {"C", "Y", "U"} -> Rec("C", Cur.path, Cur.ver, a)
      [] Cur.cmd \in {"a", "x", "v"} -> Rec("v", Cur.path, "", a)
      [] OTHER -> Rec("V", Cur.path, "", a)
RecordFile ==
    /\ pc \in {"record", "move"}
    /\ \/ ~On(Dest) /\ Fail /\ NoFault
       \/ /\ On(Dest)
          /\ Recorded(FileRec(disk[Dest]))
          /\ NextOrUnlink(pc = "move")
          /\ raced' = IF ~cvs /\ Ver(disk[Dest]) # Cur.ver
                      THEN raced \cup ({Cur.path} \cap edited) ELSE raced
          /\ UNCHANGED <<input, disks, stat, batch, fixups, limit, clean,
                         known, edited, split, faults>>

\* A transfer that needs no old content may still be garbled.
Received(good) ==
    \/ good /\ UNCHANGED faults
    \/ ~good /\ Fault

\* cases 'C' and 'Y', updater_checkout()
Checkout ==
    /\ At({"C", "Y"})
    /\ \E good \in BOOLEAN : Received(good) /\ UpdateFile(good)
    /\ dirs' = dirs \cup Above(Cur.path)
    /\ UNCHANGED <<limit, known, edited, split, raced>>

\* The new content is made from the old one.
Patched ==
    /\ On(Cur.path)
    /\ \E ok \in BOOLEAN :
         /\ Received(ok)
         /\ UpdateFile(ok /\ Ver(disk[Cur.path]) = Ver(Cur.from))
    /\ UNCHANGED <<dirs, limit, known, edited, split, raced>>
Mispatched == On(Cur.path) => Ver(disk[Cur.path]) # Ver(Cur.from)

\* case 'U', updater_diff(): a diff that does not fit is an error, or leads to
\* a wrong checksum.
Diff ==
    /\ At({"U"})
    /\ (Mispatched /\ Fail /\ NoFault) \/ Patched

\* case 'r', updater_rsync()
Rsync ==
    /\ At({"r"})
    /\ (~On(Cur.path) /\ Fail /\ NoFault) \/ Patched

\* updater_addfile()
AddFile(attic) ==
    LET p == Cur.path
    IN /\ \E good \in BOOLEAN :
            /\ Received(good)
            /\ UpdateFile(good)
            /\ split' = IF good /\ On(Place(p, ~attic)) THEN split \cup {p} ELSE split
       /\ dirs' = dirs \cup Above(Dest)
       /\ UNCHANGED <<limit, known, edited, raced>>
\* cases 'A' and 'a'
Add == At({"A", "a"}) /\ AddFile(Cur.cmd = "a")
\* cases 'X' and 'x'
RcsFixup == At({"X", "x"}) /\ AddFile(Cur.cmd = "x")

\* cases 'V' and 'v', updater_rcsedit()
Edits == Moves \/ Cur.from # Cur.ver
MaybeInvalid == disk[Orig] = "local" /\ Cur.from # "local"
RcsEdit ==
    /\ At({"V", "v"})
    /\ On(Orig)
    /\ UNCHANGED <<limit, known, edited, split, raced>>
    /\ dirs' = IF Moves THEN dirs \cup Above(Dest) ELSE dirs
    /\ \/ /\ Edits
          /\ \E ok \in BOOLEAN :
               Received(ok) /\ UpdateFile(ok /\ Ver(disk[Orig]) = Cur.from)
       \/ /\ ~Edits                           \* the attributes only
          /\ disk' = [disk EXCEPT ![Dest] = Ver(@)]
          /\ Recorded(FileRec(Ver(disk[Dest])))
          /\ Consume
          /\ UNCHANGED <<fixups, clean, faults>>

\* A file that is not there any more, or does not parse: without CO_EXACTRCS
\* an error, otherwise a fixup.
RcsEditFails ==
    /\ At({"V", "v"})
    /\ \/ ~On(Orig) /\ Fail
       \/ On(Orig) /\ Edits /\ MaybeInvalid /\ Fail
       \/ /\ On(Orig) /\ Edits /\ MaybeInvalid
          /\ NeedFixup /\ Consume
          /\ UNCHANGED <<dirs, limit>>
    /\ NoFault
Unlink ==
    LET old == Place(Cur.path, Cur.cmd # "v")
    IN /\ pc = "unlink"
       /\ disk' = Without(disk, old)
       /\ pc' = "apply" /\ cmds' = Tail(cmds)
       /\ NoFault
       /\ UNCHANGED <<input, dirs, stat, batch, st, want, fixups, limit, clean>>

-----------------------------------------------------------------------------
(* A run of csup *)

Whole(file) == file.whole /\ Readable(file.recs)
Reset ==
    /\ st' = Open(NoFile, -1) /\ cmds' = <<>> /\ fixups' = <<>> /\ want' = {}
    /\ batch' = "updates" /\ limit' = -1 /\ clean' = TRUE

\* lister_batch(): the list goes to the server.
Start ==
    /\ pc = "idle" /\ Whole(stat)
    /\ cmds' = Requests(Walk(stat.recs).out)
    /\ known' = {x.path : x \in ToSet(Walk(stat.recs).out)} \cap Files
    /\ \E n \in Limits : limit' = n /\ faults' = IF n = -1 THEN faults ELSE faults + 1
    /\ faults' <= MaxFaults
    /\ pc' = "detail" /\ edited' = {}
    /\ UNCHANGED <<input, disks, stat, batch, st, want, fixups, clean, split, raced>>

\* The lister fails on a status file that is not sound, and every run after
\* it, until the user removes the file.
RemoveStatus ==
    /\ pc = "idle" /\ ~Whole(stat)
    /\ stat' = NoFile
    /\ NoFault
    /\ UNCHANGED <<input, disks, pc, batch, cmds, st, want, fixups, limit, clean>>

\* updater_batch() opens the status file for each batch.
OpenStatus(file) ==
    /\ st' = Open(file, ScanTime)
    /\ want' = FileRecs(file.recs)
Detail ==
    /\ pc = "detail"
    /\ \E valid \in BOOLEAN :
         LET details == Details(valid)
         IN cmds' = [i \in DOMAIN details |-> Answer(details[i])]
    /\ OpenStatus(stat)
    /\ pc' = "apply"
    /\ NoFault
    /\ UNCHANGED <<input, disks, stat, batch, fixups, limit, clean>>

\* The server sends the files of the fixups queue as a whole.
FixupCmds ==
    [i \in DOMAIN fixups |->
       LET p == fixups[i]
       IN Cmd(IF ~cvs THEN "Y" ELSE IF Live(srv, p) THEN "X" ELSE "x",
              p, srv[p].ver, "")]

\* updater_batch(), updater(): after the updates the fixups, after an error
\* nothing.
NextBatch(file) ==
    \/ /\ batch = "updates"
       /\ batch' = "fixups" /\ cmds' = FixupCmds /\ fixups' = <<>>
       /\ OpenStatus(file)
       /\ pc' = "apply"
    \/ /\ batch # "updates"
       /\ pc' = "done"
       /\ UNCHANGED <<batch, cmds, st, want, fixups>>

\* status_close(): renames the new file, then closes the stream, which only
\* now writes it out.  Also after an error.
Close ==
    LET s == Finish(st)
    IN /\ pc = "apply" /\ cmds = <<>>
       /\ NoFault
       /\ UNCHANGED <<input, disks, limit, clean>>
       /\ \/ ~st.dirty /\ NextBatch(stat) /\ UNCHANGED stat
          \/ /\ st.dirty /\ s.abort
             /\ pc' = "aborted"
             /\ UNCHANGED <<stat, batch, cmds, st, want, fixups>>
          \/ /\ st.dirty /\ ~s.abort
             /\ stat' = [scan |-> st.scan, recs |-> s.out, whole |-> TRUE]
             /\ pc' = "flush"
             /\ UNCHANGED <<batch, cmds, st, want, fixups>>
Flush ==
    /\ pc = "flush"
    /\ NextBatch(stat)
    /\ NoFault
    /\ UNCHANGED <<input, disks, stat, limit, clean>>

\* The next run, the user's or cron's.
Again ==
    /\ pc \in {"done", "aborted"}
    /\ pc' = "idle" /\ Reset /\ NoFault
    /\ UNCHANGED <<input, disks, stat>>

-----------------------------------------------------------------------------
(* Faults *)

\* Whatever has not reached the disk is lost: of the status file, a part.
Crash ==
    /\ pc \notin {"idle", "done", "aborted"} /\ Fault
    /\ pc' = "idle" /\ Reset
    /\ \/ pc # "flush" /\ UNCHANGED stat
       \/ /\ pc = "flush"
          /\ \E n \in 0..Len(stat.recs), whole \in BOOLEAN :
               stat' = [stat EXCEPT !.recs = SubSeq(@, 1, n), !.whole = whole]
    /\ split' = IF pc \in {"move", "unlink"} THEN split \cup {Cur.path} ELSE split
    /\ UNCHANGED <<input, disks, known, edited, raced>>

\* "Premature EOF from server"
LostConnection ==
    /\ pc = "apply" /\ cmds # <<>> /\ Fault
    /\ Fail /\ UNCHANGED <<known, edited, split, raced>>

\* A user changes, touches or removes a file.
UserEdits ==
    /\ Fault
    /\ \E place \in DOMAIN disk :
         /\ disk' \in {[disk EXCEPT ![place] = "local"],
                      [disk EXCEPT ![place] = Touch(@)], Without(disk, place)}
         /\ disk' # disk
         /\ edited' = edited \cup {p \in Files : place \in {p, Attic(p)}}
    /\ UNCHANGED <<input, dirs, stat, pc, batch, cmds, st, want, fixups, limit, clean,
                   known, split, raced>>

-----------------------------------------------------------------------------
\* The client has the files of an older tree, and may have lost the status file.
StatusOf(tree) ==
    Sorted({Rec("D", d, "", "") : d \in DirsOf(tree)}
           \cup {Rec("U", d, "", IF d \in SentDirs(tree) THEN "dir" ELSE Bogus) :
                   d \in DirsOf(tree)}
           \cup {IF cvs THEN Rec(IF Live(tree, p) THEN "V" ELSE "v", p, "", tree[p].ver)
                 ELSE IF Live(tree, p) THEN Rec("C", p, tree[p].ver, tree[p].ver)
                 ELSE Rec("c", p, "dead", "") :
                   p \in {q \in Files : Has(tree, q)}}, RecLess)
Trees(ats, versions) ==
    {t \in [Files -> {SrvFile(at, v) : at \in ats, v \in versions}] :
       \A p \in Files : /\ t[p].at = "none" => t[p].ver = "v1"
                        /\ t[p].at = "dead" => p \in RcsFiles}
Init ==
    /\ cvs \in BOOLEAN
    /\ \E base \in Trees({"none", "live", "dead"}, {"v1"}) :
         /\ srv \in Trees({"none", "live", "dead"}, Versions)
         /\ \A p \in Files : srv[p].at = "dead" => (srv[p].ver = "v1") = (base[p].at = "dead")
         /\ Cardinality({p \in Files : srv[p] # base[p]}) \in 1..MaxDiff
         /\ disk = [l \in {Place(p, ~Live(base, p)) : p \in {q \in Files : Stored(base, q)}}
                      |-> "v1"]
         /\ dirs = UNION {Above(l) : l \in DOMAIN disk}
         /\ stat \in {[scan |-> 0, recs |-> StatusOf(base), whole |-> TRUE], NoFile}
    /\ pc = "idle" /\ batch = "updates" /\ limit = -1 /\ clean = TRUE
    /\ st = Open(NoFile, -1) /\ cmds = <<>> /\ fixups = <<>> /\ want = {}
    /\ known = {} /\ edited = {} /\ split = {} /\ raced = {} /\ faults = 0

Command ==
    \/ MakeDir \/ RemoveDir \/ SetDirAttrs \/ RemoveFile \/ UpdateDead \/ CheckoutDead
    \/ SetAttrs \/ RecordCvs \/ Checkout \/ Diff \/ Rsync \/ Add \/ RcsFixup
    \/ RcsEdit \/ RcsEditFails \/ RecordFile \/ Unlink
Run == Start \/ RemoveStatus \/ Detail \/ Command \/ Close \/ Flush \/ Again
Next == Run \/ Crash \/ LostConnection \/ UserEdits

Spec == Init /\ [][Next]_vars
\* Run is enabled in every state, and every other step adds a fault: this is
\* weak fairness of Run, as a formula that TLC evaluates faster.
LiveSpec == Spec /\ []<><<UNCHANGED faults>>_vars

-----------------------------------------------------------------------------
(* Properties *)

TypeOK ==
    /\ cvs \in BOOLEAN /\ clean \in BOOLEAN
    /\ \A l \in DOMAIN disk : /\ l \in Files \cup {Attic(p) : p \in RcsFiles}
                              /\ disk[l] \in Versions \cup {"v1+", "v2+", "local"}
                              /\ Above(l) \subseteq dirs
    /\ pc \in {"idle", "detail", "apply", "record", "move", "unlink", "flush", "done", "aborted"}
    /\ batch \in {"updates", "fixups", "failed"}
    /\ fixups \in Seq(Files) /\ edited \subseteq Files /\ split \subseteq RcsFiles
    /\ limit \in Nat \cup {-1} /\ faults \in 0..MaxFaults

\* While the updater replaces the records of some files, the old records that
\* are left, the one in hand and the new ones written together are the records
\* it put and the old ones of all other files, and no file has two of them.
MergeIsExact ==
    pc \in {"apply", "record", "move", "unlink"} =>
      LET recs == st.out \o Left(st)
      IN /\ FileRecs(recs) = want
         /\ \A i, j \in DOMAIN recs :
              i # j /\ recs[i].type \notin DirTypes => recs[i].path # recs[j].path

\* A status file that was written out completely passes the checks of
\* status_rdraw(): sorted, every directory opened and closed.
StatusReadable == pc = "flush" => Whole(stat)

\* The lister's pruning and its attribute stack follow the nesting of the
\* directories: every file whose directories exist is listed, under its own
\* path, no other is, and at the end it is back where it began.
ListerReports ==
    pc = "idle" /\ Whole(stat) =>
      LET w == Walk(stat.recs)
          Names(S) == {x.path : x \in {y \in S : y.type \notin DirTypes}}
      IN /\ Names(ToSet(w.out)) =
              Names({r \in ToSet(stat.recs) : Above(r.path) \subseteq dirs})
         /\ w.depth = 0 /\ w.stack = <<>> /\ w.here = <<>>

\* What the status file says of a checked-out file that has the recorded
\* attributes is its revision: the next run would patch it, or leave it alone,
\* without a look at its content.  The exceptions are updater_setattrs() and the
\* time between the rename and the stat of updater_updatefile(): they take the
\* attributes of whatever is there by then.
StatusIsHonest ==
    \A r \in ToSet(stat.recs) :
      r.type = "C" /\ On(r.path) /\ disk[r.path] = r.attr =>
        Ver(disk[r.path]) = r.ver \/ r.path \in raced

\* A file of the server is there, in its place, and recorded; one the server does
\* not have is gone, if it was known.
Agrees(p, recs) ==
    LET place == Place(p, cvs /\ ~Live(srv, p))
        own == {r \in recs : r.path = p}
    IN IF ~Has(srv, p) THEN p \in known => own = {} /\ ~On(p)
       ELSE IF Stored(srv, p)
       THEN /\ On(place) /\ Ver(disk[place]) = srv[p].ver
            /\ \E r \in own : r.attr = disk[place] /\ (~cvs => r.ver = srv[p].ver)
       ELSE ~On(p) /\ \E r \in own : r.type = "c"
Synced(p) == Agrees(p, FileRecs(stat.recs))

\* After a run that met no error, every file is as the server has it, and no file
\* has a second copy.
Converges ==
    pc = "done" /\ clean /\ edited = {} =>
      /\ \A p \in Files \ raced : Synced(p)
      /\ \A p \in Files \ split : ~(On(p) /\ On(Attic(p)))

\* The lister compares a directory with its own attributes, not with those of
\* another, and after a run without errors its list makes the server ask for
\* nothing but, again, what it cannot see: dead files in checkout mode.
NextListIsRight ==
    /\ pc = "idle" /\ Whole(stat) => Walk(stat.recs).own
    /\ pc = "done" /\ clean /\ edited = {} =>
         \A q \in ToSet(Requests(Walk(stat.recs).out)) :
           CASE q.path \in Files -> ~cvs /\ ~Live(srv, q.path) /\ ~On(q.path)
             [] OTHER -> cvs => q.path \notin SentDirs(srv)

AssertionsHold == pc # "aborted"
EventuallySynced == <>[](\A p \in Files \ raced : Synced(p))
=============================================================================
