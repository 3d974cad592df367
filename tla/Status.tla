------------------------------- MODULE Status -------------------------------
(***************************************************************************)
(* The status file of a collection (status.c) and the path compressor it   *)
(* writes through (pathcomp.c), as operators; module Update has the state. *)
(*                                                                         *)
(* A status file is a sorted sequence of records: "D" and "U" open and     *)
(* close a directory, "C" and "c" are a live and a dead file of checkout   *)
(* mode, "V" and "v" of CVS mode.  A path is a sequence of numbers, its    *)
(* components in the order of their names.                                 *)
(*                                                                         *)
(* While it is updated, the old file is read and a new one is written; an  *)
(* open status file is a record with the fields                            *)
(*   rd     the records of the old file that have not been read            *)
(*   cur    st->current, as a sequence of at most one record               *)
(*   pc     the directory the compressor is in                             *)
(*   out    the records that have been written                             *)
(*   dirty  st->dirty                                                      *)
(*   scan   the scan time of the new header                                *)
(*   abort  whether an assertion has failed                                *)
(***************************************************************************)
EXTENDS Integers, Sequences, SequencesExt, FiniteSets

Bogus == "bogus"                          \* fattr_bogus
Rec(t, p, v, a) == [type |-> t, path |-> p, ver |-> v, attr |-> a]
DirTypes == {"D", "U"}

\* pathcmp(): component by component, a directory before what is in it.
PathLess(p, q) ==
    \/ IsStrictPrefix(p, q)
    \/ \E i \in DOMAIN p \cap DOMAIN q :
         p[i] < q[i] /\ SubSeq(p, 1, i - 1) = SubSeq(q, 1, i - 1)

\* statusrec_cmp() < 0 and = 0: a DirUp comes after all that is in it, and is
\* never equal, not even to itself.
RecLess(r, s) ==
    IF r.type = "U" /\ IsPrefix(r.path, s.path) THEN FALSE
    ELSE IF s.type = "U" /\ IsPrefix(s.path, r.path) THEN TRUE
    ELSE PathLess(r.path, s.path)
RecEqual(r, s) == r.path = s.path /\ r.type # "U" /\ s.type # "U"

-----------------------------------------------------------------------------
(* pathcomp.c *)

\* commonpathlength(), in components.
Common(p, q) == Len(LongestCommonPrefix({p, q}))

\* pathcomp_put(): where the compressor has to go for a record.
Target(r) == IF r.type = "D" THEN r.path ELSE Front(r.path)

\* pathcomp_get() until it returns 0, going up and going down.  The first
\* DirUp has the attributes of the record that asked for it, if any.
Ups(pc, n, attr) ==
    [i \in 1..(Len(pc) - n) |->
       Rec("U", SubSeq(pc, 1, Len(pc) - i + 1), "",
           IF i = 1 THEN attr ELSE Bogus)]
Downs(target, n) ==
    [i \in 1..(Len(target) - n) |-> Rec("D", SubSeq(target, 1, n + i), "", "")]

-----------------------------------------------------------------------------
(* Writing *)

\* status_wr()
Write(st, r) ==
    LET n == Common(st.pc, Target(r))
        attr == IF r.type = "U" THEN r.attr ELSE Bogus
    IN [st EXCEPT
          !.pc = Target(r),
          !.out = @ \o Ups(st.pc, n, attr) \o Downs(Target(r), n)
                    \o (IF r.type \in DirTypes THEN <<>> ELSE <<r>>)]

\* "At this point, the necessary DirDowns and DirUps should have already been
\* emitted, so the compressor should return exactly one value in the
\* PC_DIRDOWN and PC_DIRUP case and none in the PC_FILE case."
InSync(st, r) ==
    CASE r.type = "D" -> Len(r.path) > 0 /\ st.pc = Front(r.path)
      [] r.type = "U" -> st.pc # <<>> /\ Front(st.pc) = Front(r.path)
      [] OTHER        -> st.pc = Front(r.path)

\* status_wrraw()
WriteRaw(st, r) ==
    IF st.abort \/ ~InSync(st, r)
    THEN [st EXCEPT !.abort = TRUE]
    ELSE [st EXCEPT !.pc = Target(r), !.out = Append(@, r)]

-----------------------------------------------------------------------------
(* The operations *)

\* status_open() for updating.
Open(file, scantime) ==
    [rd |-> file.recs, cur |-> <<>>, pc |-> <<>>, out |-> <<>>,
     dirty |-> scantime # file.scan, scan |-> scantime, abort |-> FALSE]

Key(path, isdirup) == Rec(IF isdirup THEN "U" ELSE "C", path, "", "")

\* status_get(): go to the first record that is not before the key.  What is
\* passed is copied, the record in hand by status_wr(), the others as they
\* are, unless it is to be deleted.
Left(st) == st.cur \o st.rd
Before(st, key) ==
    LET S == {i \in DOMAIN Left(st) : ~RecLess(Left(st)[i], key)}
    IN IF S = {} THEN Len(Left(st)) ELSE Min(S) - 1
Seek(st, key, deleteto) ==
    LET n == Before(st, key)
        passed == SubSeq(Left(st), 1, n)
        copied == IF deleteto \/ n = 0 THEN st
                  ELSE FoldLeft(WriteRaw, Write(st, passed[1]), Tail(passed))
    IN [copied EXCEPT
          !.cur = SubSeq(Left(st), n + 1, Min({n + 1, Len(Left(st))})),
          !.rd = SubSeq(Left(st), n + 2, Len(Left(st)))]
Found(st, key) == st.cur # <<>> /\ RecEqual(st.cur[1], key)

\* status_put().  A file that replaces a directory deletes all records up to
\* the DirUp, which is then expected to be found.  The mutant keeps the record
\* that is replaced.
DropNothing(st) == st
Drop(st) == [st EXCEPT !.cur = <<>>]
DropDir(st, path) ==
    LET s == Seek(st, Key(path, TRUE), TRUE)
    IN [s EXCEPT !.abort = @ \/ ~Found(s, Key(path, TRUE))]
Put(st, r) ==
    LET key == Key(r.path, r.type = "U")
        s == Seek(st, key, FALSE)
        t == IF ~Found(s, key) THEN s
             ELSE IF s.cur[1].type # "D" THEN Drop(s)
             ELSE IF r.type \in {"C", "c"} THEN DropDir(s, r.path)
             ELSE s
    IN Write([t EXCEPT !.dirty = TRUE], r)

\* status_delete()
Delete(st, path, isdirup) ==
    LET s == Seek(st, Key(path, isdirup), FALSE)
    IN IF Found(s, Key(path, isdirup)) THEN [Drop(s) EXCEPT !.dirty = TRUE]
       ELSE s

\* status_close() of a dirty file: copy the rest of the old file and close
\* off the open directories.  The mutant leaves them open.
FinishOpen(st) ==
    LET s == IF st.cur = <<>> THEN st ELSE Write(st, st.cur[1])
    IN [FoldLeft(WriteRaw, s, st.rd) EXCEPT !.cur = <<>>, !.rd = <<>>, !.pc = <<>>]
Finish(st) ==
    LET s == IF st.cur = <<>> THEN st ELSE Write(st, st.cur[1])
        t == FoldLeft(WriteRaw, s, st.rd)
    IN [t EXCEPT !.cur = <<>>, !.rd = <<>>, !.pc = <<>>,
                 !.out = @ \o Ups(t.pc, 0, Bogus)]

\* What status_rdraw() checks: sorted, no DirUp without its DirDown, no
\* directory left open at the end of the file.
Depth(recs, i) ==
    LET Marked(t) == {j \in 1..i : recs[j].type = t}
    IN Cardinality(Marked("D")) - Cardinality(Marked("U"))
Readable(recs) ==
    /\ \A i \in 2..Len(recs) : RecLess(recs[i - 1], recs[i])
    /\ \A i \in DOMAIN recs : Depth(recs, i) >= 0
    /\ Depth(recs, Len(recs)) = 0
=============================================================================
