-------------------------------- MODULE Diff --------------------------------
(***************************************************************************)
(* The edit scripts of RCS files (diff.c), as operators: diff_apply()      *)
(* makes the new text from the old one, diff_reverse() makes the script    *)
(* for the way back.  A text is a sequence of lines, a script a sequence   *)
(* of commands: "a" adds lines after line "where", "d" deletes "count"     *)
(* lines from line "where" on.  Keywords stay as they are (EXPAND_OLD).    *)
(***************************************************************************)
EXTENDS Integers, Sequences, SequencesExt, FiniteSets

AddLines(where, lines) ==
    [cmd |-> "a", where |-> where, count |-> Len(lines), lines |-> lines]
DelLines(where, count) ==
    [cmd |-> "d", where |-> where, count |-> count, lines |-> <<>>]

-----------------------------------------------------------------------------
(* Applying *)

\* struct editcmd: line counts the lines of orig that were read; lasta and
\* lastd are for the checks of the next command.
Edit(orig) ==
    [orig |-> orig, line |-> 0, out |-> <<>>, lasta |-> 0, lastd |-> 0, ok |-> TRUE]

\* diff_copyln(), diff_ignoreln(): on to line "to".
GoTo(e, to, copy) ==
    IF to <= e.line THEN e
    ELSE IF to > Len(e.orig) THEN [e EXCEPT !.ok = FALSE]
    ELSE [e EXCEPT !.out = IF copy THEN @ \o SubSeq(e.orig, e.line + 1, to) ELSE @,
                   !.line = to]

\* diff_geteditcmd(): commands have to go forward.
GetEditCmd(e, c) ==
    LET valid == IF c.cmd = "a" THEN c.where >= e.lasta
                 ELSE c.where >= e.lasta /\ c.where >= e.lastd
    IN [e EXCEPT !.ok = @ /\ valid /\ c.count > 0,
                 !.lasta = IF c.cmd = "a" THEN c.where + 1 ELSE c.where,
                 !.lastd = IF c.cmd = "a" THEN @ ELSE c.where + c.count]

\* diff_apply(), with comode off.
ApplyCmd(e, c) ==
    LET f == GetEditCmd(e, c)
        g == GoTo(f, IF c.cmd = "a" THEN c.where ELSE c.where - 1, TRUE)
    IN IF ~f.ok \/ ~g.ok THEN [f EXCEPT !.ok = FALSE]
       ELSE IF c.cmd = "a" THEN [g EXCEPT !.out = @ \o c.lines]
       ELSE GoTo(g, g.line + c.count, FALSE)
DiffApply(script, orig) ==
    LET e == FoldLeft(ApplyCmd, Edit(orig), script)
    IN [ok |-> e.ok,
        text |-> e.out \o SubSeq(e.orig, e.line + 1, Len(e.orig))]

-----------------------------------------------------------------------------
(* Reversing *)

MAXKEY == 1000                                       \* past the end of any text

\* An edit of the other direction: at line "key" of the new text "count" lines
\* were added; "offset" leads from lines of the new text to lines of the old.
Undo(key, offset, count) == [key |-> key, offset |-> offset, count |-> count]

\* diff_insert_edit(): sorted by key.
InsertEdit(ds, ec) ==
    LET after == SelectSeq(ds, LAMBDA x : ec.key < x.key)
        n == Len(ds) - Len(after)
    IN SubSeq(ds, 1, n) \o <<ec>> \o SubSeq(ds, n + 1, Len(ds))

\* diff_reverse(): a deletion waits for the next command in del, as an addition
\* at the same place belongs to it.  The mutant keeps the addition's offset.
InsertMixed(ds, del, add) ==
    IF del # <<>> /\ del[1].key = add.key - add.count THEN InsertEdit(ds, add)
    ELSE InsertEdit(FoldLeft(InsertEdit, ds, del), add)
InsertBoth(ds, del, add) ==
    IF del # <<>> /\ del[1].key = add.key - add.count
    THEN InsertEdit(ds, Undo(add.key, del[1].offset, add.count))
    ELSE InsertEdit(FoldLeft(InsertEdit, ds, del), add)
ReverseCmd(x, c) ==
    IF c.cmd = "a"
    THEN [ds |-> InsertBoth(x.ds, x.del, Undo(c.where + c.count - x.offset, x.offset, c.count)),
          del |-> <<>>, offset |-> x.offset - c.count]
    ELSE [ds |-> FoldLeft(InsertEdit, x.ds, x.del),
          del |-> <<Undo(c.where - 1 - x.offset, x.offset, 0)>>,
          offset |-> x.offset + c.count]

\* diff_write_reverse(): the last edit is only there to be the next one.  The
\* lines of orig are read once, in their order.
WriteReverse(x, ec, next) ==
    LET added == ec.count + next.offset - ec.offset
        start == ec.key - ec.count + 1 + ec.offset
        e == GoTo(GoTo([x.e EXCEPT !.out = <<>>], start - 1, FALSE),
                  start + added - 1, TRUE)
        del == IF ec.count > 0 THEN <<DelLines(ec.key - ec.count + 1, ec.count)>> ELSE <<>>
    IN IF added <= 0 THEN [x EXCEPT !.script = @ \o del]
       ELSE [e |-> e, script |-> x.script \o del \o <<AddLines(ec.key, e.out)>>]
DiffReverse(script, orig) ==
    LET x == FoldLeft(ReverseCmd, [ds |-> <<>>, del |-> <<>>, offset |-> 0], script)
        ds == InsertEdit(FoldLeft(InsertEdit, x.ds, x.del), Undo(MAXKEY, x.offset, 0))
        Step(y, i) == WriteReverse(y, ds[i], ds[i + 1])
    IN FoldLeft(Step, [e |-> Edit(orig), script |-> <<>>],
                [i \in 1..(Len(ds) - 1) |-> i]).script

-----------------------------------------------------------------------------
(* What the other side sends: the output of a diff program.  The lines that *)
(* stay are given as pairs of their numbers in the old and the new text.    *)

Alignments(old, new) ==
    {M \in SUBSET {p \in (DOMAIN old) \X (DOMAIN new) : old[p[1]] = new[p[2]]} :
       \A a, b \in M : a # b => \/ a[1] < b[1] /\ a[2] < b[2]
                                \/ b[1] < a[1] /\ b[2] < a[2]}
Script(old, new, M) ==
    LET ends == SetToSortSeq(M \cup {<<0, 0>>, <<Len(old) + 1, Len(new) + 1>>},
                             LAMBDA a, b : a[1] < b[1])
        Hunk(a, b) ==
            (IF b[1] > a[1] + 1 THEN <<DelLines(a[1] + 1, b[1] - a[1] - 1)>> ELSE <<>>)
            \o (IF b[2] > a[2] + 1
                THEN <<AddLines(b[1] - 1, SubSeq(new, a[2] + 1, b[2] - 1))>> ELSE <<>>)
    IN FlattenSeq([i \in 1..(Len(ends) - 1) |-> Hunk(ends[i], ends[i + 1])])
DiffOf(old, new) ==
    Script(old, new, CHOOSE M \in Alignments(old, new) :
                       \A N \in Alignments(old, new) : Cardinality(N) <= Cardinality(M))
=============================================================================
