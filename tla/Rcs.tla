--------------------------------- MODULE Rcs ---------------------------------
(***************************************************************************)
(* An RCS file edited by the updater (rcsfile.c, with rcsparse.c, diff.c   *)
(* and updater_rcsedit()): the file is read into a tree of deltas, deltas  *)
(* are deleted and added, and the tree is written out as a new file.       *)
(*                                                                         *)
(* A revision is a sequence of numbers, <<1, 2>> on the trunk, <<1, 2, 2,  *)
(* 1>> on branch <<1, 2, 2>> that starts at <<1, 2>>.  The newest trunk    *)
(* revision, the head, is stored as a whole, the other ones on the trunk   *)
(* as scripts from the next newer one, those on a branch as scripts from   *)
(* the one before or from the branchpoint.                                 *)
(***************************************************************************)
EXTENDS Diff

CONSTANTS
    Revs,         \* the revisions there may be
    Contents,     \* possible histories: functions from Revs to texts
    Date(_)       \* the date of a revision
\* A revision has pairs of numbers.
ASSUME RevsAssumption ==
    /\ IsFiniteSet(Revs)
    /\ \A r \in Revs : r \in Seq(Nat) /\ \E n \in 1..Len(r) : Len(r) = 2 * n

VARIABLES
    content,      \* what the revisions of this file contain
    file,         \* the client's RCS file
    goal,         \* the revisions the server's file has
    rf,           \* struct rcsfile
    pc,           \* "idle", "edit", "written"
    del, add,     \* revisions the server still has to delete and to add
    new           \* the temporary file
vars == <<content, file, goal, rf, pc, del, add, new>>

None == <<>>
Tag == "tag"
Text(full, body) == [full |-> full, body |-> body]
NoText == Text(FALSE, <<>>)

\* rcsnum_cmp(), rcsrev_istrunk(), rcsrev_prefix()
RevLess(p, q) ==
    \/ IsStrictPrefix(p, q)
    \/ \E i \in DOMAIN p \cap DOMAIN q :
         p[i] < q[i] /\ SubSeq(p, 1, i - 1) = SubSeq(q, 1, i - 1)
IsTrunk(r) == Len(r) = 2
BranchId(r) == IF IsTrunk(r) THEN <<1>> ELSE Front(r)
BranchPoint(r) == Front(Front(r))
Newest(S) == CHOOSE r \in S : \A s \in S : s = r \/ RevLess(s, r)

-----------------------------------------------------------------------------
(* The delta tree: the sorted table of all deltas, the deltas of each        *)
(* branch, and the branches that start at each delta.                        *)

\* rcsfile_frompath() before it parses.
EmptyFile ==
    [head |-> None, branch |-> None, tags |-> <<>>, table |-> <<>>, placeholder |-> {},
     list |-> [b \in {BranchId(r) : r \in Revs} |-> <<>>],
     branches |-> [r \in Revs |-> <<>>], base |-> [r \in Revs |-> None],
     text |-> [r \in Revs |-> NoText]]

InsertBefore(seq, x, Test(_)) ==
    LET S == {i \in DOMAIN seq : Test(seq[i])}
    IN InsertAt(seq, IF S = {} THEN Len(seq) + 1 ELSE Min(S), x)

\* rcsfile_insertsorteddelta().  The mutant puts it at the end.
AppendDelta(table, r) == Append(table, r)
InsertSortedDelta(table, r) == InsertBefore(table, r, LAMBDA s : ~RevLess(s, r))
\* rcsfile_insertdelta(): the trunk from the newest on, a branch from the oldest
InsertDelta(deltas, r) ==
    IF IsTrunk(r) THEN InsertBefore(deltas, r, LAMBDA s : ~RevLess(r, s))
    ELSE InsertBefore(deltas, r, LAMBDA s : RevLess(r, s))
\* rcsdelta_insertbranch(): the newest first.  The mutant puts it at the end.
AppendBranch(branches, b) == Append(branches, b)
InsertBranch(branches, b) == InsertBefore(branches, b, LAMBDA c : RevLess(c, b))

\* rcsfile_createdelta()
CreateDelta(f, r, base) ==
    [f EXCEPT !.base[r] = base, !.text[r] = NoText, !.branches[r] = <<>>]
\* rcsfile_getbranch(); a branch that is not there yet is created.
GetBranch(f, r) ==
    LET b == BranchId(r)
        bp == BranchPoint(r)
    IN IF IsTrunk(r) \/ b \in Range(f.branches[bp]) THEN f
       ELSE [f EXCEPT !.branches[bp] = InsertBranch(@, b), !.list[b] = <<>>]
Insert(f, r) == [GetBranch(f, r) EXCEPT !.list[BranchId(r)] = InsertDelta(@, r)]

\* rcsfile_importdelta().  The next delta becomes a placeholder, with this one
\* as its base; the base of the first one on a branch is the branchpoint.
IsKnown(f, r) == r \in Range(f.table)
AddNext(f, next, r) ==
    IF next = None THEN f
    ELSE [CreateDelta(f, next, r) EXCEPT !.table = InsertSortedDelta(@, next),
                                         !.placeholder = @ \cup {next}]
ImportDelta(f, d) ==
    LET r == d.rev
        g == Insert(IF IsKnown(f, r) THEN f ELSE CreateDelta(f, r, None), r)
        first == ~IsTrunk(r) /\ Head(g.list[BranchId(r)]) = r
    IN IF IsKnown(f, r) /\ r \notin f.placeholder THEN f
       ELSE IF IsKnown(f, r)
       THEN AddNext([g EXCEPT !.placeholder = @ \ {r}], d.next, r)
       ELSE AddNext([g EXCEPT !.table = InsertSortedDelta(@, r),
                              !.base[r] = IF first THEN BranchPoint(r) ELSE @],
                    d.next, r)
\* The same for a file that is only read: the table is all there is.  The mutant
\* does not recognise the placeholder.
ImportTwice(f, d) ==
    AddNext([f EXCEPT !.table = InsertSortedDelta(@, d.rev)], d.next, d.rev)
ImportReadOnly(f, d) ==
    IF IsKnown(f, d.rev)
    THEN AddNext([f EXCEPT !.placeholder = @ \ {d.rev}], d.next, d.rev)
    ELSE AddNext([f EXCEPT !.table = InsertSortedDelta(@, d.rev)], d.next, d.rev)

\* parse_deltatexts(), rcsdelta_addtext()
ImportText(f, t) == IF IsKnown(f, t.rev) THEN [f EXCEPT !.text[t.rev] = t.text] ELSE f
\* parse_admin()
ImportAdmin(x) ==
    [EmptyFile EXCEPT !.head = x.head, !.branch = x.branch, !.tags = x.tags]
\* rcsparse()
Parse(x) == FoldLeft(ImportText, FoldLeft(ImportDelta, ImportAdmin(x), x.deltas), x.texts)
\* rcsfile_send_details(), of a file that was opened read-only
Details(x) == FoldLeft(ImportReadOnly, ImportAdmin(x), x.deltas).table

-----------------------------------------------------------------------------
(* Writing *)

\* rcsfile_write(): the stack of deltas that are still to be written.  Branches
\* that have lost all their deltas are passed over.
Firsts(f, r) ==
    LET heads == [i \in DOMAIN f.branches[r] |-> f.list[f.branches[r][i]]]
    IN [i \in DOMAIN heads |-> IF heads[i] = <<>> THEN None ELSE Head(heads[i])]
NextOf(f, r) ==
    LET deltas == f.list[BranchId(r)]
        i == CHOOSE i \in DOMAIN deltas : deltas[i] = r
    IN IF i = Len(deltas) THEN None ELSE deltas[i + 1]
IfAny(r) == IF r = None THEN <<>> ELSE <<r>>
\* One turn of the loop.  It would pass over a placeholder; TreeSound says that
\* there is none by then.
Push(stack, r) == IfAny(r) \o stack
WriteDelta(f, x) ==
    LET r == Head(x.stack)
        heads == FoldLeft(Push, <<>>, Firsts(f, r))
    IN IF x.stack = <<>> THEN x
       ELSE [stack |-> IfAny(NextOf(f, r)) \o heads \o Tail(x.stack),
             out |-> Append(x.out, [rev |-> r, branches |-> heads, next |-> NextOf(f, r)])]
\* The loop ends with an empty stack: a delta is on it once, so there are no more
\* turns than deltas.
WriteDeltas(f, head) ==
    LET Turn(x, r) == WriteDelta(f, x)
    IN FoldLeft(Turn, [stack |-> <<head>>, out |-> <<>>], f.table).out

\* rcsfile_getdeltatext()
GetDeltaText(f, r) ==
    LET text[s \in Revs] ==
          IF f.base[s] = None THEN [ok |-> s = f.head, text |-> f.text[s].body]
          ELSE LET orig == text[f.base[s]]
               IN IF orig.ok THEN DiffApply(f.text[s].body, orig.text) ELSE orig
    IN text[r]

\* rcsfile_puttext(), for the delta prev that was visited before.  The mutant
\* does not turn the old head's script around.
PutUnreversed(f, r, prev) ==
    IF f.base[r] = prev \/ prev # None THEN f.text[r]
    ELSE Text(TRUE, GetDeltaText(f, r).text)
PutText(f, r, prev) ==
    IF f.base[r] = prev THEN f.text[r]
    ELSE IF prev = None THEN Text(TRUE, GetDeltaText(f, r).text)
    ELSE IF f.base[prev] = r
    THEN Text(FALSE, DiffReverse(f.text[prev].body, GetDeltaText(f, r).text))
    ELSE NoText

\* rcsfile_write_deltatext(): branches sorted by date, the youngest first, then
\* the rest of the trunk.  Here the first branch without deltas ends the loop.
InsertByDate(seq, r) == InsertBefore(seq, r, LAMBDA s : Date(r) <= Date(s))
Visited(f, r) ==
    LET firsts == Firsts(f, r)
        empty == {i \in DOMAIN firsts : firsts[i] = None}
    IN SubSeq(firsts, 1, IF empty = {} THEN Len(firsts) ELSE Min(empty) - 1)
WriteText(f, x) ==
    LET r == Head(x.stack).rev
        next == IfAny(NextOf(f, r))
        children == FoldLeft(InsertByDate, IF IsTrunk(r) THEN <<>> ELSE next,
                             Visited(f, r))
        pushed == Reverse(children) \o (IF IsTrunk(r) THEN next ELSE <<>>)
    IN IF x.stack = <<>> THEN x
       ELSE [stack |-> [i \in DOMAIN pushed |-> [rev |-> pushed[i], prev |-> r]]
                       \o Tail(x.stack),
             out |-> Append(x.out, [rev |-> r, text |-> PutText(f, r, Head(x.stack).prev)])]
WriteTexts(f, head) ==
    LET Turn(x, r) == WriteText(f, x)
    IN FoldLeft(Turn, [stack |-> <<[rev |-> head, prev |-> None]>>, out |-> <<>>],
                f.table).out
WriteFile(f) ==
    LET head == Head(f.list[<<1>>])
    IN [head |-> head, branch |-> f.branch, tags |-> f.tags,
        deltas |-> WriteDeltas(f, head), texts |-> WriteTexts(f, head)]

-----------------------------------------------------------------------------
(* The server's files *)

Sorted(S, Less(_, _)) ==
    [i \in 1..Cardinality(S) |->
       CHOOSE r \in S : Cardinality({s \in S : Less(s, r)}) = i - 1]
HeadOf(S) == Newest({r \in S : IsTrunk(r)})
Trees ==
    {S \in SUBSET Revs : /\ \E r \in S : IsTrunk(r)
                         /\ \A r \in S : IsTrunk(r) \/ BranchPoint(r) \in S}
\* The revision whose text is needed for the text of r, and those for which r's
\* is needed: the next one on the branch, and the first ones on others.
Before(S, r) ==
    LET same == {s \in S : BranchId(s) = BranchId(r)}
        newer == {s \in same : RevLess(r, s)}
        older == {s \in same : RevLess(s, r)}
    IN IF IsTrunk(r)
       THEN IF newer = {} THEN None
            ELSE CHOOSE s \in newer : \A t \in newer : s = t \/ RevLess(s, t)
       ELSE IF older = {} THEN BranchPoint(r) ELSE Newest(older)
After(S, r) == {s \in S : Before(S, s) = r}
NextIn(S, r) == LET n == {s \in After(S, r) : BranchId(s) = BranchId(r)}
                IN IF n = {} THEN None ELSE CHOOSE s \in n : TRUE
BranchIn(S) == LET b == {BranchId(r) : r \in {s \in S : ~IsTrunk(s)}}
               IN IF b = {} THEN None ELSE Newest(b)
TagsIn(S) == <<[tag |-> Tag, rev |-> Newest(S)]>>

\* A file written by CVS: the trunk, then the branches.
Order(S) ==
    LET InFront(r, s) == IF IsTrunk(r) /\ IsTrunk(s) THEN RevLess(s, r)
                         ELSE IsTrunk(r) \/ (~IsTrunk(s) /\ RevLess(r, s))
    IN Sorted(S, InFront)
FileOf(c, S) ==
    LET revs == Order(S)
        TextOf(r) == IF r = HeadOf(S) THEN Text(TRUE, c[r])
                     ELSE Text(FALSE, DiffOf(c[Before(S, r)], c[r]))
    IN [head |-> HeadOf(S), branch |-> BranchIn(S), tags |-> TagsIn(S),
        deltas |-> [i \in DOMAIN revs |->
                      [rev |-> revs[i], next |-> NextIn(S, revs[i]),
                       branches |-> Sorted(
                          {s \in After(S, revs[i]) : BranchId(s) # BranchId(revs[i])},
                          RevLess)]],
        texts |-> [i \in DOMAIN revs |-> [rev |-> revs[i], text |-> TextOf(revs[i])]]]

\* Deltas that can stay: those that depend on the same ones as before.  All
\* other deltas are deleted and, if they are still there, sent anew.
Kept(S, G) ==
    UNION {K \in SUBSET (S \cap G) :
             \A r \in K : \/ r = HeadOf(S)
                          \/ Before(S, r) = Before(G, r) /\ Before(S, r) \in K}
\* What a new delta is sent as a diff of: a new head comes after the old one.
DiffBase(S, G, r) ==
    IF IsTrunk(r) /\ RevLess(HeadOf(S), r)
    THEN Newest({s \in G : IsTrunk(s) /\ RevLess(s, r)})
    ELSE Before(G, r)

-----------------------------------------------------------------------------
(* updater_rcsedit() *)

RevsOf(x) == {x.deltas[i].rev : i \in DOMAIN x.deltas}

\* updater_openrcs(), and which changes are to come
OpenRcs ==
    /\ pc = "idle"
    /\ \E G \in Trees :
         LET S == RevsOf(file)
         IN /\ HeadOf(S) \in G /\ G # S
            /\ goal' = G
            /\ del' = S \ Kept(S, G) /\ add' = G \ Kept(S, G)
    /\ rf' = Parse(file)
    /\ pc' = "edit"
    /\ UNCHANGED <<content, file, new>>

\* case 'd', rcsfile_deleterev(): no delta goes before the branches at it
DeleteRev ==
    /\ pc = "edit"
    /\ \E r \in {d \in del : \A s \in del : IsTrunk(s) \/ BranchPoint(s) # d} :
         /\ rf' = [CreateDelta(rf, r, None) EXCEPT
                     !.list[BranchId(r)] = RemoveFirst(@, r), !.table = RemoveFirst(@, r)]
         /\ del' = del \ {r}
    /\ UNCHANGED <<content, file, goal, pc, add, new>>

\* case 'D', updater_addelta(), rcsfile_addelta(): in any order in which the
\* base is there
AddDelta ==
    /\ pc = "edit" /\ del = {}
    /\ \E r \in add :
         LET base == DiffBase(RevsOf(file), goal, r)
             f == Insert(CreateDelta(rf, r, base), r)
         IN /\ IsKnown(rf, base)
            /\ rf' = [f EXCEPT !.table = InsertSortedDelta(@, r),
                               !.text[r] = Text(FALSE, DiffOf(content[base], content[r]))]
            /\ add' = add \ {r}
    /\ UNCHANGED <<content, file, goal, pc, del, new>>

\* cases 'B' and 'b', rcsfile_setval()
SetBranch ==
    /\ pc = "edit" /\ rf.branch # BranchIn(goal)
    /\ rf' = [rf EXCEPT !.branch = BranchIn(goal)]
    /\ UNCHANGED <<content, file, goal, pc, del, add, new>>

\* cases 't' and 'T', rcsfile_deletetag() and rcsfile_addtag(): the tag has to
\* be named with its revision
DeleteTag ==
    /\ pc = "edit" /\ rf.tags # <<>> /\ rf.tags # TagsIn(goal)
    /\ rf' = [rf EXCEPT !.tags = Remove(@, TagsIn(RevsOf(file))[1])]
    /\ UNCHANGED <<content, file, goal, pc, del, add, new>>
AddTag ==
    /\ pc = "edit" /\ rf.tags = <<>>
    /\ rf' = [rf EXCEPT !.tags = TagsIn(goal) \o @]
    /\ UNCHANGED <<content, file, goal, pc, del, add, new>>

\* rcsfile_write()
WriteRcs ==
    /\ pc = "edit" /\ del = {} /\ add = {}
    /\ rf.tags = TagsIn(goal) /\ rf.branch = BranchIn(goal)
    /\ new' = WriteFile(rf)
    /\ pc' = "written"
    /\ UNCHANGED <<content, file, goal, rf, del, add>>

\* updater_updatefile(): the checksum tells whether the file is the server's,
\* otherwise it is sent as a whole.  The mutant does not look at it.
Unchecked(x) == TRUE
Complete(x) == {x.texts[i].rev : i \in DOMAIN x.texts} = goal
Install ==
    /\ pc = "written"
    /\ file' = IF Complete(new) THEN new ELSE FileOf(content, goal)
    /\ goal' = {} /\ rf' = EmptyFile /\ new' = <<>>
    /\ pc' = "idle"
    /\ UNCHANGED <<content, del, add>>

Init ==
    /\ content \in Contents
    /\ \E S \in Trees : file = FileOf(content, S)
    /\ goal = {} /\ rf = EmptyFile /\ pc = "idle"
    /\ del = {} /\ add = {} /\ new = <<>>
Next == OpenRcs \/ DeleteRev \/ AddDelta \/ SetBranch \/ DeleteTag \/ AddTag
        \/ WriteRcs \/ Install
Spec == Init /\ [][Next]_vars

-----------------------------------------------------------------------------
(* Properties *)

SortedBy(seq, Less(_, _)) == \A i \in 2..Len(seq) : Less(seq[i - 1], seq[i])
Newer(r, s) == RevLess(s, r)

\* An installed file has a delta and a text for every revision it has, on a tree
\* without holes.
TypeOK ==
    /\ pc \in {"idle", "edit", "written"}
    /\ goal \subseteq Revs /\ del \subseteq Revs /\ add \subseteq Revs
    /\ Range(rf.table) \subseteq Revs /\ rf.placeholder \subseteq Revs
    /\ \A r \in Revs : rf.base[r] \in Revs \cup {None}
    /\ RevsOf(file) \in Trees
    /\ RevsOf(file) = {file.texts[i].rev : i \in DOMAIN file.texts}

\* After each command table, lists, branches and bases fit together: the table
\* is sorted and has no delta that was only announced as a next one, the list
\* of each branch has its deltas in order, a branch is found at its branchpoint,
\* and what stays never depends on what is deleted.
TreeSound ==
    pc = "edit" =>
      LET revs == Range(rf.table)
      IN /\ SortedBy(rf.table, RevLess) /\ rf.placeholder = {}
         /\ \A b \in DOMAIN rf.list :
              LET there == {r \in revs : BranchId(r) = b}
              IN /\ Range(rf.list[b]) = there
                 /\ IF b = <<1>> THEN SortedBy(rf.list[b], Newer)
                    ELSE SortedBy(rf.list[b], RevLess)
         /\ \A r \in revs : /\ SortedBy(rf.branches[r], Newer)
                            /\ IsTrunk(r) \/ BranchId(r) \in Range(rf.branches[BranchPoint(r)])
         /\ \A r \in revs \ del :
              rf.base[r] \in revs \ del \/ (rf.base[r] = None /\ rf.head = r)

\* The new file has the deltas of the server's file and names their next ones
\* and their branches as it does; it can be read back, as no delta is in front
\* of the one it depends on.
WrittenTree ==
    pc = "written" =>
      /\ RevsOf(new) = goal /\ Len(new.deltas) = Cardinality(goal)
      /\ new.head = HeadOf(goal)
      /\ \A i \in DOMAIN new.deltas :
           LET d == new.deltas[i]
           IN /\ d.next = NextIn(goal, d.rev)
              /\ SortedBy(d.branches, RevLess)
              /\ Range(d.branches) = After(goal, d.rev) \ {d.next}
              /\ \/ d.rev = new.head
                 \/ \E j \in 1..(i - 1) : new.deltas[j].rev = Before(goal, d.rev)

\* Revisions whose texts are not written: those on branches at the same delta
\* as, and listed behind, a branch that has lost all its deltas.
Hidden ==
    LET Skipped(r) == Range(Firsts(rf, r)) \ Range(Visited(rf, r))
    IN {s \in goal : \E r \in goal : \E f \in Skipped(r) \ {None} :
          IsPrefix(BranchId(f), s)}

\* Whoever reads the new file gets back the contents of every revision that was
\* there before or was sent, old scripts turned around where a new head needs it.
TextsWritten ==
    pc = "written" =>
      /\ \A r \in goal \ Hidden : \E i \in DOMAIN new.texts : new.texts[i].rev = r
      /\ \A i, j \in DOMAIN new.texts : i # j => new.texts[i].rev # new.texts[j].rev
      /\ \A i \in DOMAIN new.texts :
           LET t == new.texts[i]
           IN IF t.rev = new.head THEN t.text = Text(TRUE, content[t.rev])
              ELSE /\ ~t.text.full
                   /\ DiffApply(t.text.body, content[Before(goal, t.rev)])
                        = [ok |-> TRUE, text |-> content[t.rev]]

\* The detailer's short import tells the server of the same deltas, in order,
\* as the updater's full import will find.
DetailsComplete ==
    pc = "idle" => Details(file) = Parse(file).table /\ Range(Details(file)) = RevsOf(file)

\* diff_reverse() turns around whatever script leads from one text to another,
\* not only the shortest.
ReverseIsInverse ==
    pc = "idle" => \A r, s \in Revs : \A M \in Alignments(content[r], content[s]) :
      LET script == Script(content[r], content[s], M)
      IN /\ DiffApply(script, content[r]) = [ok |-> TRUE, text |-> content[s]]
         /\ DiffApply(DiffReverse(script, content[r]), content[s])
              = [ok |-> TRUE, text |-> content[r]]
=============================================================================
