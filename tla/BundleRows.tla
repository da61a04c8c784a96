----------------------------- MODULE BundleRows -----------------------------
(***************************************************************************)
(* web/gen-bundle.mjs: the allow-list bundle, made from dsh-base's         *)
(* cordis.patch.yml by cutting the rows that are not admitted.  The tool   *)
(* reads YAML line by line: what follows "- insert:" is cut into rows, a   *)
(* row being its comment and blank lines, its "- id" line and its body.    *)
(*                                                                         *)
(* A line is one of four kinds: the first line of a row, with its id; a    *)
(* note, which is blank or a comment at the rows' indentation; body, which *)
(* is indented deeper; and top, which is not indented and begins another   *)
(* entry of the file.  A line is known by its number.                      *)
(***************************************************************************)
EXTENDS Naturals, Sequences, SequencesExt

CONSTANTS
    Ids,        \* ids of rows
    DROP        \* ids that are not admitted

ASSUME BundleAssumption == DROP \subseteq Ids

VARIABLES
    insert,     \* the file has a line "- insert:"
    base,       \* the lines after it
    blocks,     \* the rows so far; the last of them is `current`
    pending,    \* lines that await their row
    next,       \* of the lines, and then of the blocks that are joined
    bundle,     \* "splitting", "joining", "refused" or "written"
    out         \* the lines in the bundle, by number

bundleVars == <<insert, base, blocks, pending, next, bundle, out>>

Lines == [kind : {"row"}, id : Ids] \cup [kind : {"note", "body", "top"}]
IsRow(i) == base[i].kind = "row"
IsNote(i) == base[i].kind = "note"

\* A list, and whatever entries follow it, with bodies of their own: the first
\* line that is no note begins a row.
WellFormed(b) ==
    \A i \in DOMAIN b : b[i].kind \in {"body", "top"} =>
        \E j \in 1..(i - 1) : b[j].kind = "row"

BundleInit(b) ==
    /\ insert \in BOOLEAN
    /\ base = IF insert THEN b ELSE <<>>
    /\ blocks = <<>> /\ pending = <<>> /\ next = 1
    /\ bundle = "splitting" /\ out = <<>>

-----------------------------------------------------------------------------
\* One turn of the loop that splits the lines.
Turn ==
    /\ bundle = "splitting" /\ insert /\ next \in DOMAIN base
    /\ next' = next + 1
    /\ UNCHANGED <<insert, base, bundle, out>>

RowLine ==
    /\ Turn /\ IsRow(next)
    /\ blocks' = Append(blocks, [id |-> base[next].id, lines |-> Append(pending, next)])
    /\ pending' = <<>>

\* Mutant: a note belongs to the row above it.
AwaitNoRow ==
    /\ Turn /\ ~IsRow(next) /\ (blocks = <<>> \/ IsNote(next))
    /\ IF blocks = <<>>
       THEN pending' = Append(pending, next) /\ UNCHANGED blocks
       ELSE /\ blocks' = [blocks EXCEPT ![Len(blocks)].lines = Append(@, next)]
            /\ UNCHANGED pending

\* A note may belong to the next row; and nothing belongs to a row before the
\* first one.
Await ==
    /\ Turn /\ ~IsRow(next) /\ (blocks = <<>> \/ IsNote(next))
    /\ pending' = Append(pending, next)
    /\ UNCHANGED blocks

\* The row goes on, with what awaited its row.
Continue ==
    /\ Turn /\ ~IsRow(next) /\ ~(blocks = <<>> \/ IsNote(next))
    /\ blocks' = [blocks EXCEPT ![Len(blocks)].lines = @ \o Append(pending, next)]
    /\ pending' = <<>>

\* Every id of the list is a row of the base.
Seen == DROP \subseteq {blocks[i].id : i \in DOMAIN blocks}

\* The file has no list, or one of other rows.
Refuse ==
    /\ bundle = "splitting"
    /\ insert => next > Len(base) /\ ~Seen
    /\ bundle' = "refused"
    /\ UNCHANGED <<insert, base, blocks, pending, next, out>>

Split ==
    /\ bundle = "splitting" /\ insert /\ next > Len(base) /\ Seen
    /\ bundle' = "joining" /\ next' = 1
    /\ UNCHANGED <<insert, base, blocks, pending, out>>

\* The blocks that are kept, one after the other.
Join ==
    /\ bundle = "joining" /\ next \in DOMAIN blocks
    /\ out' = IF blocks[next].id \in DROP THEN out ELSE out \o blocks[next].lines
    /\ next' = next + 1
    /\ UNCHANGED <<insert, base, blocks, pending, bundle>>

Write ==
    /\ bundle = "joining" /\ next > Len(blocks)
    /\ bundle' = "written"
    /\ UNCHANGED <<insert, base, blocks, pending, next, out>>

Generate == RowLine \/ Await \/ Continue \/ Refuse \/ Split \/ Join \/ Write

BundleSpec ==
    /\ \E b \in Seq(Lines) : WellFormed(b) /\ BundleInit(b)
    /\ [][Generate]_bundleVars

-----------------------------------------------------------------------------
\* Line i belongs to the row that begins at r: as its first line, as a note
\* before it with nothing but notes between them, or because the row goes on at
\* i, or after nothing but notes from i.  Notes at the end belong to no row.  A
\* top line, and what stands under it, belongs to the row it follows, by the
\* reading of the tool and not by that of YAML.
Leads(i, r) == i <= r /\ \A k \in i..(r - 1) : IsNote(k)
GoesOn(i, r) ==
    /\ r < i
    /\ \E j \in i..Len(base) : /\ ~IsNote(j)
                               /\ \A k \in i..(j - 1) : IsNote(k)
                               /\ \A k \in (r + 1)..j : ~IsRow(k)
Belongs(i, r) == IsRow(r) /\ (Leads(i, r) \/ GoesOn(i, r))

Admitted == {i \in DOMAIN base :
                \E r \in DOMAIN base : Belongs(i, r) /\ base[r].id \notin DROP}

Increasing(s) == \A i, j \in DOMAIN s : i < j => s[i] < s[j]

\* gen-bundle.mjs:32-55: the bundle has the admitted rows whole and in their
\* order, each with its comments, and nothing of the rows that are cut; with one
\* exception, that an entry after the list goes as the row before it goes.  No
\* bundle is made from a base where an id of the list is no row (it may be there
\* under a new name).
AdmittedRowsWhole ==
    bundle = "written" =>
        /\ \A d \in DROP : \E i \in DOMAIN base : base[i] = [kind |-> "row", id |-> d]
        /\ ToSet(out) = Admitted /\ Increasing(out)
=============================================================================
