---------------------------- MODULE OverlayQueue ----------------------------
(***************************************************************************)
(* web/apply-overlay.mjs: the patch queue that is applied to a checkout of *)
(* the dsh tree.  The queue is a list of puts (whole files of this         *)
(* repository) and of edits (anchored replacements in one file of dsh); it *)
(* stops at the first anchor, or file, that is not there.                  *)
(*                                                                         *)
(* Of a file only the anchors matter: for each replacement, `stock` says   *)
(* how often the text it looks for stands in the tree, `ours` how often    *)
(* the text it puts there.  A new pin may have moved an anchor (it is not  *)
(* found any more) or have repeated it, or have removed a file.  Around    *)
(* the script stand the people of README "dsh pin": they take a fresh      *)
(* checkout, run the script, rebase the anchor it names and run it again,  *)
(* on a fresh checkout or on the one the failed run left behind.           *)
(***************************************************************************)
EXTENDS Naturals, Sequences, SequencesExt

CONSTANTS
    Queue,          \* the puts and edits, in their order
    KeepsAnchor     \* labels of replacements that contain the text they replace:
                    \* their anchor is still there when they have been made

Entries == [op : {"put", "edit"}, files : SUBSET STRING, labels : Seq(STRING)]

Labels == UNION {ToSet(Queue[i].labels) : i \in DOMAIN Queue}
Edits == {i \in DOMAIN Queue : Queue[i].op = "edit"}

\* The entry that makes a replacement.
At(e) == CHOOSE i \in DOMAIN Queue : e \in ToSet(Queue[i].labels)

\* Replacements that stop a second run before it comes to one that would find
\* its anchor again: they consume theirs, and stand before all of those.
Guards == {g \in Labels \ KeepsAnchor : \A e \in KeepsAnchor : At(g) <= At(e)}

\* Each label names one replacement; and the queue has guards enough that one
\* of them is left when the pin has the anchor of another two times.
ASSUME QueueAssumption ==
    /\ Queue \in Seq(Entries) /\ Queue # <<>>
    /\ \A i \in DOMAIN Queue : Queue[i].op = "put" => Queue[i].labels = <<>>
    /\ \A i, j \in DOMAIN Queue :
          \A a \in DOMAIN Queue[i].labels, b \in DOMAIN Queue[j].labels :
             Queue[i].labels[a] = Queue[j].labels[b] => i = j /\ a = b
    /\ KeepsAnchor \subseteq Labels /\ "none" \notin Labels
    /\ \A f \in Labels : Guards \ {f} # {}

VARIABLES
    moved,      \* anchors the pin does not have
    twice,      \* anchors the pin has two times
    gone,       \* edits of a file that the pin does not have where they look for it
    stock,      \* how often each anchor stands in the tree
    ours,       \* how often each replacement does
    copied,     \* files of this repository in the tree
    position,   \* of the run in the queue
    status,     \* "idle", "running", "failed" or "done"
    blamed,     \* the label a failed run names, or "none"
    fresh       \* history: no edit had been made when the run began

queueVars == <<moved, twice, gone, stock, ours, copied, position, status, blamed, fresh>>

Upstream(e) == IF e \in moved THEN 0 ELSE IF e \in twice THEN 2 ELSE 1

\* A checkout of the pin, whichever anchors differ there.
QueueInit(m, t, g) ==
    /\ moved = m /\ twice = t /\ gone = g
    /\ stock = [e \in Labels |-> Upstream(e)]
    /\ ours = [e \in Labels |-> 0]
    /\ copied = {} /\ position = 0
    /\ status = "idle" /\ blamed = "none" /\ fresh = TRUE

-----------------------------------------------------------------------------
\* node apply-overlay.mjs <dsh-root>, on whatever is there.
StartRun ==
    /\ status # "running"
    /\ status' = "running" /\ position' = 1 /\ blamed' = "none"
    /\ fresh' = \A e \in Labels : ours[e] = 0
    /\ UNCHANGED <<moved, twice, gone, stock, ours, copied>>

Advance ==
    /\ position' = position + 1
    /\ status' = IF position = Len(Queue) THEN "done" ELSE "running"

PutFiles ==
    /\ status = "running" /\ Queue[position].op = "put"
    /\ copied' = copied \cup Queue[position].files
    /\ Advance
    /\ UNCHANGED <<moved, twice, gone, stock, ours, blamed, fresh>>

\* src.replace replaces the first occurrence, and only that.
Replace(es) ==
    /\ ours' = [e \in Labels |-> IF e \in es THEN ours[e] + 1 ELSE ours[e]]
    /\ stock' = [e \in Labels |->
           IF e \in es \ KeepsAnchor THEN stock[e] - 1 ELSE stock[e]]

\* The replacements of the file whose anchor is not there, by their place.
Missing == {k \in DOMAIN Queue[position].labels : stock[Queue[position].labels[k]] = 0}

\* Mutant: a file whose anchor is not there is passed over.
EditFileSkipping ==
    /\ status = "running" /\ Queue[position].op = "edit" /\ position \notin gone
    /\ Replace(IF Missing = {} THEN ToSet(Queue[position].labels) ELSE {})
    /\ Advance
    /\ UNCHANGED <<moved, twice, gone, copied, blamed, fresh>>

\* edit: every anchor is there, in the text as the replacements before it have
\* left it, and the file is written at the end.
EditFile ==
    /\ status = "running" /\ Queue[position].op = "edit" /\ position \notin gone
    /\ Missing = {}
    /\ Replace(ToSet(Queue[position].labels))
    /\ Advance
    /\ UNCHANGED <<moved, twice, gone, copied, blamed, fresh>>

Fails(label) ==
    /\ status' = "failed" /\ blamed' = label
    /\ UNCHANGED <<moved, twice, gone, stock, ours, copied, position, fresh>>

\* Mutant: the message names the first label of the file.
AnchorMissingFirst ==
    /\ status = "running" /\ Queue[position].op = "edit" /\ position \notin gone
    /\ Missing # {} /\ Fails(Queue[position].labels[1])

\* edit throws before it writes, at the first anchor that is not there; the
\* script ends, and what the edits before it wrote stays.
AnchorMissing ==
    /\ status = "running" /\ Queue[position].op = "edit" /\ position \notin gone
    /\ \E k \in Missing :
          (\A j \in Missing : k <= j) /\ Fails(Queue[position].labels[k])

\* The file is not there: the read throws, with its path and without a label.
FileMissing ==
    /\ status = "running" /\ Queue[position].op = "edit" /\ position \in gone
    /\ Fails("none")

-----------------------------------------------------------------------------
(* README.md, "dsh pin": what the people who move the pin do. *)

\* The patch is rewritten for the anchor that was named: now it finds its text.
Rebase ==
    /\ status = "failed" /\ blamed \in moved
    /\ moved' = moved \ {blamed}
    /\ stock' = [stock EXCEPT ![blamed] = 1]
    /\ status' = "idle" /\ blamed' = "none"
    /\ UNCHANGED <<twice, gone, ours, copied, position, fresh>>

\* The patch is pointed at the place the file went to.
RebaseFile ==
    /\ status = "failed" /\ position \in gone
    /\ gone' = gone \ {position}
    /\ status' = "idle" /\ blamed' = "none"
    /\ UNCHANGED <<moved, twice, stock, ours, copied, position, fresh>>

FreshCheckout ==
    /\ status # "running"
    /\ stock' = [e \in Labels |-> Upstream(e)]
    /\ ours' = [e \in Labels |-> 0]
    /\ copied' = {} /\ position' = 0
    /\ status' = "idle" /\ blamed' = "none" /\ fresh' = TRUE
    /\ UNCHANGED <<moved, twice, gone>>

QueueNext ==
    \/ StartRun \/ PutFiles \/ EditFile \/ AnchorMissing \/ FileMissing
    \/ Rebase \/ RebaseFile \/ FreshCheckout

\* What may differ in a pin: any files gone, any anchors moved, any others
\* repeated, but for one guard.
Pin(m, t, g) ==
    /\ g \subseteq Edits
    /\ m \subseteq Labels /\ t \subseteq Labels \ m
    /\ KeepsAnchor # {} => Guards \ t # {}

QueueSpec ==
    /\ \E m, t \in SUBSET Labels, g \in SUBSET Edits :
          Pin(m, t, g) /\ QueueInit(m, t, g)
    /\ [][QueueNext]_queueVars

-----------------------------------------------------------------------------
Applied == {e \in Labels : ours[e] > 0}

\* apply-overlay.mjs:12-13, "never a silent skip": a queue that ends has made
\* every replacement and copied every file, whatever runs, failures and
\* rebases came before.  Where the pin has an anchor twice the second one stays.
PatchedOrRefused ==
    status = "done" =>
        /\ copied = UNION {Queue[i].files : i \in DOMAIN Queue \ Edits}
        /\ \A e \in Labels :
              /\ ours[e] > 0
              /\ e \notin KeepsAnchor /\ stock[e] > 0 => e \in twice

\* A run over a tree that a failed run has patched in part changes no place
\* twice, although five replacements would find their anchor again: edits that
\* consume their anchor come before all of them, and stop it.  A second place of
\* the pin is patched by a second run, if that gets so far.
NothingTwice ==
    \A e \in Labels : ours[e] <= IF e \in twice \ KeepsAnchor THEN 2 ELSE 1

\* apply-overlay.mjs:45-47: the anchor a run names is one that upstream moved
\* ("rebase the patch"), unless the tree was patched already; and a run stops
\* without a name only at a file that the pin does not have.
NamesMovedAnchor ==
    status = "failed" =>
        /\ blamed = "none" => position \in gone
        /\ blamed # "none" /\ fresh => blamed \in moved
=============================================================================
