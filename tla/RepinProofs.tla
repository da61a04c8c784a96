---------------------------- MODULE RepinProofs ----------------------------
(***************************************************************************)
(* Proofs about moving the pin.  Of the patch queue, for every queue of    *)
(* puts and edits whose replacements that keep their anchor stand behind   *)
(* guards, and for every pin that leaves one guard as it was: a queue that *)
(* ends has patched everything, no tree is patched twice in one place, and *)
(* a run that stops names an anchor the pin has moved.  Of the generator,  *)
(* for every base: a bundle that is written has the admitted rows whole.   *)
(***************************************************************************)
EXTENDS Repin, FiniteSetTheorems, TLAPS

QueueTypeOK ==
    /\ moved \subseteq Labels /\ twice \subseteq Labels \ moved /\ gone \subseteq Edits
    /\ stock \in [Labels -> Nat] /\ ours \in [Labels -> Nat]
    /\ position \in Nat /\ (status = "running" => position \in DOMAIN Queue)
    /\ fresh \in BOOLEAN

\* An anchor is in the tree as often as in the pin, less the times it has been
\* replaced, which the text of a keeping replacement makes up for.
CountInv ==
    \A e \in Labels :
        stock[e] + (IF e \in KeepsAnchor THEN 0 ELSE ours[e]) = Upstream(e)

PutsOf == UNION {Queue[i].files : i \in DOMAIN Queue \ Edits}

\* What a run has passed has been made.
PassedInv ==
    /\ copied \subseteq PutsOf
    /\ status \in {"running", "done"} => \A i \in DOMAIN Queue : i < position =>
          /\ i \notin Edits => Queue[i].files \subseteq copied
          /\ \A e \in Labels : At(e) = i => ours[e] > 0
    /\ status = "done" => position = Len(Queue) + 1

\* A run that began on a tree without edits finds none of them before it.
AheadInv ==
    /\ status = "running" /\ fresh => \A e \in Labels : position <= At(e) => ours[e] = 0
    /\ status = "failed" =>
          /\ blamed = "none" => position \in gone
          /\ blamed # "none" /\ fresh => blamed \in moved

\* A guard that the pin does not repeat is gone when a keeping replacement has
\* been made, so a run that comes past it comes to a tree without any.
GuardInv ==
    /\ KeepsAnchor # {} => Guards \ twice # {}
    /\ \A e \in KeepsAnchor : ours[e] <= 1
    /\ \A g \in Guards \ twice, e \in KeepsAnchor :
          /\ ours[e] > 0 => ours[g] > 0
          /\ status = "running" /\ At(g) < position /\ position <= At(e) => ours[e] = 0

QueueInv == QueueTypeOK /\ CountInv /\ PassedInv /\ AheadInv /\ GuardInv

LEMMA QueueShape ==
    /\ Len(Queue) \in Nat /\ Len(Queue) > 0 /\ DOMAIN Queue = 1..Len(Queue)
    /\ \A i \in DOMAIN Queue :
          /\ Queue[i].op \in {"put", "edit"} /\ Queue[i].labels \in Seq(STRING)
          /\ i \notin Edits <=> Queue[i].op = "put"
  <1>1. Queue \in Seq(Entries) /\ Queue # <<>>
    BY QueueAssumption
  <1>2. \A i \in DOMAIN Queue : Queue[i] \in Entries
    BY <1>1
  <1> QED BY <1>1, <1>2 DEF Edits, Entries

\* A label stands in one entry, which is an edit.
LEMMA AtIsEntry ==
    ASSUME NEW e \in Labels
    PROVE  /\ At(e) \in DOMAIN Queue /\ At(e) \in Edits /\ At(e) \in Nat
           /\ \A i \in DOMAIN Queue : e \in ToSet(Queue[i].labels) <=> i = At(e)
  <1>1. PICK i \in DOMAIN Queue : e \in ToSet(Queue[i].labels)
    BY DEF Labels
  <1>2. At(e) \in DOMAIN Queue /\ e \in ToSet(Queue[At(e)].labels)
    BY <1>1 DEF At
  <1>3. \A j \in DOMAIN Queue : e \in ToSet(Queue[j].labels) => j = At(e)
    BY <1>2, QueueAssumption DEF ToSet
  <1>4. Queue[At(e)].op # "put"
    <2>1. ToSet(<<>>) = {}
      BY DEF ToSet
    <2> QED BY <1>2, <2>1, QueueAssumption
  <1> QED BY <1>2, <1>3, <1>4, QueueShape

LEMMA GuardsAre ==
    ASSUME NEW g \in Guards
    PROVE  /\ g \in Labels \ KeepsAnchor /\ At(g) \in Nat
           /\ \A e \in KeepsAnchor : e \in Labels /\ At(g) <= At(e)
  <1>1. g \in Labels
    BY DEF Guards
  <1> QED BY <1>1, AtIsEntry, QueueAssumption DEF Guards

LEMMA QueueInitInv ==
    ASSUME NEW m, NEW t, NEW g, Pin(m, t, g), QueueInit(m, t, g)
    PROVE  QueueInv
  <1> USE DEF QueueInit, Pin
  <1>1. QueueTypeOK
    <2>1. \A e \in Labels : Upstream(e) \in Nat
      BY DEF Upstream
    <2> QED BY <2>1 DEF QueueTypeOK
  <1>2. CountInv
    <2>1. \A e \in Labels : stock[e] = Upstream(e) /\ Upstream(e) \in Nat /\ ours[e] = 0
      BY DEF Upstream
    <2> QED BY <2>1 DEF CountInv
  <1>3. PassedInv
    BY DEF PassedInv
  <1>4. AheadInv
    BY DEF AheadInv
  <1>5. GuardInv
    <2>1. \A e \in KeepsAnchor : ours[e] = 0
      BY QueueAssumption
    <2> QED BY <2>1 DEF GuardInv
  <1> QED BY <1>1, <1>2, <1>3, <1>4, <1>5 DEF QueueInv

LEMMA StartRunKeeps == ASSUME QueueInv, StartRun PROVE QueueInv'
  <1>1. /\ status' = "running" /\ position' = 1
        /\ fresh' = \A e \in Labels : ours[e] = 0
        /\ UNCHANGED <<moved, twice, gone, stock, ours, copied>>
    BY DEF StartRun
  <1>2. QueueTypeOK'
    <2>1. 1 \in DOMAIN Queue /\ fresh' \in BOOLEAN
      BY <1>1, QueueShape
    <2> QED BY <1>1, <2>1 DEF QueueInv, QueueTypeOK
  <1>3. CountInv'
    BY <1>1 DEF QueueInv, CountInv, Upstream
  <1>4. PassedInv'
    BY <1>1, QueueShape DEF QueueInv, PassedInv
  <1>5. AheadInv'
    BY <1>1 DEF AheadInv
  <1>6. GuardInv'
    <2>1. \A g \in Guards : ~(At(g) < 1)
      <3>1. \A g \in Guards : At(g) \in 1..Len(Queue)
        BY GuardsAre, AtIsEntry, QueueShape
      <3> QED BY <3>1, QueueShape
    <2> QED BY <1>1, <2>1 DEF QueueInv, GuardInv
  <1> QED BY <1>2, <1>3, <1>4, <1>5, <1>6 DEF QueueInv

\* A run that goes on is at the next entry, or at its end.
LEMMA AdvanceIs ==
    ASSUME QueueInv, status = "running", Advance
    PROVE  /\ position \in DOMAIN Queue /\ position \in Nat /\ position' = position + 1
           /\ status' \in {"running", "done"}
           /\ status' = "running" => position' \in DOMAIN Queue
           /\ status' = "done" => position' = Len(Queue) + 1
  <1>1. position \in DOMAIN Queue
    BY DEF QueueInv, QueueTypeOK
  <1>2. DOMAIN Queue = 1..Len(Queue) /\ Len(Queue) \in Nat
    BY QueueShape
  <1>3. /\ position' = position + 1
        /\ status' = IF position = Len(Queue) THEN "done" ELSE "running"
    BY DEF Advance
  <1> QED BY <1>1, <1>2, <1>3

LEMMA PutFilesKeeps == ASSUME QueueInv, PutFiles PROVE QueueInv'
  <1>1. /\ status = "running" /\ Queue[position].op = "put" /\ Advance
        /\ copied' = copied \cup Queue[position].files
        /\ UNCHANGED <<moved, twice, gone, stock, ours, blamed, fresh>>
    BY DEF PutFiles
  <1>2. /\ position \in DOMAIN Queue /\ position \in Nat /\ position' = position + 1
        /\ status' \in {"running", "done"}
        /\ status' = "running" => position' \in DOMAIN Queue
        /\ status' = "done" => position' = Len(Queue) + 1
    BY <1>1, AdvanceIs
  <1>3. \A e \in Labels : At(e) \in Nat /\ At(e) # position
    BY <1>1, <1>2, AtIsEntry, QueueShape
  <1>4. QueueTypeOK'
    BY <1>1, <1>2 DEF QueueInv, QueueTypeOK
  <1>5. CountInv'
    BY <1>1 DEF QueueInv, CountInv, Upstream
  <1>6. PassedInv'
    <2>1. copied' \subseteq PutsOf
      BY <1>1, <1>2, QueueShape DEF QueueInv, PassedInv, PutsOf
    <2>2. ASSUME NEW i \in DOMAIN Queue, i < position'
          PROVE  /\ i \notin Edits => Queue[i].files \subseteq copied'
                 /\ \A e \in Labels : At(e) = i => ours'[e] > 0
      <3>1. i < position \/ i = position
        BY <1>2, <2>2, QueueShape
      <3> QED BY <1>1, <1>3, <3>1 DEF QueueInv, PassedInv
    <2> QED BY <1>2, <2>1, <2>2 DEF PassedInv
  <1>7. AheadInv'
    <2>1. \A e \in Labels : position' <= At(e) => position <= At(e)
      BY <1>2, <1>3
    <2> QED BY <1>1, <1>2, <2>1 DEF QueueInv, AheadInv
  <1>8. GuardInv'
    <2>1. ASSUME NEW g \in Guards \ twice, NEW e \in KeepsAnchor,
                 At(g) < position', position' <= At(e)
          PROVE  ours[e] = 0
      <3>1. At(g) < position /\ position <= At(e)
        BY <1>2, <1>3, <2>1, GuardsAre
      <3> QED BY <1>1, <3>1 DEF QueueInv, GuardInv
    <2> QED BY <1>1, <2>1 DEF QueueInv, GuardInv
  <1> QED BY <1>4, <1>5, <1>6, <1>7, <1>8 DEF QueueInv

\* An edit that goes through finds the anchors of all its replacements, makes
\* them once more, and leaves the others as they are.
LEMMA EditMakes ==
    ASSUME QueueInv, EditFile
    PROVE  /\ stock' \in [Labels -> Nat] /\ ours' \in [Labels -> Nat]
           /\ \A e \in Labels :
                 /\ At(e) = position =>
                       /\ stock[e] > 0 /\ ours'[e] = ours[e] + 1
                       /\ stock'[e] = IF e \in KeepsAnchor THEN stock[e] ELSE stock[e] - 1
                 /\ At(e) # position => ours'[e] = ours[e] /\ stock'[e] = stock[e]
  <1>1. /\ position \in DOMAIN Queue /\ stock \in [Labels -> Nat] /\ ours \in [Labels -> Nat]
    BY DEF QueueInv, QueueTypeOK, EditFile
  <1>2. \A e \in Labels : e \in ToSet(Queue[position].labels) <=> At(e) = position
    BY <1>1, AtIsEntry
  <1>3. \A e \in Labels : At(e) = position => stock[e] > 0
    <2> SUFFICES ASSUME NEW e \in Labels, At(e) = position PROVE stock[e] > 0
      OBVIOUS
    <2>1. PICK k \in DOMAIN Queue[position].labels : e = Queue[position].labels[k]
      BY <1>2 DEF ToSet
    <2>2. stock[e] # 0
      BY <2>1 DEF EditFile, Missing
    <2> QED BY <1>1, <2>2
  <1>4. /\ ours' = [e \in Labels |-> IF At(e) = position THEN ours[e] + 1 ELSE ours[e]]
        /\ stock' = [e \in Labels |->
               IF At(e) = position /\ e \notin KeepsAnchor THEN stock[e] - 1 ELSE stock[e]]
    BY <1>2 DEF EditFile, Replace
  <1> QED BY <1>1, <1>3, <1>4

LEMMA EditFileKeeps == ASSUME QueueInv, EditFile PROVE QueueInv'
  <1>1. /\ status = "running" /\ Queue[position].op = "edit" /\ Advance
        /\ UNCHANGED <<moved, twice, gone, copied, blamed, fresh>>
    BY DEF EditFile
  <1>2. /\ position \in DOMAIN Queue /\ position \in Nat /\ position' = position + 1
        /\ status' \in {"running", "done"}
        /\ status' = "running" => position' \in DOMAIN Queue
        /\ status' = "done" => position' = Len(Queue) + 1
    BY <1>1, AdvanceIs
  <1>3. /\ stock' \in [Labels -> Nat] /\ ours' \in [Labels -> Nat]
        /\ \A e \in Labels :
              /\ At(e) = position =>
                    /\ stock[e] > 0 /\ ours'[e] = ours[e] + 1
                    /\ stock'[e] = IF e \in KeepsAnchor THEN stock[e] ELSE stock[e] - 1
              /\ At(e) # position => ours'[e] = ours[e] /\ stock'[e] = stock[e]
    BY EditMakes
  <1>4. /\ \A e \in Labels : At(e) \in Nat /\ ours[e] \in Nat /\ stock[e] \in Nat
        /\ KeepsAnchor \subseteq Labels
    BY AtIsEntry, QueueAssumption DEF QueueInv, QueueTypeOK
  <1>5. QueueTypeOK'
    BY <1>1, <1>2, <1>3 DEF QueueInv, QueueTypeOK
  <1>6. CountInv'
    <2>1. \A e \in Labels : Upstream(e)' = Upstream(e)
      BY <1>1 DEF Upstream
    <2>2. ASSUME NEW e \in Labels
          PROVE  stock'[e] + (IF e \in KeepsAnchor THEN 0 ELSE ours'[e])
                 = stock[e] + (IF e \in KeepsAnchor THEN 0 ELSE ours[e])
      BY <1>3, <1>4
    <2> QED BY <2>1, <2>2 DEF QueueInv, CountInv
  <1>7. PassedInv'
    <2>1. ASSUME NEW i \in DOMAIN Queue, i < position'
          PROVE  /\ i \notin Edits => Queue[i].files \subseteq copied'
                 /\ \A e \in Labels : At(e) = i => ours'[e] > 0
      <3>1. i < position \/ i = position
        BY <1>2, <2>1, QueueShape
      <3>2. CASE i = position
        <4>1. i \in Edits
          BY <1>1, <3>2, QueueShape
        <4> QED BY <1>3, <1>4, <3>2, <4>1
      <3>3. CASE i < position
        <4>1. /\ i \notin Edits => Queue[i].files \subseteq copied
              /\ \A e \in Labels : At(e) = i => ours[e] > 0
          BY <1>1, <3>3 DEF QueueInv, PassedInv
        <4> QED BY <1>1, <1>2, <1>3, <3>3, <4>1
      <3> QED BY <3>1, <3>2, <3>3
    <2> QED BY <1>1, <1>2, <2>1 DEF QueueInv, PassedInv, PutsOf
  <1>8. AheadInv'
    <2>1. \A e \in Labels : position' <= At(e) => position <= At(e) /\ At(e) # position
      BY <1>2, <1>4
    <2> QED BY <1>1, <1>2, <1>3, <2>1 DEF QueueInv, AheadInv
  <1>9. GuardInv'
    <2>1. ASSUME NEW g \in Guards \ twice, NEW e \in KeepsAnchor
          PROVE  /\ At(e) = position => ours[e] = 0 /\ ours'[g] > 0
                 /\ At(g) = position => ours[e] = 0
      <3>1. g \in Labels \ KeepsAnchor /\ At(g) <= At(e) /\ e \in Labels
        BY GuardsAre
      <3>2. ASSUME At(g) = position PROVE ours[e] = 0 /\ ours'[g] > 0
        <4>1. stock[g] > 0 /\ stock[g] + ours[g] <= 1
          <5>1. stock[g] > 0 /\ stock[g] + ours[g] = Upstream(g)
            BY <1>3, <3>1, <3>2 DEF QueueInv, CountInv
          <5>2. Upstream(g) \in {0, 1}
            BY DEF Upstream
          <5> QED BY <1>4, <3>1, <5>1, <5>2
        <4>2. ours[g] = 0
          BY <1>4, <3>1, <4>1
        <4>3. ours[e] = 0
          BY <1>4, <3>1, <4>2 DEF QueueInv, GuardInv
        <4> QED BY <1>3, <3>1, <3>2, <4>2, <4>3
      <3>3. ASSUME At(g) < position, At(e) = position PROVE ours[e] = 0 /\ ours'[g] > 0
        <4>1. ours[e] = 0
          BY <1>1, <1>2, <3>3 DEF QueueInv, GuardInv
        <4>2. ours[g] > 0
          BY <1>1, <3>1, <3>3, AtIsEntry DEF QueueInv, PassedInv
        <4>3. ours'[g] = ours[g]
          BY <1>2, <1>3, <1>4, <3>1, <3>3
        <4> QED BY <4>1, <4>2, <4>3
      <3> QED BY <1>2, <1>4, <3>1, <3>2, <3>3
    <2>2. KeepsAnchor # {} => Guards \ twice # {}
      BY DEF QueueInv, GuardInv
    <2>3. ASSUME NEW e \in KeepsAnchor PROVE ours'[e] <= 1
      <3>1. PICK g \in Guards \ twice : TRUE
        BY <2>2, <2>3
      <3>2. At(e) = position => ours[e] = 0
        BY <2>1, <3>1
      <3> QED BY <1>3, <1>4, <3>2 DEF QueueInv, GuardInv
    <2>4. ASSUME NEW g \in Guards \ twice, NEW e \in KeepsAnchor
          PROVE  /\ ours'[e] > 0 => ours'[g] > 0
                 /\ At(g) < position' /\ position' <= At(e) => ours'[e] = 0
      <3>1. g \in Labels /\ e \in Labels
        BY <1>4, GuardsAre
      <3>2. ours'[e] > 0 => ours'[g] > 0
        <4>1. CASE At(e) = position
          BY <2>1, <4>1
        <4>2. CASE At(e) # position
          <5>1. ours[e] > 0 => ours[g] > 0
            BY DEF QueueInv, GuardInv
          <5> QED BY <1>3, <1>4, <3>1, <4>2, <5>1
        <4> QED BY <4>1, <4>2
      <3>3. ASSUME At(g) < position', position' <= At(e) PROVE ours'[e] = 0
        <4>1. At(e) # position /\ position <= At(e)
          BY <1>2, <1>4, <3>1, <3>3
        <4>2. CASE At(g) = position
          BY <1>3, <2>1, <3>1, <4>1, <4>2
        <4>3. CASE At(g) < position
          <5>1. ours[e] = 0
            BY <1>1, <4>1, <4>3 DEF QueueInv, GuardInv
          <5> QED BY <1>3, <3>1, <4>1, <5>1
        <4> QED BY <1>2, <1>4, <3>1, <3>3, <4>2, <4>3
      <3> QED BY <3>2, <3>3
    <2> QED BY <1>1, <2>2, <2>3, <2>4 DEF GuardInv
  <1> QED BY <1>5, <1>6, <1>7, <1>8, <1>9 DEF QueueInv

\* The anchor that is missing is one the pin has moved, if the tree was as the
\* pin is from here on.
LEMMA AnchorMissingKeeps == ASSUME QueueInv, AnchorMissing PROVE QueueInv'
  <1>1. PICK k \in Missing : Fails(Queue[position].labels[k])
    BY DEF AnchorMissing
  <1>2. /\ status = "running" /\ status' = "failed" /\ blamed' = Queue[position].labels[k]
        /\ UNCHANGED <<moved, twice, gone, stock, ours, copied, position, fresh>>
    BY <1>1 DEF AnchorMissing, Fails
  <1>3. blamed' # "none" /\ (fresh => blamed' \in moved)
    <2>1. position \in DOMAIN Queue /\ position \in Nat
      BY <1>2 DEF QueueInv, QueueTypeOK
    <2>2. k \in DOMAIN Queue[position].labels /\ stock[blamed'] = 0
      BY <1>1, <1>2 DEF Missing
    <2>3. blamed' \in ToSet(Queue[position].labels)
      BY <1>2, <2>2 DEF ToSet
    <2>4. blamed' \in Labels
      BY <2>1, <2>3 DEF Labels
    <2>5. At(blamed') = position
      BY <2>1, <2>3, <2>4, AtIsEntry
    <2>6. ASSUME fresh PROVE blamed' \in moved
      <3>1. ours[blamed'] = 0
        BY <1>2, <2>1, <2>4, <2>5, <2>6 DEF QueueInv, AheadInv
      <3>2. Upstream(blamed') = 0
        BY <2>2, <2>4, <3>1 DEF QueueInv, CountInv
      <3> QED BY <3>2 DEF Upstream
    <2> QED BY <2>4, <2>6, QueueAssumption
  <1>4. QueueTypeOK' /\ AheadInv'
    BY <1>2, <1>3 DEF QueueInv, QueueTypeOK, AheadInv
  <1>5. CountInv'
    BY <1>2 DEF QueueInv, CountInv, Upstream
  <1>6. PassedInv' /\ GuardInv'
    BY <1>2 DEF QueueInv, PassedInv, PutsOf, GuardInv
  <1> QED BY <1>4, <1>5, <1>6 DEF QueueInv

\* A run that stops at a file, or a patch that is pointed at its new place, leaves
\* the text of the tree as it is.
LEMMA FileKeeps == ASSUME QueueInv, FileMissing \/ RebaseFile PROVE QueueInv'
  <1>1. /\ UNCHANGED <<moved, twice, stock, ours, copied, position, fresh>>
        /\ gone' \subseteq gone /\ status' \in {"failed", "idle"}
        /\ status' = "failed" => blamed' = "none" /\ position \in gone'
    BY DEF FileMissing, RebaseFile, Fails
  <1>2. QueueTypeOK' /\ AheadInv'
    BY <1>1 DEF QueueInv, QueueTypeOK, AheadInv
  <1>3. CountInv'
    BY <1>1 DEF QueueInv, CountInv, Upstream
  <1>4. PassedInv' /\ GuardInv'
    BY <1>1 DEF QueueInv, PassedInv, PutsOf, GuardInv
  <1> QED BY <1>2, <1>3, <1>4 DEF QueueInv

\* A moved anchor stood nowhere, so its replacement cannot have been made.
LEMMA RebaseKeeps == ASSUME QueueInv, Rebase PROVE QueueInv'
  <1>1. /\ blamed \in moved /\ moved' = moved \ {blamed} /\ status' = "idle"
        /\ stock' = [stock EXCEPT ![blamed] = 1]
        /\ UNCHANGED <<twice, gone, ours, copied, position, fresh>>
    BY DEF Rebase
  <1>2. blamed \in Labels /\ blamed \notin twice /\ stock \in [Labels -> Nat]
        /\ ours \in [Labels -> Nat]
    BY <1>1 DEF QueueInv, QueueTypeOK
  <1>3. QueueTypeOK'
    BY <1>1, <1>2 DEF QueueInv, QueueTypeOK
  <1>4. CountInv'
    <2> SUFFICES ASSUME NEW e \in Labels
                 PROVE  stock'[e] + (IF e \in KeepsAnchor THEN 0 ELSE ours'[e]) = Upstream(e)'
      BY DEF CountInv
    <2>1. stock[e] + (IF e \in KeepsAnchor THEN 0 ELSE ours[e]) = Upstream(e)
      BY DEF QueueInv, CountInv
    <2>2. CASE e # blamed
      BY <1>1, <1>2, <2>1, <2>2 DEF Upstream
    <2>3. CASE e = blamed
      <3>1. Upstream(e) = 0 /\ Upstream(e)' = 1
        BY <1>1, <1>2, <2>3 DEF Upstream
      <3>2. stock'[e] = 1 /\ ours'[e] = ours[e] /\ stock[e] \in Nat /\ ours[e] \in Nat
        BY <1>1, <1>2, <2>3
      <3> QED BY <2>1, <3>1, <3>2
    <2> QED BY <2>2, <2>3
  <1>5. PassedInv' /\ AheadInv' /\ GuardInv'
    BY <1>1 DEF QueueInv, PassedInv, PutsOf, AheadInv, GuardInv
  <1> QED BY <1>3, <1>4, <1>5 DEF QueueInv

LEMMA FreshCheckoutKeeps == ASSUME QueueInv, FreshCheckout PROVE QueueInv'
  <1>1. /\ stock' = [e \in Labels |-> Upstream(e)] /\ ours' = [e \in Labels |-> 0]
        /\ copied' = {} /\ position' = 0 /\ status' = "idle" /\ fresh' = TRUE
        /\ UNCHANGED <<moved, twice, gone>>
    BY DEF FreshCheckout
  <1>2. \A e \in Labels : Upstream(e) \in Nat /\ Upstream(e)' = Upstream(e)
    BY <1>1 DEF Upstream
  <1>3. QueueTypeOK'
    BY <1>1, <1>2 DEF QueueInv, QueueTypeOK
  <1>4. CountInv'
    <2>1. \A e \in Labels : stock'[e] = Upstream(e)' /\ ours'[e] = 0 /\ Upstream(e)' \in Nat
      BY <1>1, <1>2
    <2> QED BY <2>1 DEF CountInv
  <1>5. PassedInv' /\ AheadInv'
    BY <1>1 DEF PassedInv, AheadInv
  <1>6. GuardInv'
    <2>1. \A e \in KeepsAnchor : ours'[e] = 0
      BY <1>1, QueueAssumption
    <2> QED BY <1>1, <2>1 DEF QueueInv, GuardInv
  <1> QED BY <1>3, <1>4, <1>5, <1>6 DEF QueueInv

LEMMA QueueInvKept == QueueInv /\ [QueueNext]_queueVars => QueueInv'
  <1> SUFFICES ASSUME QueueInv, [QueueNext]_queueVars PROVE QueueInv'
    OBVIOUS
  <1>1. CASE UNCHANGED queueVars
    BY <1>1 DEF queueVars, QueueInv, QueueTypeOK, CountInv, Upstream, PassedInv, PutsOf,
       AheadInv, GuardInv
  <1>2. CASE QueueNext
    BY <1>2, StartRunKeeps, PutFilesKeeps, EditFileKeeps, AnchorMissingKeeps, FileKeeps,
       RebaseKeeps, FreshCheckoutKeeps DEF QueueNext
  <1> QED BY <1>1, <1>2

LEMMA QueueInvHolds == QueueSpec => []QueueInv
  <1>1. (\E m, t \in SUBSET Labels, g \in SUBSET Edits :
             Pin(m, t, g) /\ QueueInit(m, t, g)) => QueueInv
    BY QueueInitInv
  <1> QED BY <1>1, QueueInvKept, PTL DEF QueueSpec

-----------------------------------------------------------------------------
(* What follows from the invariant, for the queue and for a pin's move. *)

LEMMA DoneIsPatched == QueueInv => PatchedOrRefused
  <1> SUFFICES ASSUME QueueInv, status = "done" PROVE PatchedOrRefused
    BY DEF PatchedOrRefused
  <1>1. \A i \in DOMAIN Queue : i < position
    BY QueueShape DEF QueueInv, PassedInv
  <1>2. copied = PutsOf
    <2>1. \A i \in DOMAIN Queue \ Edits : Queue[i].files \subseteq copied
      BY <1>1 DEF QueueInv, PassedInv
    <2> QED BY <2>1 DEF QueueInv, PassedInv, PutsOf
  <1>3. \A e \in Labels : ours[e] > 0
    BY <1>1, AtIsEntry DEF QueueInv, PassedInv
  <1>4. ASSUME NEW e \in Labels, e \notin KeepsAnchor, stock[e] > 0 PROVE e \in twice
    <2>1. stock[e] \in Nat /\ ours[e] \in Nat /\ stock[e] + ours[e] = Upstream(e)
      BY <1>4 DEF QueueInv, QueueTypeOK, CountInv
    <2>2. Upstream(e) > 1
      BY <1>3, <1>4, <2>1
    <2> QED BY <2>2 DEF Upstream
  <1> QED BY <1>2, <1>3, <1>4 DEF PatchedOrRefused, PutsOf

LEMMA TwiceForThePinOnly == QueueInv => NothingTwice
  <1> SUFFICES ASSUME QueueInv, NEW e \in Labels
               PROVE  ours[e] <= IF e \in twice \ KeepsAnchor THEN 2 ELSE 1
    BY DEF NothingTwice
  <1>1. CASE e \in KeepsAnchor
    BY <1>1 DEF QueueInv, GuardInv
  <1>2. CASE e \notin KeepsAnchor
    <2>1. stock[e] \in Nat /\ ours[e] \in Nat /\ stock[e] + ours[e] = Upstream(e)
      BY <1>2 DEF QueueInv, QueueTypeOK, CountInv
    <2>2. Upstream(e) <= 2 /\ Upstream(e) \in Nat /\ (e \notin twice => Upstream(e) <= 1)
      BY DEF Upstream
    <2> QED BY <1>2, <2>1, <2>2
  <1> QED BY <1>1, <1>2

LEMMA BlamedIsMoved == QueueInv => NamesMovedAnchor
  BY DEF QueueInv, AheadInv, NamesMovedAnchor

\* apply-overlay.mjs:12-13, "never a silent skip", for every queue and every pin,
\* through any runs, failures, rebases and checkouts: a run that ends has copied
\* every file and made every replacement.
THEOREM PatchedOrElseRefused == QueueSpec => []PatchedOrRefused
  BY QueueInvHolds, DoneIsPatched, PTL

\* apply-overlay.mjs:42-53, for every queue whose keeping replacements stand
\* behind guards: no runs over the same tree, however many, put a replacement in
\* one place twice.
THEOREM NoPlaceIsPatchedTwice == QueueSpec => []NothingTwice
  BY QueueInvHolds, TwiceForThePinOnly, PTL

\* apply-overlay.mjs:44-47, "rebase the patch", for every pin: the anchor named by
\* a run over a tree without edits is one that upstream moved, and a run that
\* names none is at a file that upstream removed.
THEOREM MovedAnchorIsNamed == QueueSpec => []NamesMovedAnchor
  BY QueueInvHolds, BlamedIsMoved, PTL

-----------------------------------------------------------------------------
(* The generator. *)

BundleTypeOK ==
    /\ base \in Seq(Lines) /\ WellFormed(base)
    /\ blocks \in Seq([id : Ids, lines : Seq(Nat)])
    /\ pending \in Seq(Nat) /\ out \in Seq(Nat)
    /\ next \in Nat \ {0}
    /\ bundle \in {"splitting", "joining", "refused", "written"}

\* The lines that have been split.
Read == IF bundle = "splitting" THEN next - 1 ELSE Len(base)

\* A row goes on at a line i, or after nothing but notes from i, by line n.
GoesOnBy(i, r, n) ==
    /\ r < i
    /\ \E j \in i..n : /\ ~IsNote(j)
                       /\ \A k \in i..(j - 1) : IsNote(k)
                       /\ \A k \in (r + 1)..j : ~IsRow(k)

LinesOf(r, n) == {i \in 1..n : Leads(i, r) \/ GoesOnBy(i, r, n)}

\* Block k is the row that begins at r, as far as line n.
BlockOf(k, r, n) ==
    /\ IsRow(r) /\ base[r].id = blocks[k].id
    /\ ToSet(blocks[k].lines) = LinesOf(r, n)
    /\ k = Len(blocks) <=> \A j \in (r + 1)..n : ~IsRow(j)

\* Notes that await their row.
Trailing(n) == {i \in 1..n : \A k \in i..n : IsNote(k)}

\* Each block is a row that has been read, and each such row is a block.
SplitAt(n) ==
    /\ n \in 0..Len(base)
    /\ \A k \in DOMAIN blocks : \E r \in 1..n : BlockOf(k, r, n)
    /\ \A r \in 1..n : IsRow(r) => \E k \in DOMAIN blocks : BlockOf(k, r, n)
    /\ ToSet(pending) = Trailing(n)

SplitInv == bundle # "refused" => SplitAt(Read)

Before(s, t) == \A x \in ToSet(s), y \in ToSet(t) : x < y

OrderInv ==
    /\ Increasing(pending)
    /\ \A k \in DOMAIN blocks :
          /\ Increasing(blocks[k].lines) /\ Before(blocks[k].lines, pending)
          /\ \A l \in DOMAIN blocks : k < l => Before(blocks[k].lines, blocks[l].lines)

\* The blocks that have been joined, but for those that are cut.
Joined == {k \in DOMAIN blocks : k < next /\ blocks[k].id \notin DROP}

JoinInv ==
    /\ bundle = "splitting" => out = <<>>
    /\ bundle \in {"joining", "written"} =>
          /\ Seen
          /\ ToSet(out) = UNION {ToSet(blocks[k].lines) : k \in Joined}
          /\ Increasing(out)
    /\ bundle = "written" => next > Len(blocks)

BundleInv == BundleTypeOK /\ SplitInv /\ OrderInv /\ JoinInv

LEMMA RowIsNoNote ==
    ASSUME NEW i, IsRow(i)
    PROVE  ~IsNote(i)
  BY DEF IsRow, IsNote

\* A row that is read is its own block, with what awaited it; to the blocks
\* before it belongs what did before.
LEMMA LinesAtRow ==
    ASSUME NEW n \in Nat, IsRow(n + 1)
    PROVE  /\ LinesOf(n + 1, n + 1) = Trailing(n) \cup {n + 1}
           /\ Trailing(n + 1) = {}
           /\ \A r \in 1..n : LinesOf(r, n + 1) = LinesOf(r, n)
  <1>1. \A i \in 1..(n + 1) : ~GoesOnBy(i, n + 1, n + 1)
    BY DEF GoesOnBy
  <1>2. \A i \in 1..(n + 1) : Leads(i, n + 1) <=> i = n + 1 \/ i \in Trailing(n)
    BY DEF Leads, Trailing
  <1>3. LinesOf(n + 1, n + 1) = Trailing(n) \cup {n + 1}
    <2>1. Trailing(n) \subseteq 1..(n + 1) /\ n + 1 \in 1..(n + 1)
      BY DEF Trailing
    <2> QED BY <1>1, <1>2, <2>1 DEF LinesOf
  <1>4. Trailing(n + 1) = {}
    BY RowIsNoNote DEF Trailing
  <1>5. ASSUME NEW r \in 1..n
        PROVE  LinesOf(r, n + 1) = LinesOf(r, n)
    <2>1. ~Leads(n + 1, r) /\ ~GoesOnBy(n + 1, r, n + 1)
      BY DEF Leads, GoesOnBy
    <2>2. ASSUME NEW i \in 1..n
          PROVE  GoesOnBy(i, r, n + 1) <=> GoesOnBy(i, r, n)
      BY DEF GoesOnBy
    <2> QED BY <2>1, <2>2 DEF LinesOf
  <1> QED BY <1>3, <1>4, <1>5

LEMMA LinesAtNote ==
    ASSUME NEW n \in Nat, IsNote(n + 1)
    PROVE  /\ Trailing(n + 1) = Trailing(n) \cup {n + 1}
           /\ \A r \in 1..n : LinesOf(r, n + 1) = LinesOf(r, n)
  <1>1. Trailing(n + 1) = Trailing(n) \cup {n + 1}
    BY DEF Trailing
  <1>2. ASSUME NEW r \in 1..n
        PROVE  LinesOf(r, n + 1) = LinesOf(r, n)
    <2>1. ~Leads(n + 1, r) /\ ~GoesOnBy(n + 1, r, n + 1)
      BY DEF Leads, GoesOnBy
    <2>2. ASSUME NEW i \in 1..n
          PROVE  GoesOnBy(i, r, n + 1) <=> GoesOnBy(i, r, n)
      BY DEF GoesOnBy
    <2> QED BY <2>1, <2>2 DEF LinesOf
  <1> QED BY <1>1, <1>2

\* Any other line belongs to the last row, with what awaited it.
LEMMA LinesAtOther ==
    ASSUME NEW n \in Nat, ~IsNote(n + 1), ~IsRow(n + 1), NEW r \in 1..n, IsRow(r)
    PROVE  /\ Trailing(n + 1) = {}
           /\ (\E j \in (r + 1)..n : IsRow(j)) => LinesOf(r, n + 1) = LinesOf(r, n)
           /\ (\A j \in (r + 1)..n : ~IsRow(j)) =>
                 LinesOf(r, n + 1) = LinesOf(r, n) \cup Trailing(n) \cup {n + 1}
  <1>1. Trailing(n + 1) = {}
    BY DEF Trailing
  <1>2. ASSUME NEW i \in 1..n
        PROVE  GoesOnBy(i, r, n) => GoesOnBy(i, r, n + 1)
    BY DEF GoesOnBy
  <1>3. ASSUME NEW i \in 1..(n + 1), GoesOnBy(i, r, n + 1), ~(i <= n /\ GoesOnBy(i, r, n))
        PROVE  /\ \A k \in i..n : IsNote(k)
               /\ \A k \in (r + 1)..n : ~IsRow(k)
    <2>1. PICK j \in i..(n + 1) : /\ ~IsNote(j)
                                  /\ \A k \in i..(j - 1) : IsNote(k)
                                  /\ \A k \in (r + 1)..j : ~IsRow(k)
      BY <1>3 DEF GoesOnBy
    <2>2. j = n + 1
      BY <1>3, <2>1 DEF GoesOnBy
    <2> QED BY <2>1, <2>2
  <1>4. ~Leads(n + 1, r)
    BY DEF Leads
  <1>5. ASSUME \E j \in (r + 1)..n : IsRow(j)
        PROVE  LinesOf(r, n + 1) = LinesOf(r, n)
    <2>1. \A i \in 1..(n + 1) : GoesOnBy(i, r, n + 1) => i <= n /\ GoesOnBy(i, r, n)
      BY <1>3, <1>5
    <2> QED BY <1>2, <1>4, <2>1 DEF LinesOf
  <1>6. ASSUME \A j \in (r + 1)..n : ~IsRow(j)
        PROVE  LinesOf(r, n + 1) = LinesOf(r, n) \cup Trailing(n) \cup {n + 1}
    <2>1. \A i \in Trailing(n) \cup {n + 1} : i \in 1..(n + 1) /\ r < i
      BY RowIsNoNote DEF Trailing
    <2>2. ASSUME NEW i \in Trailing(n) \cup {n + 1}
          PROVE  GoesOnBy(i, r, n + 1)
      <3>1. n + 1 \in i..(n + 1) /\ \A k \in i..((n + 1) - 1) : IsNote(k)
        BY <2>1 DEF Trailing
      <3>2. \A k \in (r + 1)..(n + 1) : ~IsRow(k)
        BY <1>6
      <3> QED BY <2>1, <3>1, <3>2 DEF GoesOnBy
    <2>3. ASSUME NEW i \in 1..(n + 1), GoesOnBy(i, r, n + 1)
          PROVE  (i <= n /\ GoesOnBy(i, r, n)) \/ i \in Trailing(n) \cup {n + 1}
      <3>1. CASE i <= n /\ GoesOnBy(i, r, n)
        BY <3>1
      <3>2. CASE ~(i <= n /\ GoesOnBy(i, r, n))
        <4>1. \A k \in i..n : IsNote(k)
          BY <1>3, <2>3, <3>2
        <4> QED BY <4>1 DEF Trailing
      <3> QED BY <3>1, <3>2
    <2> QED BY <1>2, <1>4, <2>1, <2>2, <2>3 DEF LinesOf
  <1> QED BY <1>1, <1>5, <1>6

\* What has to be shown of a turn: the base stays as it is.
LEMMA SplitAtNext ==
    ASSUME UNCHANGED base, NEW n,
           n \in 0..Len(base), ToSet(pending') = Trailing(n),
           \A k \in DOMAIN blocks' : \E r \in 1..n : BlockOf(k, r, n)',
           \A r \in 1..n : IsRow(r) => \E k \in DOMAIN blocks' : BlockOf(k, r, n)'
    PROVE  SplitAt(n)'
  <1>1. \A i : IsRow(i)' <=> IsRow(i)
    BY DEF IsRow
  <1>2. Trailing(n)' = Trailing(n)
    BY DEF Trailing, IsNote
  <1> QED BY <1>1, <1>2 DEF SplitAt

LEMMA BlockOfNext ==
    ASSUME UNCHANGED base, NEW k, NEW r, NEW n
    PROVE  BlockOf(k, r, n)' <=>
               /\ IsRow(r) /\ base[r].id = blocks'[k].id
               /\ ToSet(blocks'[k].lines) = LinesOf(r, n)
               /\ k = Len(blocks') <=> \A j \in (r + 1)..n : ~IsRow(j)
  <1>1. \A i : IsRow(i)' <=> IsRow(i)
    BY DEF IsRow
  <1>2. LinesOf(r, n)' = LinesOf(r, n)
    BY DEF LinesOf, Leads, GoesOnBy, IsRow, IsNote
  <1> QED BY <1>1, <1>2 DEF BlockOf

\* A turn reads one more line.
LEMMA TurnReads ==
    ASSUME BundleInv, Turn
    PROVE  \E n \in Nat : /\ next = n + 1 /\ n + 1 <= Len(base) /\ SplitAt(n)
                          /\ SplitAt(n + 1)' => SplitInv'
  <1>1. PICK n \in Nat : next = n + 1
    <2>1. next \in Nat \ {0}
      BY DEF BundleInv, BundleTypeOK
    <2>2. next - 1 \in Nat /\ next = (next - 1) + 1
      BY <2>1
    <2> QED BY <2>2
  <1>2. Read = n /\ SplitAt(n)
    BY <1>1 DEF BundleInv, SplitInv, Read, Turn
  <1>3. Read' = n + 1
    BY <1>1 DEF Read, Turn
  <1>4. n + 1 <= Len(base)
    <2>1. base \in Seq(Lines)
      BY DEF BundleInv, BundleTypeOK
    <2> QED BY <1>1, <2>1 DEF Turn
  <1> QED BY <1>1, <1>2, <1>3, <1>4 DEF SplitInv

LEMMA BundleInitInv ==
    ASSUME NEW b \in Seq(Lines), WellFormed(b), BundleInit(b)
    PROVE  BundleInv
  <1> USE DEF BundleInit
  <1>1. BundleTypeOK
    <2>1. base \in Seq(Lines) /\ WellFormed(base)
      BY DEF WellFormed
    <2> QED BY <2>1 DEF BundleTypeOK
  <1>2. SplitInv
    <2>1. Read = 0 /\ Len(base) \in Nat
      BY <1>1 DEF Read, BundleTypeOK
    <2>2. Trailing(0) = {} /\ ToSet(pending) = {}
      BY DEF Trailing, ToSet
    <2>3. SplitAt(0)
      <3>1. DOMAIN blocks = {} /\ 1..0 = {}
        OBVIOUS
      <3> HIDE DEF BundleInit
      <3> QED BY <2>1, <2>2, <3>1 DEF SplitAt
    <2> QED BY <2>1, <2>3 DEF SplitInv
  <1>3. OrderInv
    BY DEF OrderInv, Increasing
  <1>4. JoinInv
    BY DEF JoinInv
  <1> QED BY <1>1, <1>2, <1>3, <1>4 DEF BundleInv

LEMMA AppendIncreases ==
    ASSUME NEW s \in Seq(Nat), NEW x \in Nat, Increasing(s), \A y \in ToSet(s) : y < x
    PROVE  /\ Append(s, x) \in Seq(Nat) /\ Increasing(Append(s, x))
           /\ ToSet(Append(s, x)) = ToSet(s) \cup {x}
  <1> DEFINE t == Append(s, x)
             a == Len(s)
  <1>1. /\ a \in Nat /\ DOMAIN s = 1..a /\ DOMAIN t = 1..(a + 1) /\ t[a + 1] = x
        /\ \A i \in 1..a : t[i] = s[i]
    OBVIOUS
  <1>2. t \in Seq(Nat)
    OBVIOUS
  <1> HIDE DEF t, a
  <1>3. \A i \in 1..a : s[i] < x
    BY <1>1 DEF ToSet
  <1>4. Increasing(t)
    <2> SUFFICES ASSUME NEW i \in 1..(a + 1), NEW j \in 1..(a + 1), i < j
                 PROVE  t[i] < t[j]
      BY <1>1 DEF Increasing
    <2>1. i \in 1..a /\ t[i] = s[i]
      BY <1>1
    <2>2. CASE j = a + 1
      BY <1>1, <1>3, <2>1, <2>2
    <2>3. CASE j \in 1..a
      <3>1. t[j] = s[j] /\ s[i] < s[j]
        BY <1>1, <2>1, <2>3 DEF Increasing
      <3> QED BY <2>1, <3>1
    <2> QED BY <1>1, <2>2, <2>3
  <1>5. ToSet(t) = ToSet(s) \cup {x}
    <2>1. ToSet(t) = {t[i] : i \in 1..(a + 1)} /\ ToSet(s) = {s[i] : i \in 1..a}
      BY <1>1 DEF ToSet
    <2>2. 1..(a + 1) = (1..a) \cup {a + 1}
      BY <1>1
    <2> QED BY <1>1, <2>1, <2>2
  <1> QED BY <1>2, <1>4, <1>5 DEF t

LEMMA ConcatIncreases ==
    ASSUME NEW s \in Seq(Nat), NEW t \in Seq(Nat), Increasing(s), Increasing(t), Before(s, t)
    PROVE  /\ s \o t \in Seq(Nat) /\ Increasing(s \o t)
           /\ ToSet(s \o t) = ToSet(s) \cup ToSet(t)
  <1> DEFINE u == s \o t
             a == Len(s)
             b == Len(t)
  <1>1. /\ a \in Nat /\ b \in Nat
        /\ DOMAIN s = 1..a /\ DOMAIN t = 1..b /\ DOMAIN u = 1..(a + b)
        /\ \A i \in 1..a : u[i] = s[i]
        /\ \A i \in 1..b : u[a + i] = t[i]
    OBVIOUS
  <1>2. u \in Seq(Nat)
    OBVIOUS
  <1> HIDE DEF u, a, b
  <1>3. ASSUME NEW i \in 1..(a + b), i > a
        PROVE  i - a \in 1..b /\ u[i] = t[i - a]
    <2>1. i - a \in 1..b /\ a + (i - a) = i
      BY <1>1, <1>3
    <2> QED BY <1>1, <2>1
  <1>4. Increasing(u)
    <2> SUFFICES ASSUME NEW i \in 1..(a + b), NEW j \in 1..(a + b), i < j
                 PROVE  u[i] < u[j]
      BY <1>1 DEF Increasing
    <2>1. CASE j <= a
      <3>1. i \in DOMAIN s /\ j \in DOMAIN s /\ u[i] = s[i] /\ u[j] = s[j]
        BY <1>1, <2>1
      <3> QED BY <3>1 DEF Increasing
    <2>2. CASE i > a
      <3>1. i - a \in 1..b /\ j - a \in 1..b /\ i - a < j - a
        BY <1>1, <1>3, <2>2
      <3>2. u[i] = t[i - a] /\ u[j] = t[j - a]
        BY <1>1, <1>3, <2>2
      <3>3. t[i - a] < t[j - a]
        BY <1>1, <3>1 DEF Increasing
      <3> QED BY <3>2, <3>3
    <2>3. CASE i <= a /\ j > a
      <3>1. i \in DOMAIN s /\ u[i] = s[i] /\ j - a \in DOMAIN t /\ u[j] = t[j - a]
        BY <1>1, <1>3, <2>3
      <3>2. u[i] \in ToSet(s) /\ u[j] \in ToSet(t)
        BY <3>1 DEF ToSet
      <3> QED BY <3>2 DEF Before
    <2> QED BY <1>1, <2>1, <2>2, <2>3
  <1>5. ToSet(u) = ToSet(s) \cup ToSet(t)
    <2>1. ASSUME NEW i \in 1..(a + b)
          PROVE  u[i] \in ToSet(s) \cup ToSet(t)
      <3>1. CASE i <= a
        <4>1. i \in DOMAIN s /\ u[i] = s[i]
          BY <1>1, <3>1
        <4> QED BY <4>1 DEF ToSet
      <3>2. CASE i > a
        <4>1. i - a \in DOMAIN t /\ u[i] = t[i - a]
          BY <1>1, <1>3, <3>2
        <4> QED BY <4>1 DEF ToSet
      <3> QED BY <1>1, <3>1, <3>2
    <2>2. ASSUME NEW i \in 1..a
          PROVE  s[i] \in ToSet(u)
      <3>1. i \in 1..(a + b) /\ u[i] = s[i]
        BY <1>1
      <3> QED BY <1>1, <3>1 DEF ToSet
    <2>3. ASSUME NEW i \in 1..b
          PROVE  t[i] \in ToSet(u)
      <3>1. a + i \in 1..(a + b) /\ u[a + i] = t[i]
        BY <1>1
      <3> QED BY <1>1, <3>1 DEF ToSet
    <2>4. ToSet(u) \subseteq ToSet(s) \cup ToSet(t)
      BY <1>1, <2>1 DEF ToSet
    <2>5. ToSet(s) \subseteq ToSet(u)
      BY <1>1, <2>2 DEF ToSet
    <2>6. ToSet(t) \subseteq ToSet(u)
      BY <1>1, <2>3 DEF ToSet
    <2> QED BY <2>4, <2>5, <2>6
  <1> QED BY <1>2, <1>4, <1>5 DEF u

\* What awaits its row, with the line that is being read: it comes after every
\* block.
LEMMA AwaitedLines ==
    ASSUME BundleInv, NEW n \in Nat, SplitAt(n)
    PROVE  /\ Append(pending, n + 1) \in Seq(Nat) /\ Increasing(Append(pending, n + 1))
           /\ ToSet(Append(pending, n + 1)) = Trailing(n) \cup {n + 1}
           /\ \A k \in DOMAIN blocks : Before(blocks[k].lines, Append(pending, n + 1))
  <1>1. pending \in Seq(Nat) /\ Increasing(pending) /\ ToSet(pending) = Trailing(n)
    BY DEF BundleInv, BundleTypeOK, OrderInv, SplitAt
  <1>2. \A x \in Trailing(n) : x < n + 1
    BY DEF Trailing
  <1>3. ASSUME NEW k \in DOMAIN blocks
        PROVE  Before(blocks[k].lines, Append(pending, n + 1))
    <2>1. \A x \in ToSet(blocks[k].lines) : x < n + 1
      <3>1. PICK r \in 1..n : BlockOf(k, r, n)
        BY DEF SplitAt
      <3>2. \A x \in LinesOf(r, n) : x < n + 1
        BY DEF LinesOf
      <3> QED BY <3>1, <3>2 DEF BlockOf
    <2>2. Before(blocks[k].lines, pending)
      BY DEF BundleInv, OrderInv
    <2> QED BY <1>1, <1>2, <2>1, <2>2, AppendIncreases DEF Before
  <1> QED BY <1>1, <1>2, <1>3, AppendIncreases

LEMMA RowLineKeeps == ASSUME BundleInv, RowLine PROVE BundleInv'
  <1>1. PICK n \in Nat : /\ next = n + 1 /\ n + 1 <= Len(base) /\ SplitAt(n)
                         /\ SplitAt(n + 1)' => SplitInv'
    BY TurnReads DEF RowLine
  <1> DEFINE q == Append(pending, n + 1)
             B == [id |-> base[n + 1].id, lines |-> q]
  <1>2. /\ IsRow(n + 1) /\ blocks' = Append(blocks, B) /\ pending' = <<>>
        /\ next' = n + 2 /\ bundle = "splitting"
        /\ UNCHANGED <<base, bundle, out, insert>>
    BY <1>1 DEF RowLine, Turn
  <1>3. /\ q \in Seq(Nat) /\ Increasing(q) /\ ToSet(q) = Trailing(n) \cup {n + 1}
        /\ \A k \in DOMAIN blocks : Before(blocks[k].lines, q)
    BY <1>1, AwaitedLines
  <1>4. base \in Seq(Lines) /\ base[n + 1].id \in Ids /\ n + 1 \in 0..Len(base)
    <2>1. base \in Seq(Lines)
      BY DEF BundleInv, BundleTypeOK
    <2>2. base[n + 1] \in Lines
      BY <1>1, <2>1
    <2> QED BY <1>1, <1>2, <2>1, <2>2 DEF Lines, IsRow
  <1>5. B \in [id : Ids, lines : Seq(Nat)] /\ B.lines = q /\ B.id = base[n + 1].id
    BY <1>3, <1>4
  <1> HIDE DEF q, B
  <1>6. PICK m \in Nat :
           /\ blocks' \in Seq([id : Ids, lines : Seq(Nat)]) /\ Len(blocks') = m + 1
           /\ Len(blocks) = m /\ DOMAIN blocks = 1..m /\ DOMAIN blocks' = 1..(m + 1)
           /\ blocks'[m + 1] = B
           /\ \A k \in 1..m : blocks'[k] = blocks[k]
    <2>1. blocks \in Seq([id : Ids, lines : Seq(Nat)]) /\ Len(blocks) \in Nat
      BY DEF BundleInv, BundleTypeOK
    <2> DEFINE m == Len(blocks)
    <2>2. m \in Nat /\ DOMAIN blocks = 1..m
      BY <2>1
    <2>3. /\ blocks' \in Seq([id : Ids, lines : Seq(Nat)]) /\ Len(blocks') = m + 1
          /\ DOMAIN blocks' = 1..(m + 1)
      BY <1>2, <1>5, <2>1
    <2>4. blocks'[m + 1] = B /\ \A k \in 1..m : blocks'[k] = blocks[k]
      BY <1>2, <1>5, <2>1
    <2> QED BY <2>2, <2>3, <2>4
  <1>7. BundleTypeOK'
    BY <1>2, <1>6 DEF BundleInv, BundleTypeOK
  <1>8. SplitInv'
    <2>1. BlockOf(m + 1, n + 1, n + 1)'
      <3>1. ToSet(blocks'[m + 1].lines) = LinesOf(n + 1, n + 1)
        BY <1>2, <1>3, <1>5, <1>6, LinesAtRow
      <3>2. m + 1 = Len(blocks') <=> \A j \in ((n + 1) + 1)..(n + 1) : ~IsRow(j)
        BY <1>6
      <3>3. base[n + 1].id = blocks'[m + 1].id
        BY <1>5, <1>6
      <3> QED BY <1>2, <3>1, <3>2, <3>3, BlockOfNext
    <2>2. ASSUME NEW k \in 1..m, NEW r \in 1..n, BlockOf(k, r, n)
          PROVE  BlockOf(k, r, n + 1)'
      <3>1. IsRow(r) /\ base[r].id = blocks[k].id /\ ToSet(blocks[k].lines) = LinesOf(r, n)
        BY <2>2 DEF BlockOf
      <3>2. LinesOf(r, n + 1) = LinesOf(r, n)
        BY <1>2, LinesAtRow
      <3>3. \E j \in (r + 1)..(n + 1) : IsRow(j)
        BY <1>2
      <3>4. k # m + 1 /\ blocks'[k] = blocks[k]
        BY <1>6
      <3> QED BY <1>2, <1>6, <3>1, <3>2, <3>3, <3>4, BlockOfNext
    <2>3. \A k \in DOMAIN blocks' : \E r \in 1..(n + 1) : BlockOf(k, r, n + 1)'
      BY <1>1, <1>6, <2>1, <2>2 DEF SplitAt
    <2>4. ASSUME NEW r \in 1..(n + 1), IsRow(r)
          PROVE  \E k \in DOMAIN blocks' : BlockOf(k, r, n + 1)'
      <3>1. CASE r = n + 1
        <4>1. m + 1 \in DOMAIN blocks' /\ BlockOf(m + 1, r, n + 1)'
          BY <1>6, <2>1, <3>1
        <4> QED BY <4>1
      <3>2. CASE r \in 1..n
        <4>1. PICK k \in 1..m : BlockOf(k, r, n)
          BY <1>1, <1>6, <2>4, <3>2 DEF SplitAt
        <4>2. k \in DOMAIN blocks' /\ BlockOf(k, r, n + 1)'
          BY <1>6, <2>2, <3>2, <4>1
        <4> QED BY <4>2
      <3> QED BY <3>1, <3>2
    <2>5. ToSet(pending') = Trailing(n + 1)
      <3>1. ToSet(<<>>) = {}
        BY DEF ToSet
      <3> QED BY <1>2, <3>1, LinesAtRow
    <2> QED BY <1>1, <1>2, <1>4, <2>3, <2>4, <2>5, SplitAtNext
  <1>9. OrderInv'
    <2>1. Increasing(pending') /\ \A s : Before(s, pending')
      BY <1>2 DEF Increasing, Before, ToSet
    <2>2. \A k \in 1..m : Increasing(blocks'[k].lines)
      BY <1>6 DEF BundleInv, OrderInv
    <2>3. Increasing(blocks'[m + 1].lines)
      BY <1>3, <1>5, <1>6
    <2>4. \A k, l \in 1..m : k < l => Before(blocks'[k].lines, blocks'[l].lines)
      BY <1>6 DEF BundleInv, OrderInv
    <2>5. \A k \in 1..m : Before(blocks'[k].lines, blocks'[m + 1].lines)
      BY <1>3, <1>5, <1>6
    <2>6. OrderInv' <=> /\ Increasing(pending')
                        /\ \A k \in DOMAIN blocks' :
                              /\ Increasing(blocks'[k].lines)
                              /\ Before(blocks'[k].lines, pending')
                              /\ \A l \in DOMAIN blocks' :
                                    k < l => Before(blocks'[k].lines, blocks'[l].lines)
      BY DEF OrderInv
    <2>7. \A k \in 1..(m + 1) : k \in 1..m \/ k = m + 1
      OBVIOUS
    <2>8. \A k, l \in 1..(m + 1) : k < l => k \in 1..m
      OBVIOUS
    <2> QED BY <1>6, <2>1, <2>2, <2>3, <2>4, <2>5, <2>6, <2>7, <2>8
  <1>10. JoinInv'
    BY <1>2 DEF BundleInv, JoinInv
  <1> QED BY <1>7, <1>8, <1>9, <1>10 DEF BundleInv

LEMMA ElementOf ==
    ASSUME NEW S, NEW s \in Seq(S), NEW i \in DOMAIN s
    PROVE  s[i] \in S
  OBVIOUS

\* Before the first row stand only notes.
LEMMA AwaitsNote ==
    ASSUME BundleInv, Await, NEW n \in Nat, next = n + 1, n + 1 <= Len(base), SplitAt(n)
    PROVE  IsNote(n + 1)
  <1> SUFFICES ASSUME ~IsNote(n + 1) PROVE FALSE
    OBVIOUS
  <1>1. blocks = <<>> /\ ~IsRow(n + 1)
    BY DEF Await
  <1>2. base \in Seq(Lines) /\ n + 1 \in DOMAIN base /\ WellFormed(base)
    BY DEF BundleInv, BundleTypeOK
  <1>3. base[n + 1] \in Lines
    BY <1>2
  <1>4. base[n + 1].kind \in {"body", "top"}
    BY <1>1, <1>3 DEF IsRow, IsNote, Lines
  <1>5. PICK j \in 1..((n + 1) - 1) : IsRow(j)
    BY <1>2, <1>4 DEF WellFormed, IsRow
  <1>6. j \in 1..n
    BY <1>5
  <1> QED BY <1>1, <1>5, <1>6 DEF SplitAt

LEMMA AwaitKeeps == ASSUME BundleInv, Await PROVE BundleInv'
  <1>1. PICK n \in Nat : /\ next = n + 1 /\ n + 1 <= Len(base) /\ SplitAt(n)
                         /\ SplitAt(n + 1)' => SplitInv'
    BY TurnReads DEF Await
  <1>2. /\ pending' = Append(pending, n + 1) /\ next' = n + 2 /\ bundle = "splitting"
        /\ UNCHANGED <<base, blocks, bundle, out, insert>>
    BY <1>1 DEF Await, Turn
  <1>3. /\ pending' \in Seq(Nat) /\ Increasing(pending')
        /\ ToSet(pending') = Trailing(n) \cup {n + 1}
        /\ \A k \in DOMAIN blocks : Before(blocks[k].lines, pending')
    BY <1>1, <1>2, AwaitedLines
  <1>4. IsNote(n + 1) /\ n + 1 \in 0..Len(base)
    <2>1. base \in Seq(Lines)
      BY DEF BundleInv, BundleTypeOK
    <2> QED BY <1>1, <2>1, AwaitsNote
  <1>5. ~IsRow(n + 1)
    BY <1>4, RowIsNoNote
  <1>6. BundleTypeOK'
    BY <1>2, <1>3 DEF BundleInv, BundleTypeOK
  <1>7. SplitInv'
    <2>1. ASSUME NEW k, NEW r \in 1..n, BlockOf(k, r, n)
          PROVE  BlockOf(k, r, n + 1)'
      <3>1. LinesOf(r, n + 1) = LinesOf(r, n)
        BY <1>4, LinesAtNote
      <3>2. (\A j \in (r + 1)..n : ~IsRow(j)) <=> (\A j \in (r + 1)..(n + 1) : ~IsRow(j))
        BY <1>5
      <3>3. /\ IsRow(r) /\ base[r].id = blocks[k].id
            /\ ToSet(blocks[k].lines) = LinesOf(r, n)
            /\ k = Len(blocks) <=> \A j \in (r + 1)..n : ~IsRow(j)
        BY <2>1 DEF BlockOf
      <3>4. blocks' = blocks /\ base' = base
        BY <1>2
      <3> QED BY <3>1, <3>2, <3>3, <3>4, BlockOfNext
    <2>2. ASSUME NEW k \in DOMAIN blocks'
          PROVE  \E r \in 1..(n + 1) : BlockOf(k, r, n + 1)'
      BY <1>1, <1>2, <2>1 DEF SplitAt
    <2>3. ASSUME NEW r \in 1..(n + 1), IsRow(r)
          PROVE  \E k \in DOMAIN blocks' : BlockOf(k, r, n + 1)'
      <3>1. r \in 1..n
        BY <1>5, <2>3
      <3>2. PICK k \in DOMAIN blocks : BlockOf(k, r, n)
        BY <1>1, <2>3, <3>1 DEF SplitAt
      <3>3. k \in DOMAIN blocks' /\ BlockOf(k, r, n + 1)'
        BY <1>2, <2>1, <3>1, <3>2
      <3> QED BY <3>3
    <2>4. ToSet(pending') = Trailing(n + 1)
      BY <1>3, <1>4, LinesAtNote
    <2> QED BY <1>1, <1>2, <1>4, <2>2, <2>3, <2>4, SplitAtNext
  <1>8. OrderInv'
    BY <1>2, <1>3 DEF BundleInv, OrderInv
  <1>9. JoinInv'
    BY <1>2 DEF BundleInv, JoinInv
  <1> QED BY <1>6, <1>7, <1>8, <1>9 DEF BundleInv

LEMMA ContinueKeeps == ASSUME BundleInv, Continue PROVE BundleInv'
  <1>1. PICK n \in Nat : /\ next = n + 1 /\ n + 1 <= Len(base) /\ SplitAt(n)
                         /\ SplitAt(n + 1)' => SplitInv'
    BY TurnReads DEF Continue
  <1> DEFINE q == Append(pending, n + 1)
  <1>2. PICK m \in Nat :
           /\ m = Len(blocks) /\ m \in DOMAIN blocks /\ DOMAIN blocks = 1..m
           /\ blocks \in Seq([id : Ids, lines : Seq(Nat)])
    <2>1. blocks \in Seq([id : Ids, lines : Seq(Nat)]) /\ blocks # <<>>
      BY DEF Continue, BundleInv, BundleTypeOK
    <2> QED BY <2>1
  <1> DEFINE ls == blocks[m].lines \o q
  <1>3. /\ ~IsRow(n + 1) /\ ~IsNote(n + 1) /\ pending' = <<>>
        /\ blocks' = [blocks EXCEPT ![m].lines = ls]
        /\ next' = n + 2 /\ bundle = "splitting"
        /\ UNCHANGED <<base, bundle, out, insert>>
    BY <1>1, <1>2 DEF Continue, Turn
  <1>4. /\ q \in Seq(Nat) /\ Increasing(q) /\ ToSet(q) = Trailing(n) \cup {n + 1}
        /\ \A k \in DOMAIN blocks : Before(blocks[k].lines, q)
    BY <1>1, AwaitedLines
  <1>5. blocks[m] \in [id : Ids, lines : Seq(Nat)] /\ Increasing(blocks[m].lines)
    <2>1. blocks[m] \in [id : Ids, lines : Seq(Nat)]
      BY <1>2, ElementOf
    <2>2. Increasing(blocks[m].lines)
      BY <1>2 DEF BundleInv, OrderInv
    <2> QED BY <2>1, <2>2
  <1> HIDE DEF q
  <1>6. /\ ls \in Seq(Nat) /\ Increasing(ls)
        /\ ToSet(ls) = ToSet(blocks[m].lines) \cup Trailing(n) \cup {n + 1}
    BY <1>2, <1>4, <1>5, ConcatIncreases
  <1> HIDE DEF ls
  <1>7. /\ blocks' \in Seq([id : Ids, lines : Seq(Nat)])
        /\ DOMAIN blocks' = 1..m /\ Len(blocks') = m
        /\ blocks'[m].lines = ls
        /\ \A k \in 1..m : blocks'[k].id = blocks[k].id
        /\ \A k \in 1..m : k # m => blocks'[k] = blocks[k]
    <2> DEFINE B == [blocks[m] EXCEPT !.lines = ls]
    <2>1. B \in [id : Ids, lines : Seq(Nat)] /\ B.lines = ls /\ B.id = blocks[m].id
      BY <1>5, <1>6
    <2>2. blocks' = [blocks EXCEPT ![m] = B]
      BY <1>3
    <2> HIDE DEF B
    <2>3. /\ blocks' \in Seq([id : Ids, lines : Seq(Nat)])
          /\ DOMAIN blocks' = DOMAIN blocks /\ Len(blocks') = Len(blocks)
      BY <1>2, <2>1, <2>2
    <2>4. \A k \in 1..m : blocks'[k] = IF k = m THEN B ELSE blocks[k]
      BY <1>2, <2>2
    <2> QED BY <1>2, <2>1, <2>3, <2>4
  <1>8. BundleTypeOK'
    BY <1>3, <1>7 DEF BundleInv, BundleTypeOK
  <1>9. n + 1 \in 0..Len(base)
    <2>1. base \in Seq(Lines)
      BY DEF BundleInv, BundleTypeOK
    <2> QED BY <1>1, <2>1
  <1>10. SplitInv'
    <2>1. ASSUME NEW k \in 1..m, NEW r \in 1..n, BlockOf(k, r, n)
          PROVE  BlockOf(k, r, n + 1)'
      <3>1. /\ IsRow(r) /\ base[r].id = blocks[k].id
            /\ ToSet(blocks[k].lines) = LinesOf(r, n)
            /\ k = m <=> \A j \in (r + 1)..n : ~IsRow(j)
        BY <1>2, <2>1 DEF BlockOf
      <3>2. (\A j \in (r + 1)..n : ~IsRow(j)) <=> (\A j \in (r + 1)..(n + 1) : ~IsRow(j))
        <4>1. ~IsRow(n + 1)
          BY <1>3
        <4> QED BY <4>1
      <3>3. ToSet(blocks'[k].lines) = LinesOf(r, n + 1)
        <4>1. CASE k = m
          BY <1>3, <1>6, <1>7, <3>1, <4>1, LinesAtOther
        <4>2. CASE k # m
          BY <1>3, <1>7, <3>1, <4>2, LinesAtOther
        <4> QED BY <4>1, <4>2
      <3>4. UNCHANGED base /\ Len(blocks') = m /\ blocks'[k].id = blocks[k].id
        BY <1>3, <1>7
      <3>5. base[r].id = blocks'[k].id
        BY <3>1, <3>4
      <3>6. k = Len(blocks') <=> \A j \in (r + 1)..(n + 1) : ~IsRow(j)
        BY <3>1, <3>2, <3>4
      <3>7. UNCHANGED base /\ IsRow(r)
        BY <3>1, <3>4
      <3> QED BY <3>3, <3>5, <3>6, <3>7, BlockOfNext
    <2>2. ASSUME NEW k \in DOMAIN blocks'
          PROVE  \E r \in 1..(n + 1) : BlockOf(k, r, n + 1)'
      <3>1. k \in 1..m /\ k \in DOMAIN blocks
        BY <1>2, <1>7
      <3>2. PICK r \in 1..n : BlockOf(k, r, n)
        BY <1>1, <3>1 DEF SplitAt
      <3> QED BY <2>1, <3>1, <3>2
    <2>3. ASSUME NEW r \in 1..(n + 1), IsRow(r)
          PROVE  \E k \in DOMAIN blocks' : BlockOf(k, r, n + 1)'
      <3>1. r \in 1..n
        BY <1>3, <2>3
      <3>2. PICK k \in DOMAIN blocks : BlockOf(k, r, n)
        BY <1>1, <2>3, <3>1 DEF SplitAt
      <3>3. k \in DOMAIN blocks' /\ BlockOf(k, r, n + 1)'
        BY <1>2, <1>7, <2>1, <3>1, <3>2
      <3> QED BY <3>3
    <2>4. ToSet(pending') = Trailing(n + 1)
      <3>1. ToSet(<<>>) = {}
        BY DEF ToSet
      <3>2. Trailing(n + 1) = {}
        BY <1>3 DEF Trailing
      <3> QED BY <1>3, <3>1, <3>2
    <2> QED BY <1>1, <1>3, <1>9, <2>2, <2>3, <2>4, SplitAtNext
  <1>11. OrderInv'
    <2>1. Increasing(pending') /\ \A s : Before(s, pending')
      BY <1>3 DEF Increasing, Before, ToSet
    <2>2. ASSUME NEW k \in 1..m
          PROVE  Increasing(blocks'[k].lines)
      BY <1>2, <1>6, <1>7 DEF BundleInv, OrderInv
    <2>3. ASSUME NEW k \in 1..m, NEW l \in 1..m, k < l
          PROVE  Before(blocks'[k].lines, blocks'[l].lines)
      <3>1. Before(blocks[k].lines, blocks[l].lines) /\ Before(blocks[k].lines, q)
        BY <1>2, <1>4, <2>3 DEF BundleInv, OrderInv
      <3>2. blocks'[k] = blocks[k]
        BY <1>7, <2>3
      <3>3. CASE l = m
        BY <1>4, <1>6, <1>7, <3>1, <3>2, <3>3 DEF Before
      <3>4. CASE l # m
        BY <1>7, <3>1, <3>2, <3>4
      <3> QED BY <3>3, <3>4
    <2> QED BY <1>7, <2>1, <2>2, <2>3 DEF OrderInv
  <1>12. JoinInv'
    BY <1>3 DEF BundleInv, JoinInv
  <1> QED BY <1>8, <1>10, <1>11, <1>12 DEF BundleInv

\* A step that reads nothing.
LEMMA SplitInvStays ==
    ASSUME UNCHANGED <<base, blocks, pending>>, Read' = Read, SplitAt(Read)
    PROVE  SplitInv'
  <1>1. PICK n : n = Read
    OBVIOUS
  <1>2. SplitAt(n)
    BY <1>1
  <1>3. ASSUME NEW k, NEW r
        PROVE  BlockOf(k, r, n)' <=> BlockOf(k, r, n)
    <2>1. blocks' = blocks /\ base' = base
      OBVIOUS
    <2> QED BY <2>1, BlockOfNext DEF BlockOf
  <1>4. SplitAt(n)'
    BY <1>2, <1>3, SplitAtNext DEF SplitAt
  <1>5. Read' = n
    BY <1>1
  <1> QED BY <1>4, <1>5 DEF SplitInv

LEMMA SplitKeeps == ASSUME BundleInv, Split PROVE BundleInv'
  <1>1. /\ bundle = "splitting" /\ next > Len(base) /\ Seen /\ bundle' = "joining" /\ next' = 1
        /\ UNCHANGED <<base, blocks, pending, out>>
    BY DEF Split
  <1>2. next \in Nat \ {0} /\ Len(base) \in Nat
    BY DEF BundleInv, BundleTypeOK
  <1>3. SplitAt(next - 1)
    BY <1>1 DEF BundleInv, SplitInv, Read
  <1>4. next - 1 = Len(base)
    BY <1>1, <1>2, <1>3 DEF SplitAt
  <1>5. BundleTypeOK'
    BY <1>1 DEF BundleInv, BundleTypeOK
  <1>6. SplitInv'
    <2>1. SplitAt(Len(base)) /\ Read' = Len(base)
      BY <1>1, <1>3, <1>4 DEF Read
    <2>2. Read = Len(base)
      BY <1>1, <1>4 DEF Read
    <2> QED BY <1>1, <2>1, <2>2, SplitInvStays
  <1>7. OrderInv'
    BY <1>1 DEF BundleInv, OrderInv
  <1>8. JoinInv'
    <2>1. out = <<>>
      BY <1>1 DEF BundleInv, JoinInv
    <2>2. Joined' = {}
      <3>1. \A k \in DOMAIN blocks : ~(k < 1)
        <4>1. blocks \in Seq([id : Ids, lines : Seq(Nat)])
          BY DEF BundleInv, BundleTypeOK
        <4> QED BY <4>1
      <3> QED BY <1>1, <3>1 DEF Joined
    <2>3. ToSet(<<>>) = {} /\ Increasing(<<>>)
      BY DEF ToSet, Increasing
    <2> QED BY <1>1, <2>1, <2>2, <2>3 DEF JoinInv, Seen
  <1> QED BY <1>5, <1>6, <1>7, <1>8 DEF BundleInv

\* What has been joined comes before the block that is joined next.
LEMMA JoinKeeps == ASSUME BundleInv, Join PROVE BundleInv'
  <1>1. /\ bundle = "joining" /\ next \in DOMAIN blocks /\ next' = next + 1
        /\ UNCHANGED <<base, blocks, pending, bundle>>
    BY DEF Join
  <1>2. /\ next \in Nat \ {0} /\ out \in Seq(Nat)
        /\ blocks \in Seq([id : Ids, lines : Seq(Nat)])
    BY DEF BundleInv, BundleTypeOK
  <1>3. blocks[next].lines \in Seq(Nat)
    <2>1. blocks[next] \in [id : Ids, lines : Seq(Nat)]
      BY <1>1, <1>2, ElementOf
    <2> QED BY <2>1
  <1>4. Increasing(out) /\ ToSet(out) = UNION {ToSet(blocks[k].lines) : k \in Joined} /\ Seen
    BY <1>1 DEF BundleInv, JoinInv
  <1>5. Increasing(blocks[next].lines) /\ Before(out, blocks[next].lines)
    <2>1. \A k \in Joined : Before(blocks[k].lines, blocks[next].lines)
      BY <1>1 DEF BundleInv, OrderInv, Joined
    <2> QED BY <1>1, <1>4, <2>1 DEF BundleInv, OrderInv, Before
  <1>6. \A k \in DOMAIN blocks : k < next + 1 <=> k < next \/ k = next
    <2>1. DOMAIN blocks \subseteq Nat /\ next \in Nat
      BY <1>2
    <2> QED BY <2>1
  <1>7. /\ out' \in Seq(Nat) /\ Increasing(out')
        /\ ToSet(out') = UNION {ToSet(blocks[k].lines) : k \in Joined'}
    <2>1. CASE blocks[next].id \in DROP
      <3>1. out' = out
        BY <2>1 DEF Join
      <3>2. Joined' = Joined
        BY <1>1, <1>6, <2>1 DEF Joined
      <3> QED BY <1>2, <1>4, <3>1, <3>2
    <2>2. CASE blocks[next].id \notin DROP
      <3>1. out' = out \o blocks[next].lines
        BY <2>2 DEF Join
      <3>2. Joined' = Joined \cup {next}
        BY <1>1, <1>6, <2>2 DEF Joined
      <3>3. /\ out' \in Seq(Nat) /\ Increasing(out')
            /\ ToSet(out') = ToSet(out) \cup ToSet(blocks[next].lines)
        BY <1>2, <1>3, <1>4, <1>5, <3>1, ConcatIncreases
      <3> QED BY <1>4, <3>2, <3>3
    <2> QED BY <2>1, <2>2
  <1>8. BundleTypeOK'
    BY <1>1, <1>2, <1>7 DEF BundleInv, BundleTypeOK
  <1>9. SplitInv'
    <2>1. SplitAt(Read) /\ Read' = Read
      BY <1>1 DEF BundleInv, SplitInv, Read
    <2> QED BY <1>1, <2>1, SplitInvStays
  <1>10. OrderInv'
    BY <1>1 DEF BundleInv, OrderInv
  <1>11. JoinInv'
    BY <1>1, <1>4, <1>7 DEF JoinInv, Seen
  <1> QED BY <1>8, <1>9, <1>10, <1>11 DEF BundleInv

LEMMA BundleInvKept == BundleInv /\ [Generate]_bundleVars => BundleInv'
  <1> SUFFICES ASSUME BundleInv, [Generate]_bundleVars PROVE BundleInv'
    OBVIOUS
  <1>1. CASE Refuse
    BY <1>1 DEF Refuse, BundleInv, BundleTypeOK, SplitInv, OrderInv, JoinInv
  <1>2. CASE Write \/ UNCHANGED bundleVars
    <2>1. UNCHANGED <<base, blocks, pending, next, out>> /\ (UNCHANGED bundle \/ Write)
      BY <1>2 DEF Write, bundleVars
    <2>2. BundleTypeOK'
      BY <1>2, <2>1 DEF Write, BundleInv, BundleTypeOK
    <2>3. SplitInv'
      <3>1. (bundle = "refused" <=> bundle' = "refused") /\ Read' = Read
        BY <2>1 DEF Write, Read
      <3>2. CASE bundle = "refused"
        BY <3>1, <3>2 DEF SplitInv
      <3>3. CASE bundle # "refused"
        BY <2>1, <3>1, <3>3, SplitInvStays DEF BundleInv, SplitInv
      <3> QED BY <3>2, <3>3
    <2>4. OrderInv'
      BY <2>1 DEF BundleInv, OrderInv
    <2>5. JoinInv'
      BY <2>1 DEF Write, BundleInv, JoinInv, Seen, Joined
    <2> QED BY <2>2, <2>3, <2>4, <2>5 DEF BundleInv
  <1> QED
    BY <1>1, <1>2, RowLineKeeps, AwaitKeeps, ContinueKeeps, SplitKeeps, JoinKeeps DEF Generate

LEMMA WrittenIsWhole == BundleInv => AdmittedRowsWhole
  <1> SUFFICES ASSUME BundleInv, bundle = "written" PROVE AdmittedRowsWhole
    BY DEF AdmittedRowsWhole
  <1> DEFINE n == Len(base)
  <1>1. SplitAt(n) /\ DOMAIN base = 1..n /\ n \in Nat /\ base \in Seq(Lines)
    BY DEF BundleInv, BundleTypeOK, SplitInv, Read
  <1>2. /\ Seen /\ Increasing(out) /\ next > Len(blocks)
        /\ ToSet(out) = UNION {ToSet(blocks[k].lines) : k \in Joined}
    BY DEF BundleInv, JoinInv
  <1>3. Joined = {k \in DOMAIN blocks : blocks[k].id \notin DROP}
    <2>1. \A k \in DOMAIN blocks : k < next
      <3>1. blocks \in Seq([id : Ids, lines : Seq(Nat)]) /\ next \in Nat
        BY DEF BundleInv, BundleTypeOK
      <3> QED BY <1>2, <3>1
    <2> QED BY <2>1 DEF Joined
  <1>4. \A r \in 1..n : IsRow(r) => LinesOf(r, n) = {i \in DOMAIN base : Belongs(i, r)}
    BY <1>1 DEF LinesOf, Belongs, GoesOn, GoesOnBy
  <1>5. ASSUME NEW d \in DROP
        PROVE  \E i \in DOMAIN base : base[i] = [kind |-> "row", id |-> d]
    <2>1. PICK k \in DOMAIN blocks : blocks[k].id = d
      BY <1>2 DEF Seen
    <2>2. PICK r \in 1..n : IsRow(r) /\ base[r].id = d
      BY <1>1, <2>1 DEF SplitAt, BlockOf
    <2>3. base[r] \in Lines
      BY <1>1
    <2>4. base[r] = [kind |-> "row", id |-> d]
      BY <2>2, <2>3 DEF Lines, IsRow
    <2> QED BY <1>1, <2>4
  <1>6. ASSUME NEW i \in ToSet(out)
        PROVE  i \in Admitted
    <2>1. PICK k \in DOMAIN blocks : blocks[k].id \notin DROP /\ i \in ToSet(blocks[k].lines)
      BY <1>2, <1>3
    <2>2. PICK r \in 1..n : BlockOf(k, r, n)
      BY <1>1 DEF SplitAt
    <2>3. IsRow(r) /\ base[r].id \notin DROP /\ i \in LinesOf(r, n)
      BY <2>1, <2>2 DEF BlockOf
    <2> QED BY <1>1, <1>4, <2>3 DEF Admitted
  <1>7. ASSUME NEW i \in Admitted
        PROVE  i \in ToSet(out)
    <2>1. PICK r \in 1..n : Belongs(i, r) /\ base[r].id \notin DROP /\ i \in DOMAIN base
      BY <1>1 DEF Admitted
    <2>2. IsRow(r)
      BY <2>1 DEF Belongs
    <2>3. PICK k \in DOMAIN blocks : BlockOf(k, r, n)
      BY <1>1, <2>2 DEF SplitAt
    <2>4. blocks[k].id \notin DROP /\ i \in ToSet(blocks[k].lines)
      BY <1>4, <2>1, <2>2, <2>3 DEF BlockOf
    <2> QED BY <1>2, <1>3, <2>4
  <1> QED BY <1>2, <1>5, <1>6, <1>7 DEF AdmittedRowsWhole

\* gen-bundle.mjs:32-55, for every base that is a list and every list of ids: a
\* bundle that is written has the admitted rows, each with its comments, and
\* nothing else, in the order of the base.
THEOREM AdmittedRowsAreWhole == BundleSpec => []AdmittedRowsWhole
  <1>1. (\E b \in Seq(Lines) : WellFormed(b) /\ BundleInit(b)) => BundleInv
    BY BundleInitInv
  <1> QED BY <1>1, BundleInvKept, WrittenIsWhole, PTL DEF BundleSpec

-----------------------------------------------------------------------------
(* The two together. *)

\* In an image that ships the queue has run to its end.
ShippedInv == QueueInv /\ (shipped => status = "done")

LEMMA RepinInit == Init => ShippedInv
  <1> SUFFICES ASSUME Init PROVE ShippedInv
    OBVIOUS
  <1>1. ASSUME NEW m, NEW t, NEW g,
               m \subseteq Labels, t \subseteq Labels \ m, g \subseteq Edits,
               Guards \ t # {}, QueueInit(m, t, g)
        PROVE  ShippedInv
    BY <1>1, QueueInitInv DEF Pin, Init, ShippedInv
  <1>2. CASE QueueInit({}, {}, {})
    <2>1. KeepsAnchor # {} => Guards # {}
      BY QueueAssumption
    <2> QED BY <1>2, <2>1, QueueInitInv DEF Pin, Init, ShippedInv
  <1>3. CASE \E e, f \in Labels : QueueInit({e, f}, {}, {}) \/ QueueInit({e}, {f} \ {e}, {})
    <2>1. PICK e \in Labels, f \in Labels :
              QueueInit({e, f}, {}, {}) \/ QueueInit({e}, {f} \ {e}, {})
      BY <1>3
    <2>2. Guards \ ({f} \ {e}) # {} /\ Guards \ {} # {}
      BY QueueAssumption
    <2> QED BY <1>1, <2>1, <2>2
  <1>4. CASE \E i \in Edits, e \in Labels : QueueInit({e}, {}, {i})
    <2>1. PICK i \in Edits, e \in Labels : QueueInit({e}, {}, {i})
      BY <1>4
    <2>2. Guards \ {} # {}
      BY <2>1, QueueAssumption
    <2> QED BY <1>1, <2>1, <2>2
  <1> QED BY <1>2, <1>3, <1>4 DEF Init

LEMMA ShippedInvKept == ShippedInv /\ [Next]_repinVars => ShippedInv'
  <1> SUFFICES ASSUME ShippedInv, [Next]_repinVars PROVE ShippedInv'
    OBVIOUS
  <1>1. CASE UNCHANGED queueVars /\ (shipped' => status = "done")
    <2>1. QueueInv' /\ status' = status
      BY <1>1, QueueInvKept DEF ShippedInv, queueVars
    <2> QED BY <1>1, <2>1 DEF ShippedInv
  <1>2. CASE ~shipped /\ QueueNext /\ UNCHANGED shipped
    BY <1>2, QueueInvKept DEF ShippedInv
  <1> QED BY <1>1, <1>2 DEF Next, Ship, repinVars, ShippedInv

\* The same of a move of the pin, whatever becomes of the bundle.
THEOREM RepinKeepsQueue == Spec => [](PatchedOrRefused /\ NothingTwice /\ NamesMovedAnchor)
  <1>1. ShippedInv => PatchedOrRefused /\ NothingTwice /\ NamesMovedAnchor
    BY DoneIsPatched, TwiceForThePinOnly, BlamedIsMoved DEF ShippedInv
  <1> QED BY <1>1, RepinInit, ShippedInvKept, PTL DEF Spec

\* apply-overlay.mjs:164-171, for every queue that swaps the block of each preset,
\* and every base of the bundle: no image ships in which a preset waits for a
\* service that the bundle has not got.
THEOREM PresetsOfAnImageMount ==
    ASSUME \A p \in {"standard", "ptc", "cordis"} : p \o " fleet swap" \in Labels
    PROVE  Spec => []NoPresetWaitsForWeb
  <1>1. ShippedInv => NoPresetWaitsForWeb
    <2> SUFFICES ASSUME ShippedInv, shipped
                 PROVE  \A p \in {"standard", "ptc", "cordis"} : p \o " fleet swap" \in Applied
      BY DEF NoPresetWaitsForWeb
    <2>1. PatchedOrRefused /\ status = "done"
      BY DoneIsPatched DEF ShippedInv
    <2> QED BY <2>1 DEF PatchedOrRefused, Applied
  <1> QED BY <1>1, RepinInit, ShippedInvKept, PTL DEF Spec

\* The base to go on with is a list of rows.
LEMMA PlainBaseIsList == PlainBase \in Seq(Lines) /\ WellFormed(PlainBase)
  <1> DEFINE R == [kind : {"row"}, id : Ids]
             f == [d \in Ids |-> [kind |-> "row", id |-> d]]
  <1>1. IsFiniteSet(R)
    <2>1. f \in [Ids -> R] /\ \A r \in R : r.id \in Ids /\ f[r.id] = r
      OBVIOUS
    <2>2. f \in Surjection(Ids, R)
      BY <2>1 DEF Surjection
    <2> QED BY <2>2, RepinAssumption, FS_Surjection
  <1>2. /\ Cardinality(R) \in Nat
        /\ \E g \in [1..Cardinality(R) -> R] : IsInjective(g)
    BY <1>1, FS_CardinalityType DEF ExistsBijection, Bijection, Injection
  <1>3. PlainBase \in [1..Cardinality(R) -> R]
    BY <1>2 DEF PlainBase, SetToSeq
  <1>4. \A r \in R : r \in Lines /\ r.kind = "row"
    BY DEF Lines
  <1> HIDE DEF R
  <1>5. PlainBase \in Seq(R)
    BY <1>2, <1>3
  <1>6. R \subseteq Lines
    BY <1>4
  <1>7. WellFormed(PlainBase)
    BY <1>3, <1>4 DEF WellFormed
  <1> QED BY <1>5, <1>6, <1>7

LEMMA RepinBundleInit == Init => BundleInv
  <1>1. ASSUME NEW b \in BoundedSeq(Lines, MaxLines)
        PROVE  b \in Seq(Lines)
    BY RepinAssumption DEF BoundedSeq, SeqOf
  <1> QED BY <1>1, PlainBaseIsList, BundleInitInv DEF Init

\* The same of a move of the pin, whatever becomes of the tree.
THEOREM RepinKeepsBundle == Spec => []AdmittedRowsWhole
  <1>1. BundleInv /\ [Next]_repinVars => BundleInv'
    BY BundleInvKept DEF Next, Ship, repinVars
  <1> QED BY <1>1, RepinBundleInit, WrittenIsWhole, PTL DEF Spec
=============================================================================
