------------------------------- MODULE Repin -------------------------------
(***************************************************************************)
(* README.md, "dsh pin": moving the pin.  The bundle is generated from the *)
(* new base, and its output reviewed; the overlay is run against a         *)
(* checkout of the new pin, and rebased until it goes through; the image   *)
(* is built from both (Dockerfile: the clone is fresh and the script runs  *)
(* once, in a layer of its own).                                           *)
(***************************************************************************)
EXTENDS OverlayQueue, DshOverlay, BundleRows

CONSTANT MaxLines       \* bound: lines after "- insert:"

ASSUME RepinAssumption == MaxLines \in Nat /\ IsFiniteSet(Ids)

VARIABLE shipped        \* the image has been built

repinVars == <<queueVars, bundleVars, shipped>>

\* A base to go on with: every row of the list, and one row to keep.
PlainBase == SetToSeq([kind : {"row"}, id : Ids])

\* The base varies, or the tree does (bounded: an anchor moved, two, or one
\* moved and one repeated, or a file gone).
Init ==
    /\ shipped = FALSE
    /\ \/ /\ \E b \in BoundedSeq(Lines, MaxLines) : WellFormed(b) /\ BundleInit(b)
          /\ QueueInit({}, {}, {})
       \/ /\ BundleInit(PlainBase)
          /\ \/ \E e, f \in Labels : QueueInit({e, f}, {}, {}) \/ QueueInit({e}, {f} \ {e}, {})
             \/ \E i \in Edits, e \in Labels : QueueInit({e}, {}, {i})

\* The new image is built when the script goes through a fresh tree.
Ship ==
    /\ bundle = "written" /\ status = "done" /\ ~shipped
    /\ shipped' = TRUE
    /\ UNCHANGED <<queueVars, bundleVars>>

Next ==
    \/ Generate /\ UNCHANGED <<queueVars, shipped>>
    \/ bundle = "written" /\ ~shipped /\ QueueNext /\ UNCHANGED <<bundleVars, shipped>>
    \/ Ship

Spec == Init /\ [][Next]_repinVars

-----------------------------------------------------------------------------
\* apply-overlay.mjs:164-171: the bundle has no `web` service, so a preset that
\* still mounted tool-web would wait for it and never mount.  In an image that
\* ships, each preset has had its block swapped for the fleet (the first one,
\* should the pin have two).
NoPresetWaitsForWeb ==
    shipped =>
        \/ \E i \in DOMAIN out : base[out[i]] = [kind |-> "row", id |-> "web"]
        \/ \A p \in {"standard", "ptc", "cordis"} : p \o " fleet swap" \in Applied
=============================================================================
