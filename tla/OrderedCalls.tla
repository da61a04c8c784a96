---------------------------- MODULE OrderedCalls ----------------------------
(***************************************************************************)
(* What dsh's RPC client may rely on of the sealed fetch                   *)
(* (privasys-shell.js:266-268, 277-278): its calls are carried out one     *)
(* after the other in the order they were made, and each has an outcome of *)
(* its own.  No counters, frames, chains or promises are left.             *)
(***************************************************************************)
EXTENDS Sequences, SequencesExt

CONSTANT Calls

VARIABLES
    waiting,    \* calls that were made and have not begun, in their order
    active,     \* the call under way: a set of one, or empty
    outcome,    \* of each call: "none", "answered" or "failed"
    lost        \* nothing can be carried out any more

callVars == <<waiting, active, outcome, lost>>

CallsInit ==
    /\ waiting = <<>>
    /\ active = {}
    /\ outcome = [c \in Calls |-> "none"]
    /\ lost = FALSE

Ask(c) ==
    /\ outcome[c] = "none" /\ c \notin active /\ c \notin ToSet(waiting)
    /\ waiting' = Append(waiting, c)
    /\ UNCHANGED <<active, outcome, lost>>

\* The next call begins; or, without a way to carry it out, fails at once.
Begin ==
    /\ active = {} /\ waiting # <<>>
    /\ waiting' = Tail(waiting)
    /\ IF lost
       THEN outcome' = [outcome EXCEPT ![Head(waiting)] = "failed"] /\ UNCHANGED active
       ELSE active' = {Head(waiting)} /\ UNCHANGED outcome
    /\ UNCHANGED lost

Settle(c) ==
    /\ c \in active
    /\ active' = {}
    /\ \E o \in {"answered", "failed"} : outcome' = [outcome EXCEPT ![c] = o]
    /\ UNCHANGED <<waiting, lost>>

\* The way is lost: what is under way fails, what waits will when its turn comes.
Lose ==
    /\ ~lost /\ lost' = TRUE
    /\ active' = {}
    /\ outcome' = [c \in Calls |-> IF c \in active THEN "failed" ELSE outcome[c]]
    /\ UNCHANGED waiting

CallsNext == (\E c \in Calls : Ask(c) \/ Settle(c)) \/ Begin \/ Lose

CallsSpec == CallsInit /\ [][CallsNext]_callVars
=============================================================================
