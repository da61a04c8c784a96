--------------------------- MODULE ActingSubject ---------------------------
(***************************************************************************)
(* subject.go under main.go's ingress and mcpshim.go: the process-wide     *)
(* acting subject.  Every request the reverse proxy forwards to dsh runs   *)
(* recordSubject in its own goroutine: an atomic Load, a log line when the *)
(* subject is another one, and only then an atomic Store.  Tool calls and  *)
(* catalogue fetches read the value once, when they build their request.   *)
(***************************************************************************)
EXTENDS FiniteSets, Naturals

CONSTANTS
    Subjects,       \* what the sealed relay may assert in X-Privasys-Sub
    NoSub,          \* the empty string: no header, or nothing bound yet
    Handlers,       \* slots for requests inside the reverse proxy's Director
    Calls           \* slots for tool calls and catalogue fetches

ASSUME SubjectAssumption == NoSub \notin Subjects

VARIABLES
    acting,     \* actingSubject
    at,         \* of each handler: "none", "load", "log" or "store"
    sub,        \* the subject its request carries, NoSub when there is none
    prev,       \* what it loaded
    stamped,    \* X-Privasys-On-Behalf-Of of each call, NoSub when absent
    begun,      \* of each call: whether its request has been built
    seen,       \* history: the subjects asserted so far
    reported    \* history: the changes <<from, to>> that were logged

vars == <<acting, at, sub, prev, stamped, begun, seen, reported>>

SubOrNone == Subjects \cup {NoSub}

SubjectTypeOK ==
    /\ acting \in SubOrNone
    /\ at \in [Handlers -> {"none", "load", "log", "store"}]
    /\ sub \in [Handlers -> SubOrNone]
    /\ prev \in [Handlers -> SubOrNone]
    /\ stamped \in [Calls -> SubOrNone]
    /\ begun \in [Calls -> BOOLEAN]
    /\ seen \subseteq Subjects
    /\ reported \subseteq Subjects \X Subjects

Init ==
    /\ acting = NoSub
    /\ at = [h \in Handlers |-> "none"]
    /\ sub = [h \in Handlers |-> NoSub]
    /\ prev = [h \in Handlers |-> NoSub]
    /\ stamped = [c \in Calls |-> NoSub]
    /\ begun = [c \in Calls |-> FALSE]
    /\ seen = {}
    /\ reported = {}

-----------------------------------------------------------------------------
Leave(h) ==
    /\ at' = [at EXCEPT ![h] = "none"]
    /\ sub' = [sub EXCEPT ![h] = NoSub]
    /\ prev' = [prev EXCEPT ![h] = NoSub]

\* The relay forwards a request; one without a subject returns at once.
Arrive(h, s) ==
    /\ at[h] = "none"
    /\ at' = [at EXCEPT ![h] = IF s = NoSub THEN "none" ELSE "load"]
    /\ sub' = [sub EXCEPT ![h] = s]
    /\ seen' = seen \cup ({s} \ {NoSub})
    /\ UNCHANGED <<acting, prev, stamped, begun, reported>>

\* Mutant: the comparison with the subject that is bound is gone.
LoadWithoutCompare(h) ==
    /\ at[h] = "load"
    /\ prev' = [prev EXCEPT ![h] = acting]
    /\ at' = [at EXCEPT ![h] = "log"]
    /\ UNCHANGED <<acting, sub, stamped, begun, seen, reported>>

\* actingSubject.Load(), and the comparison: nothing to do when it is bound.
Load(h) ==
    /\ at[h] = "load"
    /\ IF acting = sub[h]
       THEN Leave(h)
       ELSE /\ prev' = [prev EXCEPT ![h] = acting]
            /\ at' = [at EXCEPT ![h] = "log"]
            /\ UNCHANGED sub
    /\ UNCHANGED <<acting, stamped, begun, seen, reported>>

\* "CHANGED" when there was a subject, "bound" when there was none.
LogChange(h) ==
    /\ at[h] = "log"
    /\ reported' = IF prev[h] # NoSub THEN reported \cup {<<prev[h], sub[h]>>}
                                      ELSE reported
    /\ at' = [at EXCEPT ![h] = "store"]
    /\ UNCHANGED <<acting, sub, prev, stamped, begun, seen>>

\* Mutant: what was loaded is stored back.
StorePrev(h) ==
    /\ at[h] = "store"
    /\ acting' = prev[h]
    /\ Leave(h)
    /\ UNCHANGED <<stamped, begun, seen, reported>>

\* Mutant: first writer wins.
StoreFirstOnly(h) ==
    /\ at[h] = "store"
    /\ acting' = IF acting = NoSub THEN sub[h] ELSE acting
    /\ Leave(h)
    /\ UNCHANGED <<stamped, begun, seen, reported>>

Store(h) ==
    /\ at[h] = "store"
    /\ acting' = sub[h]
    /\ Leave(h)
    /\ UNCHANGED <<stamped, begun, seen, reported>>

\* fetchCatalogue and callTool: the header names the subject of that moment.
Stamp(c) ==
    /\ ~begun[c]
    /\ begun' = [begun EXCEPT ![c] = TRUE]
    /\ stamped' = [stamped EXCEPT ![c] = acting]
    /\ UNCHANGED <<acting, at, sub, prev, seen, reported>>

\* The tool app has answered.
EndCall(c) ==
    /\ begun[c]
    /\ begun' = [begun EXCEPT ![c] = FALSE]
    /\ stamped' = [stamped EXCEPT ![c] = NoSub]
    /\ UNCHANGED <<acting, at, sub, prev, seen, reported>>

Record(h) == Load(h) \/ LogChange(h) \/ Store(h)

\* The requests of the reverse proxy; the calls are steps of McpShim.
SubjectNext == \E h \in Handlers : (\E s \in SubOrNone : Arrive(h, s)) \/ Record(h)

\* Goroutines run: a handler that began recording finishes.
SubjectFairness == \A h \in Handlers : WF_vars(Record(h))

-----------------------------------------------------------------------------
\* subject.go:11-15: the subject a call names was asserted by the relay; and
\* once a subject has been asserted and its handler is through, there is one:
\* no interleaving and no request without a subject takes it away again.
NamesAnAssertedUser ==
    /\ acting # NoSub => acting \in seen
    /\ \A c \in Calls : stamped[c] # NoSub => stamped[c] \in seen
    /\ seen # {} /\ (\A h \in Handlers : at[h] = "none") => acting # NoSub

\* subject.go:33: the alarm is never false.  A logged change names two subjects
\* that were both asserted; in a deployment with one user nothing is logged.
NoFalseAlarm ==
    \A change \in reported :
        /\ change[1] # change[2]
        /\ {change[1], change[2]} \subseteq seen

\* subject.go:20, last writer wins: when from some time on every request is
\* of one user and requests keep coming, the proxy acts for that user, in
\* spite of the handlers of earlier users that store late.
SettlesOnLastUser ==
    \A s \in Subjects :
        /\ <>[](\A h \in Handlers : sub[h] \in {s, NoSub})
        /\ []<>(\E h \in Handlers : at[h] = "load")
        => <>[](acting = s)
=============================================================================
