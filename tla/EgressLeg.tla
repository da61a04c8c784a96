----------------------------- MODULE EgressLeg -----------------------------
(***************************************************************************)
(* main.go's forward and repro.go's reproScanBody: one request of dsh sent *)
(* on over the attested client, and the response streamed back.  On the    *)
(* model leg an event stream goes through a scanner that reads line by     *)
(* line and writes an audit line when it meets the reproducibility block.  *)
(*                                                                         *)
(* A response is a sequence of lines, and a line arrives in two pieces,    *)
(* the second with its newline: line n is the pieces 2n - 1 and 2n.        *)
(***************************************************************************)
EXTENDS Naturals

CONSTANT Lines      \* bound: the length of a response

ASSUME LinesAssumption == Lines \in Nat \ {0}

VARIABLES
    leg,        \* "model" or "tool"
    optIn,      \* X-Privasys-Reproducibility, as sent: "none", "1" or the caller's
    stage,      \* "new", "asked", "streaming" or "ended"
    stream,     \* Content-Type is text/event-stream
    framing,    \* how its end is told to the caller: "length" or "chunked"
    body,       \* what each line carries: "delta", "frame" (the reproducibility block),
                \* or "odd" (a block whose fields logRepro cannot unmarshal)
    newline,    \* the last line ends in one
    arrived,    \* pieces that the response body has yielded or still can
    upstream,   \* "open", or what a read at its end returns: "whole" for
                \* io.EOF, "broken" or "timeout" for another error
    taken,      \* pieces read from it, by the handler or into the scanner's b.br
    scanned,    \* pieces of the lines that the scanner's ReadBytes has returned
    got,        \* pieces written to the caller and flushed
    logged,     \* the scanner has met a block, and looks no further
    audited,    \* audit lines written for this response
    lossyFound, \* numbers reported that dsh's session format refuses
    outcome     \* what the caller sees: "none", "refused", "clean" or "cut"

response == <<stream, framing, body, newline>>
audit == <<logged, audited, lossyFound>>
vars == <<leg, optIn, stage, response, arrived, upstream, taken, scanned, got, audit, outcome>>

Pieces == 2 * Lines
MaxLossy == 3
Kinds == {"delta", "frame", "odd"}

LegTypeOK ==
    /\ leg \in {"model", "tool"} /\ optIn \in {"none", "1", "own"}
    /\ stage \in {"new", "asked", "streaming", "ended"}
    /\ stream \in BOOLEAN /\ newline \in BOOLEAN /\ framing \in {"length", "chunked"}
    /\ body \in [1..Lines -> Kinds]
    /\ arrived \in 0..Pieces /\ taken \in 0..arrived
    /\ scanned \in 0..taken /\ got \in 0..taken
    /\ upstream \in {"open", "whole", "broken", "timeout"}
    /\ logged \in BOOLEAN /\ audited \in Nat /\ lossyFound \in 0..MaxLossy
    /\ outcome \in {"none", "refused", "clean", "cut"}

Init ==
    /\ leg \in {"model", "tool"}
    /\ optIn \in {"none", "own"}
    /\ stage = "new"
    /\ stream = FALSE /\ framing = "chunked" /\ newline = TRUE
    /\ body = [n \in 1..Lines |-> "delta"]
    /\ arrived = 0 /\ upstream = "open" /\ taken = 0 /\ scanned = 0 /\ got = 0
    /\ logged = FALSE /\ audited = 0 /\ lossyFound = 0
    /\ outcome = "none"

-----------------------------------------------------------------------------
\* The model leg opts in unless the caller has chosen.
InjectReproOptIn == IF leg = "model" /\ optIn = "none" THEN "1" ELSE optIn

\* The request is rebuilt with the caller's headers.
Ask ==
    /\ stage = "new"
    /\ stage' = "asked"
    /\ optIn' = InjectReproOptIn
    /\ UNCHANGED <<leg, response, arrived, upstream, taken, scanned, got, audit, outcome>>

\* The request cannot be built, or client.Do fails: a refused dial, no
\* connection, the client's five minutes, or the caller left.  The verdict goes
\* to the caller as a 502.
Refused ==
    /\ stage \in {"new", "asked"}
    /\ stage' = "ended"
    /\ outcome' = "refused"
    /\ UNCHANGED <<leg, optIn, response, arrived, upstream, taken, scanned, got, audit>>

\* The upstream's headers, copied to the caller with their Content-Length.  An
\* enclave sends blocks only to those who opt in.
Respond(s, f, b, nl) ==
    /\ stage = "asked"
    /\ s => f = "chunked"
    /\ leg = "tool" \/ optIn = "none" => \A n \in 1..Lines : b[n] = "delta"
    /\ stage' = "streaming"
    /\ stream' = s /\ framing' = f /\ body' = b /\ newline' = nl
    /\ UNCHANGED <<leg, optIn, arrived, upstream, taken, scanned, got, audit, outcome>>

UpstreamSends ==
    /\ stage = "streaming" /\ upstream = "open"
    /\ arrived < Pieces
    /\ arrived' = arrived + 1
    /\ UNCHANGED <<leg, optIn, stage, response, upstream, taken, scanned, got, audit, outcome>>

\* io.EOF once everything has been sent; at any moment an error of the
\* connection, or the caller's leaving, which cancels the request.  An error may
\* overtake what had arrived and was not yet read.
UpstreamEnds(e) ==
    /\ stage = "streaming" /\ upstream = "open"
    /\ upstream' = e
    /\ IF e = "whole"
       THEN arrived = Pieces /\ arrived' = arrived
       ELSE arrived' \in taken..arrived
    /\ UNCHANGED <<leg, optIn, stage, response, taken, scanned, got, audit, outcome>>

\* Mutant: the timeout covers the headers only.
DeadlineOfHeaders == stage = "asked" /\ UpstreamEnds("timeout")

\* The client's five minutes cover the body, and run out whether the handler
\* waits for the upstream or for its caller.
Deadline == UpstreamEnds("timeout")

-----------------------------------------------------------------------------
(* The handler. *)

Scanning == leg = "model" /\ stream

\* The server ends a chunked response as usual when the handler returns, and
\* breaks off one that is shorter than its Content-Length.
Finish(p) ==
    /\ stage' = "ended"
    /\ outcome' = IF framing = "chunked" \/ p = Pieces THEN "clean" ELSE "cut"

\* Without a scanner: one Read of the body, its bytes written and flushed, and
\* then its error looked at; the error may come along with the last bytes.
Forward ==
    /\ stage = "streaming" /\ ~Scanning
    /\ \E p \in got..arrived, rerr \in BOOLEAN :
        /\ IF rerr
           THEN p = arrived /\ upstream # "open" /\ Finish(p)
           ELSE p > got /\ UNCHANGED <<stage, outcome>>
        /\ got' = p /\ taken' = p
    /\ UNCHANGED <<leg, optIn, response, arrived, upstream, scanned, audit>>

\* The scanner reads from the body only when all of the last line is served.
AtRead == stage = "streaming" /\ Scanning /\ got = scanned

\* The lines whose newline is in the scanner's buffer, not yet returned.
HasNewline(n) == n < Lines \/ newline
Ahead == {n \in 1..Lines : scanned < 2 * n /\ 2 * n <= taken /\ HasNewline(n)}
NoLineAhead == \A n \in Ahead : FALSE

\* ReadBytes fills its buffer while there is no newline in it.
Fill ==
    /\ AtRead /\ NoLineAhead
    /\ taken' \in (taken + 1)..arrived
    /\ UNCHANGED <<leg, optIn, stage, response, arrived, upstream, scanned, got, audit, outcome>>

\* A line of k numbers that dsh would refuse (bounded: two) has them reported,
\* up to the limit of a response and until a block has been met.
Reported(k) ==
    CASE logged -> lossyFound
      [] ~logged /\ lossyFound + k > MaxLossy -> MaxLossy
      [] OTHER -> lossyFound + k

\* scan of line n.  `logged` is set whether or not logRepro wrote its line.
Scan(n) ==
    /\ logged' = (logged \/ body[n] # "delta")
    /\ audited' = IF ~logged /\ body[n] = "frame" THEN audited + 1 ELSE audited
    /\ \E k \in 0..2 : lossyFound' = Reported(k)

\* Mutant: the scanner reads the whole body first.
ScanLineAtEnd ==
    /\ AtRead /\ upstream # "open"
    /\ \E n \in Ahead :
        /\ \A m \in Ahead : n <= m
        /\ scanned' = 2 * n
        /\ Scan(n)
    /\ UNCHANGED <<leg, optIn, stage, response, arrived, upstream, taken, got, outcome>>

\* ReadBytes returns the next line, and it is scanned before it is served.
ScanLine ==
    /\ AtRead
    /\ \E n \in Ahead :
        /\ \A m \in Ahead : n <= m
        /\ scanned' = 2 * n
        /\ Scan(n)
    /\ UNCHANGED <<leg, optIn, stage, response, arrived, upstream, taken, got, outcome>>

\* ReadBytes returns what it has together with the body's error.
AtRest == AtRead /\ NoLineAhead /\ upstream # "open" /\ taken = arrived

\* Mutant: only lines that came with a newline are scanned.
ScanRemainderUnseen ==
    /\ AtRest /\ scanned < taken
    /\ scanned' = taken
    /\ UNCHANGED <<leg, optIn, stage, response, arrived, upstream, taken, got, audit, outcome>>

\* That is a last line without its newline, or a part of a line, which is no
\* JSON.  It is scanned and served, and the error is dropped: the next read of
\* the body will return it again.
ScanRemainder ==
    /\ AtRest /\ scanned < taken
    /\ scanned' = taken
    /\ IF taken = Pieces THEN Scan(Lines) ELSE UNCHANGED audit
    /\ UNCHANGED <<leg, optIn, stage, response, arrived, upstream, taken, got, outcome>>

\* A Read copies what fits of the line; the handler writes and flushes it.
Serve ==
    /\ stage = "streaming" /\ Scanning
    /\ got' \in (got + 1)..scanned
    /\ UNCHANGED <<leg, optIn, stage, response, arrived, upstream, taken, scanned, audit, outcome>>

\* Mutant: an error that comes together with bytes is looked at before them.
ReturnFirst ==
    /\ AtRest
    /\ Finish(got)
    /\ UNCHANGED <<leg, optIn, response, arrived, upstream, taken, scanned, got, audit>>

\* ReadBytes has nothing but the error, and the handler returns.
Return ==
    /\ AtRest /\ scanned = taken
    /\ Finish(got)
    /\ UNCHANGED <<leg, optIn, response, arrived, upstream, taken, scanned, got, audit>>

Handler == Forward \/ Fill \/ ScanLine \/ ScanRemainder \/ Serve \/ Return

Next ==
    \/ Ask \/ Refused \/ UpstreamSends \/ Deadline
    \/ Forward \/ Fill \/ ScanLine \/ ScanRemainder \/ Serve \/ Return
    \/ \E e \in {"whole", "broken"} : UpstreamEnds(e)
    \/ \E s, nl \in BOOLEAN, f \in {"length", "chunked"}, b \in [1..Lines -> Kinds] :
          Respond(s, f, b, nl)

\* The handler runs, and its caller reads what is written to it, or leaves.
Spec == Init /\ [][Next]_vars /\ WF_vars(Ask) /\ WF_vars(Handler)

-----------------------------------------------------------------------------
\* repro.go:63-64, "streams every byte through unchanged": however a response
\* ends, all that was read of it is with the caller before the handler returns,
\* a part of a line that the scanner had buffered included; and one that ended
\* well is with the caller whole, with a last line that has no newline.
AllBytesThrough ==
    stage = "ended" /\ outcome # "refused" =>
        got = taken /\ (upstream = "whole" => got = Pieces)

\* The first block of a response, if it has one.
FirstBlock(n) == body[n] # "delta" /\ \A m \in 1..(n - 1) : body[m] = "delta"

\* repro.go:63-65: when the first block of a stream is of the expected shape,
\* its audit line is written before the caller has all of the frame, ends it in
\* a newline or not; there is no other audit line, and none without its frame.
AuditedWithFrame ==
    /\ audited <= 1
    /\ Scanning => \A n \in 1..Lines :
          FirstBlock(n) /\ body[n] = "frame" /\ got >= 2 * n => audited = 1
    /\ audited = 1 => \E n \in 1..Lines :
          FirstBlock(n) /\ body[n] = "frame" /\ scanned >= 2 * n

\* main.go:147-148: a line that has arrived reaches the caller, whether or not
\* the upstream sends another or ever ends; only a failing connection or the
\* timeout may take it along.  The scanner alone waits for a line's newline.
LinesFlow ==
    \A n \in 1..Lines :
        arrived >= 2 * n /\ (Scanning => HasNewline(n))
            ~> got >= 2 * n \/ upstream \in {"broken", "timeout"}

\* main.go:181: the client's timeout is enough to end every request on a leg,
\* when an answer never comes and when a body stalls.
LegEnds == WF_vars(Refused) /\ WF_vars(Deadline) => <>(stage = "ended")
=============================================================================
