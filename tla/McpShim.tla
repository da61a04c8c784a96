------------------------------ MODULE McpShim ------------------------------
(***************************************************************************)
(* mcpshim.go over subject.go: a JSON-RPC message of dsh's MCP client, the *)
(* request it becomes for the tool app, sent in the name of the acting     *)
(* subject of that moment, and what dsh is told of the answer.             *)
(*                                                                         *)
(* The arguments of a call are a JSON value; an object maps fields to      *)
(* integers.  Filling a default decodes them into float64 and encodes them *)
(* again, so integers beyond Exact (2^53 in Go) are rounded to the nearest *)
(* representable one, ties to even.                                        *)
(***************************************************************************)
EXTENDS ActingSubject

CONSTANTS
    Exact,      \* integers up to this one survive float64; a multiple of 4
    Limit,      \* size of an answer to a call io.LimitReader lets through (8 MiB)
    ListLimit,  \* size of a catalogue it lets through (4 MiB)
    Statuses,   \* HTTP statuses the tool apps answer with
    Sizes,      \* sizes of answers of the tool apps
    Counts      \* values a model gives a field

ASSUME ShimAssumption ==
    /\ Exact \in Nat /\ Exact % 4 = 0 /\ Limit \in Nat /\ ListLimit \in Nat
    /\ Statuses \subseteq Nat /\ Sizes \subseteq Nat /\ Counts \subseteq 0..(2 * Exact)

VARIABLE exchange   \* of each call: the message, the arguments sent, the reply

shimVars == <<vars, exchange>>

NoArgs == [form |-> "absent", fields |-> <<>>]
Object(f) == [form |-> "object", fields |-> f]
Arguments ==
    {NoArgs, [form |-> "null", fields |-> <<>>]}
        \cup {Object(f) : f \in UNION {[F -> Counts] : F \in SUBSET {"count", "limit"}}}

\* What json.Unmarshal makes of the body; "garbage" is what it refuses, a body
\* cut at 4 MiB and a batch included.  tool is NoTool when the params are bad.
\* "GET", "DELETE" and "unreadable", a body that breaks off, are HTTP requests
\* that the shim answers without a message; "notification" is one of the two it
\* knows, initialized and cancelled.
NoTool == "none"
Plain(m, i) == [method |-> m, id |-> i, server |-> "drive", tool |-> NoTool, args |-> NoArgs]
Messages ==
    {Plain(m, FALSE) : m \in {"GET", "DELETE", "unreadable", "garbage"}}
        \cup {Plain(m, i) : m \in {"initialize", "notification", "ping",
                                   "tools/list", "tools/call", "other"}, i \in BOOLEAN}
        \cup {[method |-> "tools/call", id |-> TRUE, server |-> s, tool |-> "search", args |-> a] :
                s \in {"web_search", "drive"}, a \in Arguments}

\* The tool app answers with a status and a body, which may be a catalogue, or
\* the request is lost: the gate's refusal, no connection, the client's timeout,
\* a body that breaks off.
NoAnswer == [kind |-> "none", status |-> 0, size |-> 0, catalogue |-> FALSE]
Answers ==
    {[NoAnswer EXCEPT !.kind = "lost"]}
        \cup [kind : {"answer"}, status : Statuses, size : Sizes, catalogue : BOOLEAN]

\* No message yet, and no reply yet.
Silence == [kind |-> "none", code |-> 0, id |-> FALSE, size |-> 0, isError |-> FALSE]
Exchange(m, s, r, a) == [message |-> m, sent |-> s, reply |-> r, answer |-> a]
Nothing == Exchange(Plain("garbage", FALSE), NoArgs, Silence, NoAnswer)

\* A call that is under way has a message that needs the tool app.
ShimTypeOK ==
    /\ SubjectTypeOK
    /\ \A c \in Calls :
          /\ exchange[c].message \in Messages
          /\ exchange[c].reply.kind \in {"none", "status", "result", "error"}
          /\ exchange[c].reply.kind = "none" <=> begun[c] \/ exchange[c] = Nothing

ShimInit == Init /\ exchange = [c \in Calls |-> Nothing]

-----------------------------------------------------------------------------
(* The reply of the shim, written once. *)

Status(n) == [Silence EXCEPT !.kind = "status", !.code = n]
RpcResult(m, n, e) == [kind |-> "result", code |-> 0, id |-> m.id, size |-> n, isError |-> e]
RpcError(m, c) == [kind |-> "error", code |-> c, id |-> m.id, size |-> 0, isError |-> FALSE]

\* The requests mcpShim answers without the tool app.
Immediate(m) ==
    CASE m.method = "GET" -> Status(405)
      [] m.method = "DELETE" -> Status(202)
      [] m.method = "unreadable" -> Status(400)
      [] m.method = "garbage" -> RpcError(m, 32700)
      [] m.method \in {"initialize", "ping"} -> RpcResult(m, 0, FALSE)
      [] m.method = "notification" -> Status(202)
      [] m.method = "tools/call" -> RpcError(m, 32602)
      [] OTHER -> IF m.id THEN RpcError(m, 32601) ELSE Status(202)

NeedsTool(m) == m.method = "tools/list" \/ (m.method = "tools/call" /\ m.tool # NoTool)

ReplyAtOnce(c, m) ==
    /\ ~begun[c]
    /\ ~NeedsTool(m)
    /\ exchange' = [exchange EXCEPT ![c] = Exchange(m, NoArgs, Immediate(m), NoAnswer)]
    /\ UNCHANGED vars

-----------------------------------------------------------------------------
DocumentedDefaults(m) ==
    IF m.server = "web_search" /\ m.tool = "search" THEN {"count"} ELSE {}

\* encoding/json through map[string]any.
ThroughFloat(v) ==
    IF v <= Exact \/ v % 2 = 0 THEN v ELSE IF v % 4 = 1 THEN v - 1 ELSE v + 1

\* Absent arguments are the empty object; what is no object, and an object that
\* lacks nothing, passes untouched.
Given(m) == IF m.args.form = "absent" THEN Object(<<>>) ELSE m.args
Missing(m) ==
    IF Given(m).form = "object" THEN DocumentedDefaults(m) \ DOMAIN Given(m).fields ELSE {}

\* Mutant: a default replaces what the model supplied.
DefaultsFirst(m) ==
    IF Given(m).form # "object" \/ DocumentedDefaults(m) = {} THEN Given(m)
    ELSE Object([f \in DOMAIN Given(m).fields \cup DocumentedDefaults(m) |->
                   IF f \in DocumentedDefaults(m) THEN 0 ELSE ThroughFloat(Given(m).fields[f])])

ApplyDocumentedDefaults(m) ==
    IF Missing(m) = {} THEN Given(m)
    ELSE Object([f \in DOMAIN Given(m).fields \cup Missing(m) |->
                   IF f \in Missing(m) THEN 0 ELSE ThroughFloat(Given(m).fields[f])])

\* fetchCatalogue and callTool build their request and send it.
Ask(c, m) ==
    /\ NeedsTool(m)
    /\ Stamp(c)
    /\ LET s == IF m.method = "tools/call" THEN ApplyDocumentedDefaults(m) ELSE NoArgs
       IN  exchange' = [exchange EXCEPT ![c] = Exchange(m, s, Silence, NoAnswer)]

Success == 200..299

\* Mutant: a tool's own error is one of the protocol.
CallReplyStrict(m, a) ==
    IF a.kind = "lost" \/ a.status \notin Success THEN RpcError(m, 32000)
    ELSE RpcResult(m, IF a.size > Limit THEN Limit ELSE a.size, FALSE)

\* An answer of the tool app to a call, whatever its status, is a result.
CallReply(m, a) ==
    IF a.kind = "lost" THEN RpcError(m, 32000)
    ELSE RpcResult(m, IF a.size > Limit THEN Limit ELSE a.size, a.status \notin Success)

\* A catalogue must be a 200 that parses; cut short it does not.
Parses(a) == a.kind # "lost" /\ a.status = 200 /\ a.catalogue /\ a.size <= ListLimit
CatalogueReply(m, a) ==
    IF Parses(a) THEN RpcResult(m, a.size, FALSE) ELSE RpcError(m, 32000)

Reply(c, a) ==
    /\ EndCall(c)
    /\ LET m == exchange[c].message
           r == IF m.method = "tools/call" THEN CallReply(m, a) ELSE CatalogueReply(m, a)
       IN  exchange' = [exchange EXCEPT ![c] = Exchange(m, exchange[c].sent, r, a)]

ShimNext ==
    \/ SubjectNext /\ UNCHANGED exchange
    \/ \E c \in Calls, m \in Messages : ReplyAtOnce(c, m) \/ Ask(c, m)
    \/ \E c \in Calls, a \in Answers : Reply(c, a)

ShimSpec == ShimInit /\ [][ShimNext]_shimVars /\ SubjectFairness

-----------------------------------------------------------------------------
\* mcpshim.go:143-159: what the model supplied reaches the tool as it is; a
\* default is only filled in where it is documented and nothing was given.  An
\* integer beyond Exact may change, and only beside a field that was missing.
ArgumentsKept ==
    \A c \in Calls : begun[c] /\ exchange[c].message.method = "tools/call" =>
        LET m == exchange[c].message
            sent == exchange[c].sent
        IN  IF Given(m).form # "object" THEN sent = Given(m)
            ELSE /\ DOMAIN sent.fields = DOMAIN Given(m).fields \cup DocumentedDefaults(m)
                 /\ \A f \in DOMAIN Given(m).fields :
                       \/ sent.fields[f] = Given(m).fields[f]
                       \/ Given(m).fields[f] > Exact /\ Missing(m) # {}

\* mcpshim.go:128-129, "not protocol errors that abort the loop": once a call is
\* answered, the model is told so by a result, and of a status that is no success
\* by the flag of that result; only a call whose answer never came is an error of
\* the protocol.  The list of tools has no such flag: what is no catalogue is an
\* error of the protocol too.  Every message with an id is answered under it, the
\* known notifications left aside.
ErrorsReadable ==
    \A c \in Calls :
        LET m == exchange[c].message
            r == exchange[c].reply
            a == exchange[c].answer
        IN  /\ r.kind # "none" /\ m.id /\ m.method # "notification" =>
                  r.kind \in {"result", "error"} /\ r.id
            /\ a.kind # "none" /\ m.method = "tools/call" =>
                  /\ r.kind = IF a.kind = "answer" THEN "result" ELSE "error"
                  /\ r.isError <=> a.kind = "answer" /\ a.status \notin 200..299
            /\ a.kind # "none" /\ m.method = "tools/list" =>
                  /\ r.kind \in {"result", "error"} /\ ~r.isError
                  /\ r.kind = "result" => a.kind = "answer" /\ a.status = 200
=============================================================================
