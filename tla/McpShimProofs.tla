---------------------------- MODULE McpShimProofs ----------------------------
(***************************************************************************)
(* Proofs about McpShim and ActingSubject, for any number of users,        *)
(* requests and calls: whom a call names and what is logged of a change,   *)
(* and which arguments reach a tool.                                       *)
(***************************************************************************)
EXTENDS McpShim, TLAPS

-----------------------------------------------------------------------------
(* The acting subject. *)

\* What a handler holds at each of its steps, and why a subject that is bound
\* stays bound: a handler leaves only when its own subject, or another one, is
\* in the value.
HandlerInv ==
    /\ \A h \in Handlers :
          /\ at[h] # "none" => sub[h] \in seen
          /\ at[h] \in {"log", "store"} =>
                /\ prev[h] # sub[h]
                /\ prev[h] # NoSub => prev[h] \in seen
    /\ \A c \in Calls : stamped[c] # NoSub => stamped[c] \in seen
    /\ acting # NoSub => acting \in seen
    /\ seen # {} /\ acting = NoSub => \E h \in Handlers : at[h] # "none"

SubjectInv == SubjectTypeOK /\ HandlerInv /\ NoFalseAlarm

LEMMA SubjectInit == ASSUME Init PROVE SubjectInv
  BY DEF Init, SubjectInv, SubjectTypeOK, HandlerInv, NoFalseAlarm, SubOrNone

LEMMA ArriveKeeps ==
    ASSUME SubjectInv, NEW h \in Handlers, NEW s \in SubOrNone, Arrive(h, s)
    PROVE  SubjectInv'
  <1> USE SubjectAssumption DEF Arrive, SubjectInv, SubOrNone
  <1>1. SubjectTypeOK'
    BY DEF SubjectTypeOK
  <1>2. HandlerInv'
    <2>1. CASE s = NoSub
      BY <2>1 DEF SubjectTypeOK, HandlerInv
    <2>2. CASE s # NoSub
      BY <2>2 DEF SubjectTypeOK, HandlerInv
    <2> QED BY <2>1, <2>2
  <1>3. NoFalseAlarm'
    BY DEF NoFalseAlarm
  <1> QED BY <1>1, <1>2, <1>3

LEMMA LoadKeeps ==
    ASSUME SubjectInv, NEW h \in Handlers, Load(h)
    PROVE  SubjectInv'
  <1> USE SubjectAssumption DEF Load, Leave, SubjectInv, SubOrNone
  <1>1. SubjectTypeOK'
    BY DEF SubjectTypeOK
  <1>2. HandlerInv'
    <2>1. CASE acting = sub[h]
      BY <2>1 DEF SubjectTypeOK, HandlerInv
    <2>2. CASE acting # sub[h]
      BY <2>2 DEF SubjectTypeOK, HandlerInv
    <2> QED BY <2>1, <2>2
  <1>3. NoFalseAlarm'
    BY DEF NoFalseAlarm
  <1> QED BY <1>1, <1>2, <1>3

LEMMA LogKeeps ==
    ASSUME SubjectInv, NEW h \in Handlers, LogChange(h)
    PROVE  SubjectInv'
  <1> USE SubjectAssumption DEF LogChange, SubjectInv, SubOrNone
  <1>1. SubjectTypeOK'
    BY DEF SubjectTypeOK, HandlerInv
  <1>2. HandlerInv'
    BY DEF SubjectTypeOK, HandlerInv
  <1>3. NoFalseAlarm'
    BY DEF NoFalseAlarm, HandlerInv, SubjectTypeOK
  <1> QED BY <1>1, <1>2, <1>3

LEMMA StoreKeeps ==
    ASSUME SubjectInv, NEW h \in Handlers, Store(h)
    PROVE  SubjectInv'
  <1> USE SubjectAssumption DEF Store, Leave, SubjectInv, SubOrNone
  <1>1. SubjectTypeOK'
    BY DEF SubjectTypeOK
  <1>2. HandlerInv'
    BY DEF SubjectTypeOK, HandlerInv
  <1>3. NoFalseAlarm'
    BY DEF NoFalseAlarm
  <1> QED BY <1>1, <1>2, <1>3

LEMMA CallKeeps ==
    ASSUME SubjectInv, NEW c \in Calls, Stamp(c) \/ EndCall(c)
    PROVE  SubjectInv'
  <1> USE SubjectAssumption DEF Stamp, EndCall, SubjectInv, SubOrNone
  <1>1. SubjectTypeOK'
    BY DEF SubjectTypeOK
  <1>2. HandlerInv'
    BY DEF SubjectTypeOK, HandlerInv
  <1>3. NoFalseAlarm'
    BY DEF NoFalseAlarm
  <1> QED BY <1>1, <1>2, <1>3

LEMMA QuietKeeps == ASSUME SubjectInv, UNCHANGED vars PROVE SubjectInv'
  BY DEF SubjectInv, SubjectTypeOK, HandlerInv, NoFalseAlarm, vars, SubOrNone

LEMMA SubjectKeeps == SubjectInv /\ [ShimNext]_shimVars => SubjectInv'
  <1> SUFFICES ASSUME SubjectInv, [ShimNext]_shimVars PROVE SubjectInv'
    OBVIOUS
  <1>1. CASE SubjectNext
    BY <1>1, ArriveKeeps, LoadKeeps, LogKeeps, StoreKeeps DEF SubjectNext, Record
  <1>2. ASSUME NEW c \in Calls, NEW m \in Messages, ReplyAtOnce(c, m) PROVE SubjectInv'
    BY <1>2, QuietKeeps DEF ReplyAtOnce
  <1>3. ASSUME NEW c \in Calls, NEW m \in Messages, Ask(c, m) PROVE SubjectInv'
    BY <1>3, CallKeeps DEF Ask
  <1>4. ASSUME NEW c \in Calls, NEW a \in Answers, Reply(c, a) PROVE SubjectInv'
    BY <1>4, CallKeeps DEF Reply
  <1>5. CASE UNCHANGED shimVars
    BY <1>5, QuietKeeps DEF shimVars
  <1> QED BY <1>1, <1>2, <1>3, <1>4, <1>5 DEF ShimNext

LEMMA SubjectInvariance == ShimSpec => []SubjectInv
  <1>1. ShimInit => SubjectInv
    BY SubjectInit DEF ShimInit
  <1> QED BY <1>1, SubjectKeeps, PTL DEF ShimSpec

\* subject.go:11-15, for any number of users, requests and calls: a call names
\* only a user whom the relay asserted, and once a user was, there is one to
\* name whenever no handler is on its way.
THEOREM CallsNameAssertedUsers == ShimSpec => []NamesAnAssertedUser
  <1>1. SubjectInv => NamesAnAssertedUser
    BY DEF SubjectInv, HandlerInv, NamesAnAssertedUser
  <1> QED BY <1>1, SubjectInvariance, PTL

\* subject.go:33: a change that is logged is one between two asserted users,
\* however the handlers interleave.
THEOREM AlarmIsNeverFalse == ShimSpec => []NoFalseAlarm
  <1>1. SubjectInv => NoFalseAlarm
    BY DEF SubjectInv
  <1> QED BY <1>1, SubjectInvariance, PTL

-----------------------------------------------------------------------------
(* The arguments of a call. *)

\* What ArgumentsKept asks of the arguments that are sent for a message.
Kept(m, sent) ==
    IF Given(m).form # "object" THEN sent = Given(m)
    ELSE /\ DOMAIN sent.fields = DOMAIN Given(m).fields \cup DocumentedDefaults(m)
         /\ \A f \in DOMAIN Given(m).fields :
               \/ sent.fields[f] = Given(m).fields[f]
               \/ Given(m).fields[f] > Exact /\ Missing(m) # {}

\* applyDocumentedDefaults, for every message and every Exact: it is only when
\* it fills a default that anything changes, and then only what is not exact.
LEMMA DefaultsKeepArguments ==
    ASSUME NEW m \in Messages
    PROVE  Kept(m, ApplyDocumentedDefaults(m))
  <1>1. CASE Missing(m) = {}
    BY <1>1 DEF Kept, ApplyDocumentedDefaults, Missing
  <1>2. CASE Missing(m) # {}
    <2> DEFINE fields == Given(m).fields
               sent == [f \in DOMAIN fields \cup Missing(m) |->
                          IF f \in Missing(m) THEN 0 ELSE ThroughFloat(fields[f])]
    <2>1. Given(m).form = "object" /\ Missing(m) = DocumentedDefaults(m) \ DOMAIN fields
      BY <1>2 DEF Missing
    <2>2. ApplyDocumentedDefaults(m) = Object(sent)
      BY <1>2 DEF ApplyDocumentedDefaults
    <2>3. \A f \in DOMAIN fields : fields[f] \in Nat
      <3>1. m.args = NoArgs \/ m.args \in Arguments
        BY DEF Messages, Plain
      <3>2. CASE m.args.form = "absent"
        BY <3>2 DEF Given, Object
      <3>3. CASE m.args.form # "absent"
        <4>1. Given(m) = m.args /\ m.args.form = "object"
          BY <2>1, <3>3 DEF Given
        <4>2. PICK F \in SUBSET {"count", "limit"} :
                  \E g \in [F -> Counts] : m.args = Object(g)
          BY <3>1, <4>1 DEF Arguments, NoArgs
        <4>3. PICK g \in [F -> Counts] : m.args = Object(g)
          BY <4>2
        <4>4. fields = g
          BY <4>1, <4>3 DEF Object
        <4>5. Counts \subseteq Nat
          BY ShimAssumption
        <4> HIDE DEF fields
        <4> QED BY <4>3, <4>4, <4>5
      <3> QED BY <3>2, <3>3
    <2>4. \A f \in DOMAIN fields : ThroughFloat(fields[f]) = fields[f] \/ fields[f] > Exact
      BY <2>3, ShimAssumption DEF ThroughFloat
    <2>5. \A f \in DOMAIN fields : sent[f] = ThroughFloat(fields[f])
      BY <2>1
    <2>6. DOMAIN sent = DOMAIN fields \cup DocumentedDefaults(m)
      BY <2>1
    <2>7. Object(sent).fields = sent
      BY DEF Object
    <2> QED BY <1>2, <2>1, <2>2, <2>4, <2>5, <2>6, <2>7 DEF Kept
  <1> QED BY <1>1, <1>2

\* While a call is under way, its message and what was sent for it are those
\* of the moment it was asked.
CallInv ==
    /\ exchange = [c \in Calls |-> exchange[c]]
    /\ begun = [c \in Calls |-> begun[c]]
    /\ \A c \in Calls : begun[c] /\ exchange[c].message.method = "tools/call" =>
          /\ exchange[c].message \in Messages
          /\ exchange[c].sent = ApplyDocumentedDefaults(exchange[c].message)

LEMMA CallInvInit == ShimInit => CallInv
  BY DEF ShimInit, Init, CallInv

LEMMA CallInvKeeps == CallInv /\ [ShimNext]_shimVars => CallInv'
  <1> SUFFICES ASSUME CallInv, [ShimNext]_shimVars PROVE CallInv'
    OBVIOUS
  <1> USE DEF CallInv
  <1>1. CASE SubjectNext /\ UNCHANGED exchange
    <2>1. UNCHANGED begun
      BY <1>1 DEF SubjectNext, Arrive, Record, Load, LogChange, Store
    <2> QED BY <1>1, <2>1
  <1>2. ASSUME NEW c \in Calls, NEW m \in Messages, ReplyAtOnce(c, m) PROVE CallInv'
    BY <1>2 DEF ReplyAtOnce, vars
  <1>3. ASSUME NEW c \in Calls, NEW m \in Messages, Ask(c, m) PROVE CallInv'
    <2> DEFINE s == IF m.method = "tools/call" THEN ApplyDocumentedDefaults(m) ELSE NoArgs
               asked == Exchange(m, s, Silence, NoAnswer)
    <2>1. asked.message = m
      BY DEF Exchange
    <2>2. m.method = "tools/call" => asked.sent = ApplyDocumentedDefaults(m)
      BY DEF Exchange
    <2>3. exchange' = [exchange EXCEPT ![c] = asked]
      BY <1>3 DEF Ask
    <2>4. begun' = [begun EXCEPT ![c] = TRUE]
      BY <1>3 DEF Ask, Stamp
    <2> HIDE DEF asked
    <2> QED BY <2>1, <2>2, <2>3, <2>4
  <1>4. ASSUME NEW c \in Calls, NEW a \in Answers, Reply(c, a) PROVE CallInv'
    <2>1. begun' = [begun EXCEPT ![c] = FALSE]
      BY <1>4 DEF Reply, EndCall
    <2>2. PICK reply : exchange' = [exchange EXCEPT ![c] = reply]
      BY <1>4, Zenon DEF Reply
    <2> QED BY <2>1, <2>2
  <1>5. CASE UNCHANGED shimVars
    BY <1>5 DEF shimVars, vars
  <1> QED BY <1>1, <1>2, <1>3, <1>4, <1>5 DEF ShimNext

\* mcpshim.go:143-159, for any messages, any number of calls and any precision
\* of float64: what the model supplied reaches the tool, an integer beyond
\* Exact beside a missing default left aside.
THEOREM CallsKeepArguments == ShimSpec => []ArgumentsKept
  <1>1. CallInv => ArgumentsKept
    <2> SUFFICES ASSUME CallInv, NEW c \in Calls, begun[c],
                        exchange[c].message.method = "tools/call"
                 PROVE  Kept(exchange[c].message, exchange[c].sent)
      BY DEF ArgumentsKept, Kept
    <2> QED BY DefaultsKeepArguments DEF CallInv
  <1>2. ShimSpec => []CallInv
    BY CallInvInit, CallInvKeeps, PTL DEF ShimSpec
  <1> QED BY <1>1, <1>2, PTL

-----------------------------------------------------------------------------
(* What the model is told of an answer. *)

\* What ErrorsReadable asks of one exchange.
Told(e) ==
    /\ e.reply.kind # "none" /\ e.message.id /\ e.message.method # "notification"
          => e.reply.kind \in {"result", "error"} /\ e.reply.id
    /\ e.answer.kind # "none" /\ e.message.method = "tools/call" =>
          /\ e.reply.kind = IF e.answer.kind = "answer" THEN "result" ELSE "error"
          /\ e.reply.isError <=> e.answer.kind = "answer" /\ e.answer.status \notin 200..299
    /\ e.answer.kind # "none" /\ e.message.method = "tools/list" =>
          /\ e.reply.kind \in {"result", "error"} /\ ~e.reply.isError
          /\ e.reply.kind = "result" => e.answer.kind = "answer" /\ e.answer.status = 200

ToldInv ==
    /\ exchange = [c \in Calls |-> exchange[c]]
    /\ \A c \in Calls : Told(exchange[c])

\* A message that is answered at once is answered under its id.
LEMMA ImmediateIsTold ==
    ASSUME NEW m \in Messages, NEW s
    PROVE  Told(Exchange(m, s, Immediate(m), NoAnswer))
  <1>1. ASSUME m.id, m.method # "notification"
        PROVE  Immediate(m).kind \in {"result", "error"} /\ Immediate(m).id
    <2>1. m.method \notin {"GET", "DELETE", "unreadable"}
      BY <1>1 DEF Messages, Plain
    <2> QED BY <1>1, <2>1, SMT DEF Immediate, RpcError, RpcResult
  <1> QED BY <1>1 DEF Told, Exchange, NoAnswer

\* Nothing has been told of a call that is asked.
LEMMA AskedIsTold ==
    ASSUME NEW m, NEW s
    PROVE  Told(Exchange(m, s, Silence, NoAnswer))
  BY DEF Told, Exchange, Silence, NoAnswer

\* Both replies bear the id of the message; that to a call has the tool's own
\* verdict, and that to a list is a result only of a 200.
LEMMA ReplyIsTold ==
    ASSUME NEW m, NEW s, NEW a \in Answers
    PROVE  Told(Exchange(m, s, IF m.method = "tools/call" THEN CallReply(m, a)
                                                          ELSE CatalogueReply(m, a), a))
  <1>1. a.kind \in {"answer", "lost"}
    BY DEF Answers, NoAnswer
  <1>2. CASE m.method = "tools/call"
    <2>1. CASE a.kind = "lost"
      <3>1. CallReply(m, a) = RpcError(m, 32000)
        BY <2>1 DEF CallReply
      <3> QED BY <1>2, <2>1, <3>1 DEF Told, Exchange, RpcError
    <2>2. CASE a.kind = "answer"
      <3> DEFINE failed == a.status \notin 200..299
      <3>1. PICK n : CallReply(m, a) = RpcResult(m, n, failed)
        BY <2>2 DEF CallReply, Success
      <3>2. RpcResult(m, n, failed).kind = "result" /\ RpcResult(m, n, failed).id = m.id
        BY DEF RpcResult
      <3>3. RpcResult(m, n, failed).isError = failed
        BY DEF RpcResult
      <3> HIDE DEF failed
      <3>4. CallReply(m, a).isError = failed /\ CallReply(m, a).kind = "result"
            /\ CallReply(m, a).id = m.id
        BY <3>1, <3>2, <3>3
      <3>5. CallReply(m, a).isError <=> a.status \notin 200..299
        BY <3>4, Zenon DEF failed
      <3> QED BY <1>2, <2>2, <3>4, <3>5 DEF Told, Exchange
    <2> QED BY <1>1, <2>1, <2>2
  <1>3. CASE m.method # "tools/call"
    <2>1. CASE Parses(a)
      <3>1. CatalogueReply(m, a) = RpcResult(m, a.size, FALSE)
        BY <2>1 DEF CatalogueReply
      <3>2. a.kind = "answer" /\ a.status = 200
        BY <1>1, <2>1 DEF Parses
      <3> QED BY <1>3, <3>1, <3>2 DEF Told, Exchange, RpcResult
    <2>2. CASE ~Parses(a)
      <3>1. CatalogueReply(m, a) = RpcError(m, 32000)
        BY <2>2 DEF CatalogueReply
      <3> QED BY <1>3, <3>1 DEF Told, Exchange, RpcError
    <2> QED BY <2>1, <2>2
  <1> QED BY <1>2, <1>3

LEMMA ToldInit == ShimInit => ToldInv
  <1> SUFFICES ASSUME ShimInit PROVE ToldInv
    OBVIOUS
  <1>1. \A c \in Calls : exchange[c] = Exchange(Plain("garbage", FALSE), NoArgs, Silence, NoAnswer)
    BY DEF ShimInit, Nothing, Exchange
  <1> QED BY <1>1, AskedIsTold DEF ShimInit, ToldInv

LEMMA ToldKeeps == ToldInv /\ [ShimNext]_shimVars => ToldInv'
  <1> SUFFICES ASSUME ToldInv, [ShimNext]_shimVars PROVE ToldInv'
    OBVIOUS
  <1>1. CASE UNCHANGED exchange
    BY <1>1 DEF ToldInv
  <1>2. ASSUME NEW c \in Calls, NEW m, NEW s, NEW r, NEW a,
               exchange' = [exchange EXCEPT ![c] = Exchange(m, s, r, a)],
               Told(Exchange(m, s, r, a))
        PROVE  ToldInv'
    <2>1. \A d \in Calls : exchange'[d] = IF d = c THEN Exchange(m, s, r, a) ELSE exchange[d]
      BY <1>2 DEF ToldInv
    <2> QED BY <1>2, <2>1 DEF ToldInv
  <1>3. ASSUME NEW c \in Calls, NEW m \in Messages, ReplyAtOnce(c, m) PROVE ToldInv'
    BY <1>2, <1>3, ImmediateIsTold DEF ReplyAtOnce
  <1>4. ASSUME NEW c \in Calls, NEW m \in Messages, Ask(c, m) PROVE ToldInv'
    BY <1>2, <1>4, AskedIsTold DEF Ask
  <1>5. ASSUME NEW c \in Calls, NEW a \in Answers, Reply(c, a) PROVE ToldInv'
    <2> DEFINE m == exchange[c].message
               s == exchange[c].sent
               r == IF m.method = "tools/call" THEN CallReply(m, a) ELSE CatalogueReply(m, a)
    <2>1. exchange' = [exchange EXCEPT ![c] = Exchange(m, s, r, a)]
      BY <1>5, Zenon DEF Reply
    <2>2. Told(Exchange(m, s, r, a))
      BY ReplyIsTold
    <2> HIDE DEF m, s, r
    <2> QED BY <1>2, <2>1, <2>2
  <1> QED BY <1>1, <1>3, <1>4, <1>5 DEF ShimNext, shimVars

\* mcpshim.go:90-133, for any messages, answers and number of calls: an answer
\* to a call is a result that says whether the tool refused, a call without one
\* an error of the protocol, as is a list of tools that is not one; and whatever
\* has an id is answered under it.
THEOREM AnswersAreReadable == ShimSpec => []ErrorsReadable
  <1>1. ToldInv => ErrorsReadable
    BY DEF ToldInv, Told, ErrorsReadable
  <1> QED BY <1>1, ToldInit, ToldKeeps, PTL DEF ShimSpec
=============================================================================
