-------------------------- MODULE EgressLegProofs --------------------------
(***************************************************************************)
(* Proofs about EgressLeg for responses of any length: however a response  *)
(* ends, all that was read of it is with the caller, and a stream has its  *)
(* audit line before the caller has the whole of its first block.          *)
(***************************************************************************)
EXTENDS EgressLeg, TLAPS

\* Where the handler is with a response.  It has read nothing before there is an
\* answer; without a scanner it keeps nothing back; and what it returned on was
\* the error after all that the body could yield.
Progress ==
    /\ stage \in {"new", "asked"} => arrived = 0 /\ upstream = "open" /\ ~logged /\ audited = 0
    /\ stage = "ended" /\ outcome # "refused" => got = taken /\ taken = arrived
    /\ stage # "ended" => outcome # "refused"
    /\ stage = "ended" /\ outcome = "refused" => arrived = 0 /\ audited = 0
    /\ ~Scanning => got = taken /\ scanned = 0 /\ ~logged /\ audited = 0
    /\ Scanning => got <= scanned
    /\ upstream = "whole" => arrived = Pieces

\* What the scanner has returned are whole lines, but for a part of one that was
\* the end of a response that failed.
WholeLines ==
    \/ \E k \in 0..Lines : scanned = 2 * k
    \/ /\ \E k \in 0..(Lines - 1) : scanned = 2 * k + 1
       /\ upstream # "open" /\ scanned = arrived

\* The scanner has met the first block as soon as it has returned its line, and
\* has written the audit line if that block was of the expected shape.
Met(n) == FirstBlock(n) /\ 2 * n <= scanned
AuditInv ==
    /\ audited \in {0, 1}
    /\ logged => \E n \in 1..Lines : Met(n)
    /\ ~logged => audited = 0 /\ \A n \in 1..Lines : 2 * n <= scanned => body[n] = "delta"
    /\ \A n \in 1..Lines : Met(n) => (body[n] = "frame" <=> audited = 1)

LegInv == LegTypeOK /\ Progress /\ (Scanning => WholeLines /\ AuditInv)

LEMMA Numbers == Lines \in Nat /\ Lines > 0 /\ Pieces = 2 * Lines /\ Pieces \in Nat
  BY LinesAssumption DEF Pieces

LEMMA LegInit == Init => LegInv
  <1> SUFFICES ASSUME Init PROVE LegInv
    OBVIOUS
  <1>1. /\ arrived = 0 /\ taken = 0 /\ scanned = 0 /\ got = 0 /\ upstream = "open"
        /\ stage = "new" /\ outcome = "none" /\ stream = FALSE /\ logged = FALSE /\ audited = 0
        /\ lossyFound = 0 /\ newline = TRUE
    BY DEF Init
  <1>2. LegTypeOK
    <2>1. stream \in BOOLEAN /\ newline \in BOOLEAN /\ logged \in BOOLEAN
      BY <1>1
    <2>2. /\ arrived \in 0..Pieces /\ taken \in 0..arrived /\ scanned \in 0..taken
          /\ got \in 0..taken /\ audited \in Nat /\ lossyFound \in 0..MaxLossy
      BY <1>1, Numbers DEF MaxLossy
    <2>3. body \in [1..Lines -> Kinds]
      BY DEF Init, Kinds
    <2>4. /\ leg \in {"model", "tool"} /\ optIn \in {"none", "1", "own"}
          /\ stage \in {"new", "asked", "streaming", "ended"}
          /\ framing \in {"length", "chunked"}
          /\ upstream \in {"open", "whole", "broken", "timeout"}
          /\ outcome \in {"none", "refused", "clean", "cut"}
      BY DEF Init
    <2> QED BY <2>1, <2>2, <2>3, <2>4 DEF LegTypeOK
  <1>3. ~Scanning
    BY <1>1 DEF Scanning
  <1>4. Progress
    BY <1>1, <1>3 DEF Progress
  <1> QED BY <1>2, <1>3, <1>4 DEF LegInv

\* The numbers that the type invariant is about.
LEMMA Counts ==
    ASSUME LegInv
    PROVE  /\ arrived \in Nat /\ taken \in Nat /\ scanned \in Nat /\ got \in Nat
           /\ got <= taken /\ scanned <= taken /\ taken <= arrived /\ arrived <= Pieces
  BY Numbers DEF LegInv, LegTypeOK

\* The answer decides what kind of response this is, before there is any of it.
LEMMA RespondKeeps ==
    ASSUME LegInv, NEW s \in BOOLEAN, NEW f \in {"length", "chunked"},
           NEW b \in [1..Lines -> Kinds], NEW nl \in BOOLEAN, Respond(s, f, b, nl)
    PROVE  LegInv'
  <1>1. /\ stage = "asked" /\ stage' = "streaming"
        /\ stream' = s /\ framing' = f /\ body' = b /\ newline' = nl
        /\ UNCHANGED <<leg, optIn, arrived, upstream, taken, scanned, got, outcome>>
        /\ UNCHANGED <<logged, audited, lossyFound>>
    BY DEF Respond, audit
  <1>2. /\ arrived = 0 /\ taken = 0 /\ scanned = 0 /\ got = 0 /\ upstream = "open"
        /\ ~logged /\ audited = 0 /\ outcome # "refused"
    BY <1>1, Counts DEF LegInv, Progress
  <1>3. LegTypeOK'
    BY <1>1 DEF LegInv, LegTypeOK
  <1>4. Progress'
    BY <1>1, <1>2 DEF Progress
  <1>5. WholeLines'
    BY <1>1, <1>2, Numbers DEF WholeLines
  <1>6. AuditInv'
    BY <1>1, <1>2 DEF AuditInv, Met
  <1> QED BY <1>3, <1>4, <1>5, <1>6 DEF LegInv

LEMMA UpstreamKeeps ==
    ASSUME LegInv,
           UpstreamSends \/ \E e \in {"whole", "broken", "timeout"} : UpstreamEnds(e)
    PROVE  LegInv'
  <1>1. /\ stage = "streaming" /\ upstream = "open" /\ stage' = stage
        /\ UNCHANGED <<leg, optIn, stream, framing, body, newline, taken, scanned, got, outcome>>
        /\ UNCHANGED <<logged, audited, lossyFound>>
    BY DEF UpstreamSends, UpstreamEnds, audit, response
  <1>2. /\ arrived' \in 0..Pieces /\ taken \in 0..arrived'
        /\ upstream' \in {"open", "whole", "broken", "timeout"}
        /\ upstream' = "whole" => arrived' = Pieces
    BY <1>1, Counts, Numbers DEF UpstreamSends, UpstreamEnds
  <1>3. LegTypeOK'
    BY <1>1, <1>2 DEF LegInv, LegTypeOK
  <1>4. Scanning' <=> Scanning
    BY <1>1 DEF Scanning
  <1>5. Progress'
    BY <1>1, <1>2, <1>4 DEF LegInv, Progress
  <1>6. Scanning => WholeLines'
    BY <1>1 DEF LegInv, WholeLines
  <1>7. Scanning => AuditInv'
    BY <1>1 DEF LegInv, AuditInv, Met, FirstBlock
  <1> QED BY <1>3, <1>4, <1>5, <1>6, <1>7 DEF LegInv

\* What a step of the handler that scans nothing leaves as it is.
LEMMA HandlerKeeps ==
    ASSUME LegInv, Ask \/ Refused \/ Forward \/ Fill \/ Serve \/ Return
    PROVE  LegInv'
  <1>1. /\ UNCHANGED <<leg, stream, framing, body, newline, arrived, upstream, scanned>>
        /\ UNCHANGED <<logged, audited, lossyFound>>
    BY DEF Ask, Refused, Forward, Fill, Serve, Return, audit, response
  <1>2. Scanning' <=> Scanning
    BY <1>1 DEF Scanning
  <1>3. /\ taken' \in 0..arrived /\ scanned \in 0..taken' /\ got' \in 0..taken'
        /\ ~Scanning => got' = taken'
        /\ Scanning => got' <= scanned
    BY Counts DEF LegInv, Progress, Ask, Refused, Forward, Fill, Serve, Return, AtRest, AtRead
  <1>4. /\ optIn' \in {"none", "1", "own"} /\ outcome' \in {"none", "refused", "clean", "cut"}
        /\ stage' \in {"asked", "streaming", "ended"}
    BY DEF LegInv, LegTypeOK, Ask, Refused, Forward, Fill, Serve, Return, Finish,
           InjectReproOptIn, AtRead
  <1>5. LegTypeOK'
    BY <1>1, <1>3, <1>4 DEF LegInv, LegTypeOK
  <1>6. /\ stage' = "asked" => stage = "new"
        /\ stage' # "ended" => outcome' = outcome /\ stage # "ended"
        /\ stage' = "ended" /\ outcome' = "refused" => stage \in {"new", "asked"}
        /\ stage' = "ended" /\ outcome' # "refused" => got' = taken' /\ taken' = arrived
    <2>1. CASE Forward
      BY <2>1 DEF Forward, Finish
    <2>2. CASE Return
      BY <2>2 DEF Return, Finish, AtRest, AtRead
    <2>3. CASE Ask \/ Refused \/ Fill \/ Serve
      BY <2>3 DEF Ask, Refused, Fill, Serve, AtRead
    <2> QED BY <2>1, <2>2, <2>3
  <1>7. Progress'
    <2>1. /\ stage' \in {"new", "asked"} => stage = "new"
          /\ stage' = "ended" /\ outcome' = "refused" => arrived = 0 /\ audited = 0
          /\ stage' # "ended" => outcome' # "refused"
      BY <1>4, <1>6 DEF LegInv, Progress
    <2> QED BY <1>1, <1>2, <1>3, <1>6, <2>1 DEF LegInv, Progress
  <1>8. Scanning => WholeLines'
    BY <1>1 DEF LegInv, WholeLines
  <1>9. Scanning => AuditInv'
    BY <1>1 DEF LegInv, AuditInv, Met, FirstBlock
  <1> QED BY <1>2, <1>5, <1>7, <1>8, <1>9 DEF LegInv

\* The limits of what is reported of a stream.
LEMMA ReportedInRange ==
    ASSUME LegTypeOK, NEW k \in Nat
    PROVE  Reported(k) \in 0..MaxLossy
  <1>1. lossyFound \in 0..MaxLossy /\ logged \in BOOLEAN /\ MaxLossy \in Nat
    BY DEF LegTypeOK, MaxLossy
  <1>2. CASE logged
    BY <1>1, <1>2 DEF Reported
  <1>3. CASE ~logged
    BY <1>1, <1>3 DEF Reported
  <1> QED BY <1>1, <1>2, <1>3

\* The scanner returns the line after the last one, and scans it.
LEMMA ScanNext ==
    ASSUME LegInv, Scanning, NEW n \in 1..Lines, Scan(n),
           scanned = 2 * (n - 1), scanned' = 2 * n, UNCHANGED body
    PROVE  AuditInv' /\ audited' \in Nat /\ logged' \in BOOLEAN
  <1>1. n \in Nat /\ scanned \in Nat /\ Lines \in Nat
    BY Counts, Numbers
  <1>2. \A m \in 1..Lines : 2 * m <= scanned' <=> m = n \/ 2 * m <= scanned
    BY <1>1
  <1>3. AuditInv
    BY DEF LegInv
  <1>4. logged \in BOOLEAN /\ logged' = (logged \/ body[n] # "delta")
    BY DEF Scan, LegInv, LegTypeOK
  <1>5. logged' \in BOOLEAN
    BY <1>4
  <1>6. CASE logged
    <2>1. audited' = audited /\ logged'
      BY <1>4, <1>6 DEF Scan
    <2>2. PICK m \in 1..Lines : Met(m)
      BY <1>3, <1>6 DEF AuditInv
    <2>3. m < n
      BY <1>1, <2>2 DEF Met
    <2>4. ~FirstBlock(n)
      BY <2>2, <2>3 DEF Met, FirstBlock
    <2>5. \A i \in 1..Lines : Met(i)' <=> Met(i)
      BY <1>2, <2>4 DEF Met, FirstBlock
    <2> QED BY <1>3, <1>5, <2>1, <2>2, <2>5 DEF AuditInv
  <1>7. CASE ~logged
    <2>1. audited = 0 /\ \A i \in 1..Lines : 2 * i <= scanned => body[i] = "delta"
      BY <1>3, <1>7 DEF AuditInv
    <2>2. \A i \in 1..(n - 1) : i \in 1..Lines /\ 2 * i <= scanned
      BY <1>1
    <2>3. \A i \in 1..(n - 1) : body[i] = "delta"
      BY <2>1, <2>2
    <2>4. \A i \in 1..Lines : Met(i)' <=> i = n /\ body[n] # "delta"
      BY <1>1, <1>2, <2>1, <2>3 DEF Met, FirstBlock
    <2>5. audited' = IF body[n] = "frame" THEN 1 ELSE 0
      BY <1>7, <2>1 DEF Scan
    <2>6. logged' <=> body[n] # "delta"
      BY <1>4, <1>7
    <2>7. ~logged' => audited' = 0
      BY <2>5, <2>6
    <2>8. ~logged' => \A i \in 1..Lines : 2 * i <= scanned' => body'[i] = "delta"
      BY <1>2, <2>1, <2>6
    <2>9. logged' => Met(n)'
      BY <2>4, <2>6
    <2>10. \A i \in 1..Lines : Met(i)' => (body'[i] = "frame" <=> audited' = 1)
      BY <2>4, <2>5
    <2> QED BY <1>5, <2>5, <2>7, <2>8, <2>9, <2>10 DEF AuditInv
  <1> QED BY <1>3, <1>4, <1>6, <1>7

LEMMA ScanKeeps ==
    ASSUME LegInv, ScanLine \/ ScanRemainder
    PROVE  LegInv'
  <1>1. /\ stage = "streaming" /\ stage' = stage /\ Scanning /\ got = scanned
        /\ UNCHANGED <<leg, optIn, stream, framing, body, newline, arrived, upstream, taken>>
        /\ UNCHANGED <<got, outcome>>
    BY DEF ScanLine, ScanRemainder, AtRest, AtRead, response
  <1>2. Scanning' /\ WholeLines /\ AuditInv
    BY <1>1 DEF Scanning, LegInv
  <1>3. lossyFound' \in 0..MaxLossy
    <2>1. CASE \E n \in 1..Lines : Scan(n)
      <3>1. PICK k \in Nat : lossyFound' = Reported(k)
        BY <2>1 DEF Scan
      <3> QED BY <3>1, ReportedInRange DEF LegInv
    <2>2. CASE UNCHANGED audit
      BY <2>2 DEF audit, LegInv, LegTypeOK
    <2>3. (\E n \in 1..Lines : Scan(n)) \/ UNCHANGED audit
      <3>1. CASE ScanLine
        BY <3>1 DEF ScanLine, Ahead
      <3>2. CASE ScanRemainder
        <4>1. Lines \in 1..Lines
          BY Numbers
        <4> QED BY <3>2, <4>1 DEF ScanRemainder
      <3> QED BY <3>1, <3>2
    <2> QED BY <2>1, <2>2, <2>3
  <1>4. /\ scanned < scanned' /\ scanned' \in Nat /\ scanned' <= taken
        /\ WholeLines' /\ AuditInv' /\ audited' \in Nat /\ logged' \in BOOLEAN
    <2>1. CASE ScanLine
      <3>1. PICK n \in Ahead : (\A m \in Ahead : n <= m) /\ scanned' = 2 * n /\ Scan(n)
        BY <2>1 DEF ScanLine
      <3>2. n \in 1..Lines /\ scanned < 2 * n /\ 2 * n <= taken
        BY <3>1 DEF Ahead
      <3>3. scanned = 2 * (n - 1)
        <4>1. PICK k \in 0..Lines : scanned = 2 * k
          <5>1. scanned < arrived
            BY <3>2, Counts
          <5> QED BY <1>2, <5>1 DEF WholeLines
        <4>2. k < n
          BY <3>2, <4>1, Numbers
        <4>3. k + 1 \in 1..Lines /\ scanned < 2 * (k + 1) /\ 2 * (k + 1) <= taken
          BY <3>2, <4>1, <4>2, Numbers, Counts
        <4>4. HasNewline(k + 1)
          <5>1. CASE k + 1 < Lines
            BY <5>1 DEF HasNewline
          <5>2. CASE k + 1 = Lines
            <6>1. n = Lines
              BY <3>2, <4>2, <5>2, Numbers
            <6> QED BY <3>1, <5>2, <6>1 DEF Ahead
          <5> QED BY <4>3, <5>1, <5>2, Numbers
        <4>5. n <= k + 1
          BY <3>1, <4>3, <4>4 DEF Ahead
        <4> QED BY <3>2, <4>1, <4>2, <4>5, Numbers
      <3>4. WholeLines'
        BY <3>1, <3>2, Numbers DEF WholeLines
      <3> QED BY <1>1, <3>1, <3>2, <3>3, <3>4, ScanNext, Numbers
    <2>2. CASE ScanRemainder
      <3>1. /\ scanned < taken /\ scanned' = taken /\ taken = arrived /\ upstream # "open"
            /\ NoLineAhead
        BY <2>2 DEF ScanRemainder, AtRest
      <3>2. PICK k \in 0..Lines : scanned = 2 * k
        BY <1>2, <3>1, Counts DEF WholeLines
      <3>3. k < Lines /\ k + 1 \in 1..Lines
        BY <3>1, <3>2, Counts, Numbers
      <3>4. k + 1 = Lines \/ taken < 2 * (k + 1)
        <4> SUFFICES ASSUME k + 1 # Lines, taken >= 2 * (k + 1) PROVE FALSE
          BY <3>2, Counts
        <4>1. k + 1 \in Ahead
          BY <3>2, <3>3, Counts, Numbers DEF Ahead, HasNewline
        <4> QED BY <3>1, <4>1 DEF NoLineAhead
      <3>5. CASE taken = Pieces
        <4>1. k + 1 = Lines
          BY <3>3, <3>4, <3>5, Numbers
        <4>2. Scan(Lines) /\ scanned = 2 * (Lines - 1) /\ scanned' = 2 * Lines
          BY <2>2, <3>1, <3>2, <3>5, <4>1, Numbers DEF ScanRemainder
        <4>3. AuditInv' /\ audited' \in Nat /\ logged' \in BOOLEAN
          BY <1>1, <4>2, ScanNext, Numbers
        <4>4. WholeLines'
          BY <4>2, Numbers DEF WholeLines
        <4> QED BY <3>1, <4>3, <4>4, Counts
      <3>6. CASE taken # Pieces
        <4>1. UNCHANGED <<logged, audited>>
          BY <2>2, <3>6 DEF ScanRemainder, audit
        <4>2. taken = 2 * k + 1
          BY <3>1, <3>2, <3>3, <3>4, <3>6, Counts, Numbers
        <4>3. WholeLines'
          <5>1. k \in 0..(Lines - 1)
            BY <3>3, Numbers
          <5> QED BY <1>1, <3>1, <4>2, <5>1 DEF WholeLines
        <4>4. \A n \in 1..Lines : 2 * n <= scanned' <=> 2 * n <= scanned
          BY <3>1, <3>2, <3>3, <4>2, Numbers
        <4>5. \A n \in 1..Lines : Met(n)' <=> Met(n)
          BY <1>1, <4>4 DEF Met, FirstBlock
        <4>6. AuditInv'
          BY <1>1, <1>2, <4>1, <4>4, <4>5 DEF AuditInv
        <4> QED BY <3>1, <4>1, <4>3, <4>6, Counts DEF LegInv, LegTypeOK
      <3> QED BY <3>5, <3>6
    <2> QED BY <2>1, <2>2
  <1>5. LegTypeOK'
    BY <1>1, <1>3, <1>4, Counts DEF LegInv, LegTypeOK
  <1>6. Progress'
    BY <1>1, <1>2, <1>4, Counts DEF LegInv, Progress
  <1> QED BY <1>2, <1>4, <1>5, <1>6 DEF LegInv

LEMMA LegInvKept == LegInv /\ [Next]_vars => LegInv'
  <1> SUFFICES ASSUME LegInv, [Next]_vars PROVE LegInv'
    OBVIOUS
  <1>1. CASE UNCHANGED vars
    BY <1>1 DEF vars, response, audit, LegInv, LegTypeOK, Progress, WholeLines, AuditInv,
                Met, FirstBlock, Scanning
  <1>2. CASE Deadline
    BY <1>2, UpstreamKeeps DEF Deadline
  <1> QED BY <1>1, <1>2, RespondKeeps, UpstreamKeeps, HandlerKeeps, ScanKeeps DEF Next

\* repro.go:63-64, for responses of any length: what was read is passed on, also
\* when the response breaks off, and what ended well is passed on whole.
THEOREM EveryByteThrough == Spec => []AllBytesThrough
  <1>1. LegInv => AllBytesThrough
    BY Counts DEF LegInv, Progress, AllBytesThrough
  <1> QED BY <1>1, LegInit, LegInvKept, PTL DEF Spec

\* repro.go:63-65, for responses of any length: at most one audit line, that of
\* the first block, and there before the caller has all of that block.
THEOREM OneAuditLine == Spec => []AuditedWithFrame
  <1>1. LegInv => AuditedWithFrame
    <2> SUFFICES ASSUME LegInv PROVE AuditedWithFrame
      OBVIOUS
    <2>1. CASE ~Scanning
      BY <2>1 DEF LegInv, Progress, AuditedWithFrame
    <2>2. CASE Scanning
      <3>1. AuditInv /\ got <= scanned
        BY <2>2 DEF LegInv, Progress
      <3>2. audited <= 1
        BY <3>1 DEF AuditInv
      <3>3. ASSUME NEW n \in 1..Lines, FirstBlock(n), body[n] = "frame", got >= 2 * n
            PROVE  audited = 1
        <4>1. Met(n)
          BY <3>1, <3>3, Counts DEF Met
        <4> QED BY <3>1, <3>3, <4>1 DEF AuditInv
      <3>4. audited = 1 => \E n \in 1..Lines :
                FirstBlock(n) /\ body[n] = "frame" /\ scanned >= 2 * n
        <4> SUFFICES ASSUME audited = 1
                     PROVE  \E n \in 1..Lines :
                                FirstBlock(n) /\ body[n] = "frame" /\ scanned >= 2 * n
          OBVIOUS
        <4>1. PICK n \in 1..Lines : Met(n)
          BY <3>1 DEF AuditInv
        <4>2. body[n] = "frame"
          BY <3>1, <4>1 DEF AuditInv
        <4> QED BY <4>1, <4>2, Counts DEF Met
      <3> QED BY <3>2, <3>3, <3>4 DEF AuditedWithFrame
    <2> QED BY <2>1, <2>2
  <1> QED BY <1>1, LegInit, LegInvKept, PTL DEF Spec
=============================================================================
