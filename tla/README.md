# Verification of the Privasys harness

TLA+ models of the attested egress proxy (Go), of the browser shell and the
attestation view (JavaScript and TypeScript), of the container's boot script and
of the tools that patch dsh at build time, with the TLC configurations that check them and
TLAPS proofs of the properties that matter most. Line numbers below are those of the repository. Every claim
about the code is made of its source; its comments and documents count only as
statements that the source keeps or does not keep.

## 1. Inventory

### 1.1 The parts

| Part | Source | State | Operations |
|---|---|---|---|
| Dependency set | `proxy/internal/attested/depset.go` | `set`, `loaded` (under `mu`), `OnChange` | `Start`, `Refresh`, the ticker, `Enabled`, `Set`, `Fold`, `Pinned`, `VerifyPeer` |
| Attested transport | `proxy/internal/attested/transport.go` | the `http.Transport` pool, lazily built | `RoundTrip`, `dialVerified`, `CloseIdleConnections` |
| Egress legs | `proxy/cmd/egress-proxy/main.go`, `repro.go` | per request only | `forward`, `reproScanBody`, the model and tool routes |
| Acting subject | `proxy/cmd/egress-proxy/subject.go` | one process-wide atomic string | `recordSubject`, `currentSubject` |
| MCP shim | `proxy/cmd/egress-proxy/mcpshim.go` | none between requests | one method per JSON-RPC message, `applyDocumentedDefaults`, `fetchCatalogue`, `callTool` |
| Ingress front | `main.go` | none | reverse proxy to dsh, header hygiene, health, the attestation summary |
| Sealed transport | `web/privasys-shell.js` 262-384 | a promise chain; one adapter per WebSocket | `enqueue`, `sealedFetch`, `SealedWebSocketAdapter` |
| Sign-in shell | `web/privasys-shell.js` 133-257, 387-460, `web/overlay/brand/PrivasysRows.tsx` | the gate, the AuthFrame, `loggingOut`, an open menu | `run`, `onAuthenticated`, `logout`, the mint, the user row |
| Attestation view | `web/vendor/attestation-view/`, `web/overlay/brand/PrivasysAttestation.tsx`, `web/overlay/trajectory/` | React state of one hook per row or tab, the open panel; a mint promise per row or tab and page | `inspect`, `verifyQuoteSignature`, the effects, the roll-up, `useReportDataCheck` |
| Boot | `app/entrypoint.sh` | the script's place, the child proxy | probe loop, boot smoke, `exec` |
| Patch queue, bundle generator | `web/apply-overlay.mjs`, `web/gen-bundle.mjs` | a tree of files at build time | `put`, `edit`; the cut of the base into rows |
| SDK frame client | `web/vendor/privasys-auth-client.iife.js` (one line, minified) | its iframes, their pending requests | `connect`, `getSession`, `clearSession`, `getTokenForAudience`, `destroy`, the callbacks of a sealed socket |
| Presentation, composition data, smoke tests, CI | the rest | | not modelled |

External to the repository, and modelled only by how it is used: the enclave
manager and its answers, `rc.Connect`, `VerifyCertificate` and `MatchDependency`,
`net/http`'s pool, the sealed relay, the page in the SDK's iframe, the identity provider,
dsh, React's scheduling, the attestation server.

### 1.2 How they interact

    browser                          enclave
    sign-in shell --AuthFrame--> identity provider
    sealed fetch / mux socket ==relay==> ingress front --> dsh
                                           | recordSubject      |
                                           v                    v
                                     acting subject <--- MCP shim   model leg
                                                            |          |
                                                            v          v
    attestation view --> summary of the set         attested transport ==> tools, model
                              \_______________________ dependency set <-- manager

- The transport calls `DepSet.VerifyPeer` from each dial; the set calls the
  transport back through `OnChange`, from the refresher's goroutine.
- `main` wires the two after `deps.Start` has begun the refresher, so the callback
  may still be missing when the refresher wants to call it.
- The ingress writes the acting subject from one goroutine per request; the shim
  reads it when it builds a request for a tool.
- The shell installs the sealed transport under dsh and boots it; dsh never sees
  whether a request is sealed.
- The view reads the summary that `main` assembles from three reads of the set.
- The sealed fetch and the mux socket share one iframe of the SDK; when it goes, both
  lose it in the same step.
- At build time the generator and the queue work on the same pin of dsh: the bundle
  drops the `web` row, and the queue must then take `tool-web` out of every preset.

### 1.3 What is hard, and what makes each part correct

| Part | Hard behaviour | What must hold |
|---|---|---|
| Dependency set | any refresh may fail; the manager changes the set at any moment; the first load is no change | converges to the manager's set; a failure never unpins; the proxy listens whatever the manager does |
| Transport | dials outlive requests; the gate is two reads under two locks; the eviction races dials, uses and the pool | a request travels only over a channel vetted for its host; one channel per request; a revoked peer stops serving |
| Summary | three reads under three locks | its parts are those of one set (they are not: section 6) |
| Acting subject | load, compare, log, store by many goroutines | names an asserted user; no false alarm; settles on the last user |
| MCP shim | defaults are filled by decoding and encoding; errors have two forms | the tool gets what the model gave; the model can read what went wrong |
| Egress legs | bytes and an error from one read; a stalled upstream; a slow caller; a scanner by lines in a stream | nothing that was read is lost, nothing is held back, a block is audited before dsh has it, an end |
| Sealed fetch | frames of failed calls may arrive late; a call may be stuck behind another | no live call is refused as a replay; order; independent failures; no call is left |
| Mux socket | the iframe and dsh close at once; an acknowledgement is queued when dsh leaves; the iframe is gone before or during | one opening, messages once and in order, an end; a close is told |
| Attestation view | overlapping requests, effects that fire on identity, failed refreshes | no spinner left; no storm; green and the report mean what they say |
| Sign-in shell | scripts that fail to load, a transport or a dsh that throws; a provider that is silent; sign-out racing iframe loads | never stuck behind the gate; a sign-out is kept; a mint is refused for a cause |
| Boot | three limits of different length run against each other; the front answers before dsh does | dsh starts in time; whoever is told "starting" is told something else in the end |
| Patch queue, generator | a run stops half way; runs over half-patched trees; anchors that moved or stand twice; comments between rows | patched everywhere or refused, once; the message names the edit to rebase; the admitted rows, whole |

The hazards behind this table are listed with their lines in `PROJECT.json`.

## 2. Modules

| Module | Models | State and actions in terms of the code |
|---|---|---|
| `DependencyPolicy` | the gate's decision as pure operators | a set is a partial function from app ids to admitted builds; `MatchesEntry` is `VerifyPeer`'s loop, `Admits` the whole gate over one set, `DigestOk` the pin |
| `DependencySet` | `depset.go` with `main`'s start | `depset`, `loaded` are the fields; `phase` is where the ticker's goroutine is in `Refresh`; one action per outcome of a fetch, one for the critical section, one for `OnChange` |
| `AttestationSummary` | `GET /privasys/attestation` | the handler's three reads, one action each, over `DependencySet` |
| `AttestedTransport` | `transport.go` over `DependencySet` | each connection has a status along `dialVerified`; each of the two reads of `VerifyPeer` is an action; then the pool |
| `VettedChannels` | the contract of `transport.go:33-37` | abstract: a channel is vetted in one step under one set |
| `ActingSubject` | `subject.go` | each step of `recordSubject` in each handler |
| `McpShim` | `mcpshim.go` over `ActingSubject` | a message becomes a request with arguments and a stamp; an answer becomes a reply |
| `EgressLeg` | `forward`, `reproScanBody` | pieces of lines that have arrived, that the handler or the scanner's buffer has read, that have been scanned, and that are with the caller |
| `SealedFrame` | the iframe of the vendored SDK | there, or gone |
| `SealedFetch` | `installSealedTransport` | the chain of tasks; the counter, the wire and the relay |
| `OrderedCalls` | what dsh's RPC client may rely on (266-268, 277-278) | abstract: a queue of calls, one of them under way |
| `MuxSocket` | `SealedWebSocketAdapter` | one action per browser task, its promise reactions included |
| `DshSocket` | the surface of the adapter (333-336) | abstract: `readyState` and the events dsh is told; a native socket with two liberties |
| `SealedSession` | the two over one iframe | adds the loss of the iframe, and the specification with its fairness |
| `AttestationView` | `useAttestation`, the roll-up, the mint, the report check, the row's panel, the tab's tools | one action per settled promise or set of due effects |
| `ShellSession` | `run`, `onAuthenticated`, `logout`, the mints, the user's menu | one action per browser task, through several loads of the page |
| `Boot` | `entrypoint.sh`, the proxy's start and its front | probes, smoke and exec against the proxy, in ticks |
| `OverlayQueue` | `apply-overlay.mjs` | a run walks a queue of puts and edits, any that keeps `QueueAssumption`, and stops at the first anchor that is missing; whoever moves the pin rebases or takes a fresh checkout |
| `DshOverlay` | `apply-overlay.mjs` 62-528 | the queue of the script as data, with the labels of the source, and which replacements contain their anchor |
| `BundleRows` | `gen-bundle.mjs` | one action per turn of the loop that splits the lines, by the branch it takes; then the check of the list, the join of the blocks, the write |
| `Repin` | `README.md` "dsh pin" and the image build | the queue of the script and the generator over one pin, and the image they end in |
| `MCAttestedTransport`, `MCAttestationSummary`, `MCAttestationView` | | values for the constants, symmetry |
| `AttestedTransportProofs`, `McpShimProofs`, `SealedSessionProofs`, `AttestationViewProofs`, `ShellSessionProofs`, `EgressLegProofs`, `BootProofs`, `RepinProofs` | | theorems (those of `Repin` in the last) |

`AttestedTransport` and `AttestationSummary` compose with `DependencySet`,
`McpShim` with `ActingSubject`, `SealedSession` with its two halves and `Repin` with
the queue and the generator, by extension: the composed module conjoins the
other one's actions with its own variables, so that each interleaving of the two
is a behaviour. Definitions that a comment calls a mutant are variants of the
definition after them with one plausible mistake; nothing else refers to them,
and each property of a passing run fails for one of them.

## 3. Runs

Sizes are distinct states; the longest run takes two and a half minutes with
two workers. Deadlock is checked wherever the system is meant to run for ever;
the other runs are of one request, one page or one boot, which come to an end.

| Run | Question | Bounds | States |
|---|---|---|---|
| `summary_torn` | Is a summary that of one set? (violated) | two non-empty sets and the empty one | stops at the counterexample |
| `transport_safety` | Which connections may carry a request while the set changes? The inductive invariant and the contract. | two hosts, one with a pin; four kinds of peer; three sets; two connections, two requests; one idle per host | 463 000 |
| `transport_liveness` | Is every waiting request served or failed without being cancelled? Does the refresher reach the manager's set through any failures, and does the proxy listen? | one host, two builds, a set and the empty one, two connections, two requests | 90 000 |
| `transport_revoked_serves` | Does a revoked build stop serving? (violated) | one host, two builds, three sets, two connections, two requests | stops at the counterexample |
| `mcp_calls` | Whom does a tool call name, what is logged, what reaches the tool, what does the model read? | two users, two concurrent handlers, one call at a time of every kind of message | 216 000 |
| `sealed_session` | Are the chain of requests and the mux socket what dsh takes them for, through failures, late frames and the loss of the iframe? | two calls, two messages, one error | 29 400 |
| `view` | Spinners, requests, the badge, the report and its freshness through overlapping and failing requests | the row, or the tab with two tools of the fleet (symmetric) and local ones; reports with a real quote, a mock quote or none, three inspections, one return from a local tool | 5.07 million |
| `view_failed_refresh` | Is the badge green only when verified? (violated) | the row, two inspections | stops at the counterexample |
| `leg_stream` | Is a response passed on as it arrives, whatever ends it and however slow its caller, and audited in time? | three lines of two pieces, blocks of both shapes | 116 485 |
| `boot_ends` | Does dsh start whatever the manager, the proxy and the model do, and does the port open and say so? | limits of 5, 5 and 8 ticks | 6 300 |
| `shell_session` | Is there always a way to sign in, is a sign-out kept, when is a mint refused? | three loads of the page, two mints | 2 958 |
| `repin` | Is what ships patched everywhere, once, and cut to the admitted rows? | every well-formed base of up to five lines over three ids, two of them dropped; every pin with one or two anchors moved, or one moved and one repeated, or one moved and a file gone | 185 649 |

Why these bounds are enough:

- Transport: a hand-off takes two connections (one that becomes free, one that
  still dials) and two requests (one that ends, one that waits); an orphaned dial
  takes the same. Eviction needs one set that admits a version and one that does
  not; a third one, empty, gives the first load and the gate that is off. A pool of
  one idle connection per host is full with one and overflows with two. The proofs
  cover every other size.
- Acting subject: a false alarm or a lost user needs two writers and two users.
- MCP: `Exact = 4` makes 5 the first integer that is rounded, as 2^53 + 1 is;
  answers below and above the limit are tried with the status 200, another success and a
  failure.
- Sealed session: a call that fails and leaves a frame behind, and one behind it; two
  messages have an order, and an error may come before, between or after. The proofs
  cover any number of calls, messages and errors.
- View: an overlap takes two inspections, a return to an earlier target a third; a
  local tool in between, once, makes the verification of one result run twice. The
  proofs cover any number of tools, inspections and returns.
- Pins: a rebase needs one anchor that moved, a second failure another; a second place
  takes one repeated anchor. Five lines hold two rows of the list, a third one, and
  notes or a top line between or after them. The proofs cover every queue, and any
  anchors moved or repeated that leave one guard as it was.
- Legs: a first line, one in the middle and a last one, so that a block may stand before
  another one, or in a last line without its newline.
- Boot: the limits keep the order and the near equality they have in the code, where
  the probe loop's 50 tries of 0.2 s equal the 10 s of the manager's client.
- Shell: the load before a sign-out, the load it causes and a reload after that.

### 3.1 Properties

- `SummaryOfOneSet`: the summary's fold is that of its entries, and its flag is theirs.
  The code does not keep it (see 6).
- `ConvergesToManager`, `ListensAtLast`: the set in force becomes the one the
  manager settles on and stays it; the proxy listens whatever the manager does.
- `CarriedByVettedPeer`, `OneConnPerRequest`: what `dialVerified` checked holds of
  every connection that carries a request, through pooling, hand-offs and dials that
  outlive their request; a request is never lost between two connections.
- `PoolConformsUnlessExcused`: outside the moment between an install and its
  `OnChange`, a connection past the gate conforms to the set in force, or was in use
  at a change, or dates from before the first load. `IInv` is its inductive form.
- `ImplementsContract`: the refinement of section 5.
- `WaitersAnswered`: a request that waits is served or fails although its dial may be
  taken over, orphaned or refused.
- `NamesAnAssertedUser`, `NoFalseAlarm`, `SettlesOnLastUser`; `ArgumentsKept`,
  `ErrorsReadable`: whom a call names and what is logged of it, what reaches the tool,
  and in which of its two forms the model is told of a failure. Within the design for one
  user (`subject.go:20-23`) a call is not tied to the user who asked for it.
- `NoReplayRefusal`: no call that still waits is refused as a replay. A frame of a call
  that failed may well be.
- `ImplementsOrderedCalls`, `ImplementsSocket`: the refinements of section 5.
- `EveryCallSettles`, `LossIsHeard`: a call that waits is settled at last, on the
  condition that sent requests are; and, on no condition, once the iframe is gone.
- `CloseIsTold`: a socket that is closed, failed, refused or left comes to a close
  event, unless its iframe went away under it (see 6).
- `NoSpinnerLeft`, `NoRequestStorm`, `FreshnessOfShownReport`,
  `GreenUnlessExcused`, `ReportUnlessExcused`: what the user reads, with the excuses
  named, which are the defects the code has (see 6). A badge at rest is green without a
  verdict in four cases: no quote, a mock quote, a failed refresh, overlapping
  verifications.
- `AllBytesThrough`: the handler returns only when the caller has all that was read of
  the body, so also what came along with an error, and a part of a line.
  `AuditedWithFrame`: the audit line of the first block is written before the caller has
  all of that block, also when the stream ends without a newline. `LinesFlow`: a line
  that has arrived is not held back for the next one. `LegEnds`: the timeout is enough
  to end a leg.
- `PortOpensInTime`: the front listens when the 10 s of the manager's client have passed.
- `StartsInTime`, `StartingEnds`: dsh is started within the limits of the loop and the
  smoke; and the front's "starting" is followed by dsh, or by the end of the proxy.
- `WayForward`: with no sign-in under way, there is a button to start one or the gate is
  gone; it is gone exactly when a sign-in has come to dsh, or to what the installation of
  the transport or dsh threw, or to a dsh whose script is missing.
- `RestoredOnlyLate`: the page a sign-out loads does not restore the session, unless the
  SDK's three seconds passed before the provider's answer. `SignOutEnds`: a sign-out
  comes to its reload. `MintRefusedForCause`: no mint is refused for want of an iframe
  while there is a session that can be had.
- `PatchedOrRefused`, `NothingTwice`, `NamesMovedAnchor`: "never a silent skip"
  (`apply-overlay.mjs:12-13`) through any runs, failures and rebases; a tree that a
  failed run left is patched no place twice; and the label a run on a fresh tree names
  is one that upstream moved, a run without a label having stopped at a file that is gone.
- `AdmittedRowsWhole`: the bundle is the admitted rows with their comments, in order,
  against a declarative definition of the row a line belongs to.
- `NoPresetWaitsForWeb`: relates the two: an image without the `web` row mounts no
  `tool-web`.

Each module also defines its type invariant (`DepTypeOK`, `TypeOK`,
`SubjectTypeOK`, `FetchTypeOK`, `MuxTypeOK`, `ViewTypeOK`, `LegTypeOK`, `BootTypeOK`,
`ShellTypeOK`, ...; those of the queue and the generator are in `RepinProofs`). They are parts of the
invariants that are proved.

## 4. Fairness

Only the system's own steps are fair, and each for a reason in the code:

- **Dials and responses** (`AttestedTransport`): `rc.Connect` and the handshake have
  timeouts and the goroutine of a dial runs, so each dial goes on or fails; a carried
  request ends (the client's five minutes, `main.go:181`). Cancellation, idle
  closing, breakage and new requests are not fair.
- **The refresher** (`DependencySet`): its goroutine runs, its client gives up after
  10 s, so a fetch always ends (weak fairness on success or failure). Strong fairness
  on `FetchAnswer` says that a manager that is asked for ever answers well again and
  again; without it nothing could converge. `SignOff` is not fair.
- **Handlers** (`ActingSubject`): goroutines run.
- **Sealed fetch**: the browser runs queued reactions. That a sent request settles is
  not assumed but is the premise of `EveryCallSettles`.
- **Mux socket**: the browser runs posted tasks; a frame that dsh has told to close
  does. The loss of the iframe is not fair.
- **Leg**: the goroutine of the handler runs, and its caller reads what is written to it
  or leaves: `w.Write` blocks otherwise, and nothing in the code bounds that. The client's
  timeout is not assumed but is the premise of `LegEnds`. The upstream is not fair.
- **Shell**: the three seconds of `clearSession` pass. Clicks and the provider are not
  fair.
- **Boot**: both processes and the clock go on; `timeout 240` ends the smoke; dsh, once
  started, listens. Neither death is fair.

`AttestationView` and `Repin` have safety properties only: they speak of a page at
rest, and of what people decide to run.

## 5. Proofs

| Theorem | Of | Says |
|---|---|---|
| `Invariance`, and from it `TypeCorrect`, `OnlyVettedPeersCarry`, `RequestsOwnOneConn`, `OnlyTwoWaysRoundTheGate` | `AttestedTransport` | `IInv`, `TypeOK`, `CarriedByVettedPeer`, `OneConnPerRequest`, `PoolConformsUnlessExcused` are invariants for every set of hosts, builds, dependency sets, pins, connections and requests |
| `TransportImplementsContract` | `AttestedTransport` | it implements `VettedChannels` |
| `CallsNameAssertedUsers`, `AlarmIsNeverFalse` | `McpShim` | `NamesAnAssertedUser`, `NoFalseAlarm` for any number of users, handlers and calls |
| `CallsKeepArguments` | `McpShim` | `ArgumentsKept` for any precision and any integers |
| `AnswersAreReadable` | `McpShim` | `ErrorsReadable` for any answers, statuses, sizes and limits |
| `NoCallIsReplayed` | `SealedSession` | `NoReplayRefusal` for any number of calls |
| `ChainKeepsOrder` | `SealedSession` | it implements `OrderedCalls` |
| `AdapterIsASocket` | `SealedSession` | it implements `DshSocket`, for any number of messages and errors |
| `NoSpinnerIsLeft`, `RequestsAreBounded`, `GreenForFourReasonsOnly`, `ReportForTwoReasonsOnly`, `FreshnessIsOfItsReport` | `AttestationView` | `NoSpinnerLeft`, `NoRequestStorm`, `GreenUnlessExcused`, `ReportUnlessExcused`, `FreshnessOfShownReport` for any tools, inspections and returns |
| `NeverStuckBehindTheGate`, `SignOutIsKept`, `RefusedForCauseOnly` | `ShellSession` | `WayForward`, `RestoredOnlyLate`, `MintRefusedForCause` for any number of loads |
| `EveryByteThrough`, `OneAuditLine` | `EgressLeg` | `AllBytesThrough`, `AuditedWithFrame` for responses of any length |
| `DshStartsInTime`, `PortIsOpenInTime` | `Boot` | `StartsInTime`, `PortOpensInTime` for any limits |
| `PatchedOrElseRefused`, `NoPlaceIsPatchedTwice`, `MovedAnchorIsNamed` | `OverlayQueue` | `PatchedOrRefused`, `NothingTwice`, `NamesMovedAnchor` for every queue and every pin that leaves a guard |
| `AdmittedRowsAreWhole` | `BundleRows` | `AdmittedRowsWhole` for every base that is a list of rows, of any length |
| `RepinKeepsQueue`, `RepinKeepsBundle`, `PresetsOfAnImageMount` | `Repin` | the same four, and `NoPresetWaitsForWeb`, of the whole re-pin |

**Transport.** The properties are not inductive by themselves; `IInv` is, as
`transport_safety` checks first. Its parts:

- `TypeOK`;
- `ConnShape`: what the fields of a connection say of its status. `Deliver` and
  `Finish` need to know that what they move into the pool has a genuine quote and a
  pin that held, since no check is repeated there;
- `Ownership`: a connection is owned by a request for its own host, and a request in
  progress owns exactly one. `HandOff` takes a request from its dial to another
  connection, and keeps this only because both are for one host and the dial gives the
  request up in the same step;
- `HookOrder`: no dial has been through `VerifyPeer`'s first read while `ordered` is
  "no", so when the refresher may find `OnChange` or `t.pool` still nil there is nothing
  for it to evict. This is why the data race on these two fields adds no third excuse:
  taking `d.mu` in the first read is what orders the writes before the refresher's next
  critical section;
- `PoolConformsUnlessExcused`.

There is one lemma per action, one step in it per part the action can disturb
(`FreeOne` and `PutIdleKeeps` serve several actions), and `NextKeeps` collects them.

**The contract.** `VettedChannels` admits a peer in one step under one set; the code
reads the set twice. A dial maps to a channel when the gate lets it through: the
contract's vetting step is the first read when that finds no set in force (the
second one never happens) and the second read otherwise, since the decision is a
function of that copy alone. Every other step maps to a pool step of the contract or
to a stutter; the refresher's install maps to the change of the policy. The contract
does not say when channels close: that is `RevokedStopsServing`, which fails.

**Acting subject and shim.** `HandlerInv` says what a handler holds between its steps:
a handler about to log or store holds a user that was asserted and that differs from
what it read, and while nobody is bound although somebody was asserted a handler is
still on its way. `ArgumentsKept` follows from `CallInv`, which carries the request
along with the message it was built from, and from `DefaultsKeepArguments` on the
rounding. `AnswersAreReadable` has `ToldInv`: every
exchange holds a reply that was made for its own message, of the answer it holds.
`isError` marks a call that the tool refused; a list of tools that is no catalogue, and a
request without an answer, are errors of the protocol, and a request that is no message
is answered by a status.

**Sealed session.** `FetchInv` adds two parts to the property. `ChainInv`: the call that
is sent is the head of the chain, and a call that is queued is in it. `WireInv`: the
frame of the call under way is newer than every other on the wire and than what the
relay has seen, and no verdict on that call exists while its frame travels; a frame that
belongs to no such call belongs to one that failed. So a late frame can only be refused
for a call that is no longer waiting. For `OrderedCalls` a call that is sent has left the
queue: `waiting` is the chain without its head while a call is under way. `Enqueue`,
`Start` and the two settlements map to `Ask`, `Begin` and `Settle`, the loss of the
iframe to `Lose`, and what happens on the wire to stutters. A start that finds the iframe
gone is a `Begin` that fails at once. Steps of the mux socket stutter.

For `DshSocket`, `life` is `readyState` and `told` counts the events the adapter has
dispatched: nothing is masked, so that the contract has to name what the adapter does and
a native socket does not. There are two such liberties, each an action of its own: a socket
that never opened may be closed twice (`FailTwice`, `EndAgain`), and close() of a closed
one takes `readyState` from 3 to 2 (`LeaveAgain`). `SocketInv` adds three parts to the types. `AdapterInv`: what the fields say of each
other, above all that a socket that has opened and ended has nothing posted any more.
`PostedInv`: before the acknowledgement nothing but errors is posted, every message of a
socket that has not opened has the acknowledgement before it, and the close is the last
task. `MessageInv`: the messages that dsh has heard and those that are posted make up all
that were sent, in their order. So the first task of a socket that is open is the message
dsh waits for, an error or the close, and each task maps to `Deliver`, `Fault`, a stutter
or one of the ends. A close by dsh maps to `Leave`, to `LeaveAgain` after an end, or to
`Fail` when there is no socket yet.

**View.** Each property has a part of `ViewInv` of its own. `SpinnerInv`: a flag that is up belongs to something under way. `RequestInv`:
inspections have numbers of their own, what has not been answered has not been verified,
and a verification that is due is the first one of its result or one for a return from
a local tool. `VerdictInv` and `ReportInv`: unless two of a kind overlapped, what is under
way is of the result on display, or of the target inspected last; and with nothing under
way the verdict is of that result, or there is a reason for none. `FreshInv`: a hash
under way is that of the report on display, unless a new one is due. The effects that are
due are part of the state here: most parts hold between a change and its effect only
because the effect is known to be due.

**Leg.** `LegInv` adds three parts. `Progress`: where the handler is, above all that it
keeps nothing back without a scanner, and that it returns on an error that stands after
all the body could yield. `WholeLines`: what the scanner has returned are whole lines, but
for a part of one at the end of a body that failed; so a block whose last piece has been
served has been scanned as a line. `AuditInv`: the scanner has met the first block as soon
as it has returned its line, and has written a line if that block was readable.
`Lines > 0` is assumed (`LinesAssumption`): a response without lines has no place for a
block.

**Boot.** `TicksCounted`: until dsh starts, each tick is one of the probe loop or one of
the smoke, and the smoke has none before the loop is over. `PortOpensInTime` is inductive
with the types: time does not pass while `main` could go on and does not.

**Shell.** `SignOutInv`: a sign-out belongs to a booted page, on which no sign-in goes
on and none can be started; once the provider has heard it nothing makes it remember a
session; and a page that was loaded on its answer finds none, so that its connect is at
`getSession` or over until a ceremony begins. Each part is needed to exclude that a
ceremony ends between the answer and the reload.

A mint that is refused was asked of an iframe that answers or was removed, or finds no
session, or the step is the provider's time-out: one look at each action that settles a
mint.

**Patch queue.** What keeps a half-patched tree from being patched twice is the order of
the queue, and `QueueAssumption` says what that order has to be: before every replacement
that would find its anchor again there are `Guards`, which consume theirs, and enough of
them that one is left when the pin has the anchor of another two times. TLC evaluates the
assumption on the queue of the script; it fails for a queue with one of the five of
276-282 and 316-370 in front. `CountInv` balances what stands in the tree
against the pin, `PassedInv` says that what a run has passed has been made, `AheadInv` that
a run on a fresh tree has nothing made before it (`FileKeeps` has what a missing file
leaves alone), and `GuardInv` that a guard is gone once
a keeping replacement has been made, so that a run that gets past it is one over a tree
without any. `QueueSpec` starts from any pin that leaves a guard, `Repin` from some of
these. `PresetsOfAnImageMount` has a hypothesis on the text of the queue, that the three
presets' swaps are labels in it, which string concatenation puts out of the prover's
reach; the run checks the property of the queue itself, where it is so.

**Generator.** The tool reads once and decides late: a comment waits in `pending` until the
next line says whose it is. `SplitInv` says, of the lines read so far, that each block is one
row with all that belongs to it by then (`LinesOf`), that each row is a block, and that
what waits is the run of notes at the end. `OrderInv` orders the lines within a block,
between blocks, and before what waits; `JoinInv` says that what has been joined is what
the admitted blocks before `next` hold. `LinesAtRow`, `LinesAtNote` and `LinesAtOther` are
what a line of each kind adds to the rows before it. At the end of the base `LinesOf` is
`Belongs`, which knows nothing of blocks. That the base is a list (`WellFormed`) is needed
once: before the first row stand only notes.

**Assumptions**, each named in the module that declares the constants and evaluated by
TLC in every run: `PolicyAssumption` (sets are functions on app ids; the empty set is
one of them), `PoolAssumption`, `SubjectAssumption` (the "none" values are none of the
others), `ShimAssumption` (the precision is a multiple of 4, as powers of two are),
`MuxAssumption`, `ViewAssumption` (no tool of the fleet is the "none" value), `LoadsAssumption`,
`LinesAssumption`, `BootAssumption`, `QueueAssumption`, `RepinAssumption` (the ids are
finitely many); `BundleAssumption` is used by no proof.

**Only model-checked**: every liveness property (`ConvergesToManager`, `ListensAtLast`,
`WaitersAnswered`, `SettlesOnLastUser`, `EveryCallSettles`, `LossIsHeard`, `CloseIsTold`,
`LinesFlow`, `LegEnds`, `StartingEnds`, `SignOutEnds`), since liveness under fairness and
`ENABLED` are beyond the proof system; and the three violations.

## 6. What the code does and its comments do not say

Three disagreements are shown by runs:

1. **A revoked build goes on serving** (`transport_revoked_serves`).
   `CloseIdleConnections` closes what is idle; `net/http` remembers to close later
   ones only until some request asks for a connection. A connection that was dialling
   or busy when the set changed goes back to the pool and is used for ever when
   requests keep coming within its 90 s. It takes a second request: with one alone the
   flag still stands when the connection is put back. `transport.go:41-43` promises
   that a revoked build "cannot keep serving over a stale verified channel".
2. **Green without a verdict** (`view_failed_refresh`). `inspect` clears the verdict
   and keeps the result; when the fetch fails, the result is the same object and no
   effect verifies it again, and the roll-up takes a missing verdict for no objection.
   `PrivasysAttestation.tsx:13-14` says "green ONLY when verified".
3. **A torn summary** (`summary_torn`). `main.go:319-321` reads the flag, the fold and
   the entries under three locks; a set that is installed between two of them gives the
   browser the fold of one set over the entries of another. `main.go:307-309`: "the live
   attested dependency set the agent loop is fenced to".

Others were met while modelling. They are behaviours of the models, excused by name
in the properties or noted with a hazard, and have no run of their own:

- The first load is not a change (`depset.go:197`): connections admitted before it,
  when the initial load failed and the gate was off, stay. `README.md:27-28` of the
  repository speaks of a fail-closed gate; `VerifyPeer` (`depset.go:255`) admits every
  attested peer while no set is in force.
- `VerifyPeer` reads `Enabled` and the set under two locks. The refinement shows this
  to be harmless.
- `t.pool` and `OnChange` are written and read without a common lock (`main.go:180`,
  `transport.go:98`). `HookOrder` shows what that can and cannot do.
- A change of subject can go unlogged: two handlers that load before either stores
  (`subject.go:31`), against "a change of subject is logged loudly" (`subject.go:20-21`).
- The port comes late: `deps.Start` (`main.go:174`) loads the dependency set before the
  front is started (233), and waits up to 10 s for the manager. `main.go:224-226` says
  "the Go proxy owns $PORT from second one"; `PortOpensInTime` has the 10 s.
- A socket that never opened tells dsh of its end twice: the SDK rejects `ready` and runs
  the close callbacks, and the adapter dispatches `close` from both
  (`privasys-shell.js:356-360`, 365-370), or from dsh's own close() and then from the
  callback. `privasys-shell.js:269-272` speaks of "the native WebSocket API dsh's mux
  client expects"; `FailTwice` and `EndAgain` of the contract are this difference.
- A reproducibility block may reach dsh without an audit line: only event streams are given
  to the scanner (`main.go:138`), and of a block that does not unmarshal nothing is written
  (`repro.go:48-50`) while the scanner takes it as logged and looks no further (128-129).
  `repro.go:22-24` says "every model call's seed, model, and dependency fold";
  `AuditedWithFrame` says which blocks have a line.
- close() of a socket that has ended sets `readyState` from 3 to 2, where it stays
  (`privasys-shell.js:378`): `LeaveAgain` of the contract.
- A report without a quote, or whose quote has no bytes, is never verified
  (`use-attestation.ts:222`) and counts as good (`composite-attestation-view.tsx:288-290`):
  the badge is green. `GreenUnlessExcused` names it.
- The audit line has no dependency fold: `logRepro` decodes it (`repro.go:43`) and does not
  log it (59-60), against `repro.go:22-24`.
- When the installation of the transport throws, dsh boots all the same, without the
  sealed transport (`privasys-shell.js:242-246`); when dsh's boot throws, or its script did
  not load, the page stays blank (248-256). All of it is only logged. The comment at
  239-241 speaks of the gate alone, and that much holds (`WayForward`).
- `clearSession` of the SDK never rejects, it resolves also when its limit has passed, so
  that the catch of `logout` (405-407) is not exercised; the reload does not depend on it.
- A socket that is open when the SDK's iframe goes is never told (`AuthFrame.destroy`
  closes no sealed socket): `CloseIsTold` excepts it. Calls that are under way, that wait
  or that come later all fail (`LossIsHeard`). The shell itself never removes an iframe
  in use; it is written for the case (`privasys-shell.js:344-353`).
- "One mint per page load" (`PrivasysAttestation.tsx:48`): the row and the tab have a
  promise each (`PrivasysAttestationTab.tsx:40`), so that a page mints twice.
- A local tool between two tools of the fleet switches the automatic verification off and
  on: the result that is still there is verified again (`PrivasysAttestationTab.tsx:101`).
- `src.replace` patches one place (`apply-overlay.mjs:49`); a pin that repeats an anchor
  keeps the other. Nothing but the order of the queue keeps the five replacements that
  contain their own anchor (276-282, 316-370) from being made twice on a tree that a
  failed run left; in the image build the tree is always fresh.
- Lines that follow the insert list go with its last row (`gen-bundle.mjs:41-43`), and
  with it out of the bundle.
- The image build greps for seven of the eleven dropped ids (`Dockerfile:82-83`) and so
  cannot notice `web`, `tool-web`, `tool-pwsh` or `pwsh-sandbox` in the composed tree,
  although the comment above it speaks of any row the bundle excludes. A put replaces a
  whole file whatever upstream has made of it (`apply-overlay.mjs:78-82`). Neither has a
  condition in the code that a property could be about.
- A rejected mint is remembered for the life of the page (`PrivasysAttestation.tsx:57`),
  and an answer of a tool is cut at 8 MiB without an error (`mcpshim.go:243`).
- A verdict or a report of an earlier request may replace a later one
  (`use-attestation.ts:166`, 130): the excuse "overlapped".
- A stream that breaks off upstream ends cleanly for the caller when it has no length
  (`main.go:157`).
- `repro.go:65-67` says that lines longer than the scanner's buffer pass unscanned;
  `ReadBytes` has no such limit and scans them.
- dsh waits for the boot smoke (`entrypoint.sh:80-84`), up to `timeout 240`.

## 7. Abstractions

- A dependency set is a partial function and its fold is its identity. Duplicate
  entries have no place because only the first entry of an app id decides.
- A quote is genuine or not; measured identity and OIDs are which build it is.
- The pool: retries of `net/http` are a break and a new request; the total of 16 idle
  connections and the 90 s are "an idle connection may close at any time".
- A task of the browser runs to its end with its microtasks; React's effects run
  before the next render.
- Rounding to float64 is `ThroughFloat`, to the nearest representable integer with
  ties to even, with a small precision.
- Of a file in dsh's tree only its anchors are kept: how often each stands there, and how
  often its replacement does. A replacement that contains its anchor leaves it standing
  (`KeepsAnchor`, read off the literals). Replacements of one file are taken to touch
  different places, as they do; the three edits of a preset's file are three entries.
- A line of the base is the start of a row, a note, body or a top line; the first one that
  is no note starts a row.
- A file that the pin does not have is an edit that cannot be read (`gone`); whoever moves
  the pin points the edit at where the file went.
- A response is lines of two pieces, each a block, or not; the numbers of a line that
  dsh would refuse are at most two.
- Answers of tools are sizes and flags; names, schemas and texts are left out.
- Counters that the code does not bound (`MaxInspects`, `MaxReturns`, `MaxMessages`,
  `MaxErrors`, `MaxLines`, `MaxLoads`, `Lines`, `Horizon`) are bounded in the guards of the actions that raise
  them and declared as bounds in their modules.
- Variables marked "history" in their declaration exist for the properties. No guard
  reads them, but for `left` and `begun`, which also bound how often dsh closes a socket
  and how many inspections a run makes.

Not modelled: the headers the front strips and the host it pins (functions of one
request); the report's presentation and styles, which keep no state but a copied flag;
composition data; of the vendored SDK, the ceremony in its iframe and its cryptography; tests against a deployment and the
build pipeline. `newChallenge`, `setChallenge` and `reset` of the hook are called only by
a view the harness does not mount.

## 8. Order of work

The gate and the pool came first (`DependencyPolicy`, `DependencySet`,
`AttestedTransport`, `VettedChannels`), then what reads the set (`AttestationSummary`),
what names a user (`ActingSubject`, `McpShim`), the sealed transport (`SealedFetch`,
`MuxSocket`), the view, the legs, the boot and the shell; then the contracts
(`OrderedCalls`, `DshSocket`) with the loss of the iframe (`SealedSession`), the build
tools (`Repin`), and the proofs of section 5 beyond the gate's.

What would add most from here: the manager's 10 s and the refresher composed with `Boot`,
in place of its `LoadEnds`.
