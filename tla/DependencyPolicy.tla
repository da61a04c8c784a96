-------------------------- MODULE DependencyPolicy --------------------------
(***************************************************************************)
(* What a dependency set, a digest pin and a quote say of a peer, as pure  *)
(* operators: the decision that depset.go's VerifyPeer and transport.go's  *)
(* dialVerified take, apart from WHEN they read the set.                   *)
(*                                                                         *)
(* A dependency set is a partial function from app ids to the builds its   *)
(* entry admits (measured identity any-of plus required OIDs, the work of  *)
(* the external rc.MatchDependency).  Only the first entry of an app id    *)
(* ever decides in VerifyPeer's loop, so duplicates need no place here.    *)
(***************************************************************************)

CONSTANTS
    Hosts,      \* the hostnames this proxy dials: the model and the tools
    Builds,     \* what may answer at a host: one workload, in one version
    Apps,       \* app ids an entry of the set may name
    NoApp,      \* the app id of a certificate that carries none ("" in Go)
    AppOf,      \* the app id in the certificate of each build
    Genuine,    \* the builds whose quote VerifyCertificate accepts
    Sets,       \* the dependency sets an operator may sign off
    Pins        \* ExpectedDigests: for some hosts, the builds with that digest

\* A set with no entries: DepSet.Enabled is false under it.
NoDeps == [a \in {} |-> {}]

ASSUME PolicyAssumption ==
    /\ NoDeps \in Sets
    /\ \A s \in Sets : DOMAIN s \subseteq Apps \cup {NoApp}
    /\ AppOf \in [Builds -> Apps \cup {NoApp}]
    /\ Genuine \subseteq Builds
    /\ DOMAIN Pins \subseteq Hosts

\* transport.go:194, grantPinned: the caller holds a digest for this host.
GrantPinned(h) == h \in DOMAIN Pins

\* VerifyPeer's loop over a set already read: the entry of the peer's app id
\* decides; a peer that has no entry passes only on the strength of a grant.
MatchesEntry(s, h, b) ==
    IF AppOf[b] \in DOMAIN s \ {NoApp} THEN b \in s[AppOf[b]]
                                       ELSE GrantPinned(h)

\* The whole gate under one set, as if it were read once.
Admits(s, h, b) == s = NoDeps \/ MatchesEntry(s, h, b)

\* transport.go:203-217: the digest pin of the host, if it has one.
DigestOk(h, b) == GrantPinned(h) => b \in Pins[h]

=============================================================================
