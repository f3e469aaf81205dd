---------------------------- MODULE GuardExclusions ----------------------------
(***************************************************************************)
(* The networks that the replacement guard lets pass                        *)
(* (usque-agent/src/journal/replacement.rs: intersect_exclusions), for one  *)
(* address family with addresses of Width bits.  A network is its prefix,   *)
(* the leading bits that its addresses share, with no host bits set: as the *)
(* Engine sends it (usque-core/src/config/mod.rs:754).                      *)
(***************************************************************************)
EXTENDS Naturals, FiniteSets

CONSTANT Width  \* bits of an address

Addresses == [1 .. Width -> {0, 1}]

\* A prefix of at least one bit; the all-covering network is refused.
Networks == UNION {[1 .. n -> {0, 1}] : n \in 1 .. Width}

\* The comparison of lengths, and IpNet::contains of the address.
contains_network(outer, inner) ==
    DOMAIN outer \subseteq DOMAIN inner /\ \A i \in DOMAIN outer : inner[i] = outer[i]

\* Mutant: only the networks of the next plan are kept.
OneDirection(current, next) ==
    {p[2] : p \in {q \in current \X next : contains_network(q[1], q[2])}}

\* Of two networks, one of which contains the other, the smaller.
Common(current, next) ==
    {n \in next : \E o \in current : contains_network(o, n)}
    \cup {n \in current : \E o \in next : contains_network(o, n)}

intersect_exclusions(current, next) ==
    LET all == Common(current, next)
    IN  {n \in all : ~\E o \in all : o # n /\ contains_network(o, n)}

\* The reference: the addresses that networks let pass.
Cover(networks) == {a \in Addresses : \E n \in networks : contains_network(n, a)}
=============================================================================
