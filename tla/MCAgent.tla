------------------------------- MODULE MCAgent -------------------------------
EXTENDS AgentSafety

CONSTANTS e1, e2, e3, o1, o2, alice, bob

\* e1 and e2 are two Engine processes of one user, e3 belongs to another.
MCAccount == [e \in Engines |-> IF e = e3 THEN bob ELSE alice]

Plan(ks, chain, defer, policy) ==
    [kill_switch |-> ks, vpn_chain |-> chain, defer |-> defer,
     endpoint_policy |-> policy]
PlainPlan == {Plan(FALSE, FALSE, FALSE, FALSE)}
\* With the kill switch: a tunnel and a chain.  Without: a tunnel that may
\* become a chain while it is up, and a chain that is prepared in two stages
\* and that a system proxy joins once it is finalized.
TunnelPlans == {Plan(TRUE, FALSE, FALSE, TRUE), Plan(TRUE, TRUE, FALSE, FALSE),
                Plan(FALSE, TRUE, TRUE, FALSE)} \cup PlainPlan
FinalizedChain == {Plan(FALSE, TRUE, FALSE, FALSE)}
=============================================================================
