---------------------------- MODULE MCReplacement ----------------------------
(* Plans for AgentReplacement: overlaps in both directions, in one place,   *)
(* and a network that only one plan leaves out.                             *)
EXTENDS AgentReplacement, TLC

MCExclusions ==
    "o1" :> {<<0>>, <<1, 0>>}
    @@ "o2" :> {<<0, 0>>, <<1>>}
    @@ "o3" :> {<<0>>, <<1, 1>>}
=============================================================================
