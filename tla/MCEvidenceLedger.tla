-------------------------- MODULE MCEvidenceLedger --------------------------
(* Two hard goals and a soft one.  A script of the issue aims at the first, *)
(* a public check at the second, the facet of the script at the soft one;   *)
(* a probe may aim at either hard goal.  Taken for a public check, the      *)
(* facet aims at the second goal, the clean snapshot may fail or pass it,   *)
(* and a return value may contradict it.                                    *)
EXTENDS EvidenceLedger

CONSTANTS g1, g2, s1, none, p0, t1

Check(id, kind, goal) ==
  [id |-> id, kind |-> kind, name |-> id, goal |-> goal, trusted |-> TRUE, command |-> id]

Script == Check("script", "witness", g1)
Facet == Check("facet", "facet", s1)
FacetAgain == Check("facet", "rebuilt", g2)
Public == Check("public", "public", g2)
Probe(name, goal) == Check(name, "probe", goal)
Challenge == Check("challenge", "challenge", none)

MCHardGoals == {g1, g2}
MCIssueWitnesses == <<Script>>
MCPublicCandidates == <<Public>>
MCContractRecords == <<>>
MCFacets == [n \in {"script"} |-> <<Facet>>]
MCProbeNames == <<"probe1", "probe2", "probe3">>
MCAgentChecks == {Probe(n, g) : n \in {MCProbeNames[i] : i \in 1 .. MaxProbes}, g \in MCHardGoals}
MCRebuiltChecks == {FacetAgain}
MCRebuilt == [c \in AllChecks |-> IF c = Facet THEN FacetAgain ELSE c]
MCChallenges == {Challenge}
MCOwner == [c \in MCChallenges |-> p0]
MCMutable == {c \in AllChecks : c.kind = "rebuilt"}
MCDirect == AllChecks \ MCMutable
MCShows ==
  [c \in AllChecks |->
     IF c = Facet THEN {"PASS"}
     ELSE IF c = Script THEN {"FAIL", "ELSEWHERE"}
     ELSE IF c = FacetAgain THEN {"FAIL", "PASS"}
     ELSE IF c = Public THEN {"FAIL"}
     ELSE IF c.goal = g1 THEN {"FAIL"} ELSE {"UNSTABLE"}]
MCMayBe == [id \in Ids |-> IF id \in {"facet", "challenge"} THEN {"PASS", "FAIL"} ELSE {"PASS"}]
=============================================================================
