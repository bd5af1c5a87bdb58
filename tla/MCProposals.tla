----------------------------- MODULE MCProposals -----------------------------
(***************************************************************************)
(* Instances of Proposals for TLC.  Scores are chosen so that every band   *)
(* of the thresholds is inhabited: a link absorption takes, a rescue only  *)
(* the AI reviewer sees, a rescue below the AI's floor.                    *)
(***************************************************************************)
EXTENDS Proposals

CONSTANTS a, b, c, p, q, e

Row(t, s, d) == [type |-> t, source |-> s, target |-> d]

LinkAB    == Row("link", a, b)
RescueAB  == Row("orphan_rescue", a, b)
RescueBA  == Row("orphan_rescue", b, a)
ArchiveA  == Row("orphan_rescue", a, a)
DedupAB   == Row("dedup", a, b)

\* Percent, by key.
Score(k, link) ==
  IF k.type = "link" THEN link ELSE IF IsArchive(k) THEN 90
  ELSE IF k = RescueBA THEN 55 ELSE IF k.type = "dedup" THEN 97 ELSE 80

Rank(o) == IF o = a THEN 1 ELSE IF o = b THEN 2 ELSE 3

NightKeys     == {LinkAB, RescueAB, RescueBA, ArchiveA}
ReviewKeys    == {LinkAB, ArchiveA, DedupAB}

CreatedRank == [o \in Obs |-> Rank(o)]
Scores      == [k \in Keys |-> Score(k, 80)]
Confidences == [k \in Keys |-> Score(k, 93)]
=============================================================================
