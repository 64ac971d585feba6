------------------------------- MODULE Engagement -------------------------------
(***************************************************************************)
(* get_engagement_tier of domain/activity.py, as StatsService.user_stats   *)
(* calls it: the score of the member comes from one read and the scores of *)
(* the guild from a later one, so that it need not be among them.          *)
(* scores is a function from the members that were listed to numbers.      *)
(***************************************************************************)
EXTENDS Integers, FiniteSets

StrictlyHigher(score, scores) == {m \in DOMAIN scores : scores[m] > score}

(* The percentile rank (strictly higher + 1) / N is at most percent. *)
WithinTop(percent, score, scores) ==
    /\ scores # [m \in {} |-> 0]
    /\ (Cardinality(StrictlyHigher(score, scores)) + 1) * 100
         <= percent * Cardinality(DOMAIN scores)

(* 4 for Elite, 3 for High, 2 for Medium, 1 for Low *)
Tier(score, scores) ==
    CASE WithinTop(5, score, scores) -> 4
      [] ~WithinTop(5, score, scores) /\ WithinTop(30, score, scores) -> 3
      [] ~WithinTop(30, score, scores) /\ WithinTop(70, score, scores) -> 2
      [] OTHER -> 1
=============================================================================
