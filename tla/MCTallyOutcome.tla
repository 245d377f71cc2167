--------------------------- MODULE MCTallyOutcome ---------------------------
(* TallyOutcome with thresholds in tenths and counts around the boundaries. *)
EXTENDS TallyOutcome

MCQuorumRange ==
    [k \in Kinds |-> CASE k = "any" -> [min |-> 1, max |-> 8]
                       [] k = "law" -> [min |-> 2, max |-> 6]
                       [] k = "amendment" -> [min |-> 3, max |-> 9]]
MCThreshold == [k \in Kinds |-> CASE k = "any" -> 5 [] k = "law" -> 6 [] k = "amendment" -> 8]
MCInitialEMA == [k \in Kinds |-> CASE k = "any" -> 10 [] k = "law" -> 0 [] k = "amendment" -> 5]

\* Powers from nothing to all of three tokens, with one unit lost or gained by
\* rounding.
Powers == {0, 1, 12, 16, 30}
MCCounts ==
    {t \in [yes : Powers, abstain : Powers, no : Powers, total : 0 .. 31, bonded : {3}] :
        /\ t.total - (t.yes + t.abstain + t.no) \in -1 .. 1
        /\ t.total >= t.abstain /\ t.total >= t.yes /\ t.total >= t.no}
    \cup {[yes |-> 0, abstain |-> 0, no |-> 0, total |-> 0, bonded |-> 0]}
=============================================================================
