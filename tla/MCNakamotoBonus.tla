-------------------------- MODULE MCNakamotoBonus --------------------------
(***************************************************************************)
(* Two identifiers whose epochs are 2 and 3 long; parameters that follow   *)
(* either of them, one set of which has the bonus disabled.                *)
(***************************************************************************)
EXTENDS NakamotoBonus

MCDuration == "day" :> 2 @@ "week" :> 3
MCStartTimes == {-1, 0, 2}
Weekly == [CommunityTax |-> 1, Enabled |-> TRUE, Step |-> 4, PeriodEpochIdentifier |-> "week",
           MinimumCoefficient |-> 2, MaximumCoefficient |-> 10]
Daily == [Weekly EXCEPT !.CommunityTax = 0, !.Step = 3, !.PeriodEpochIdentifier = "day",
                        !.MaximumCoefficient = 6]
Off == [Daily EXCEPT !.Enabled = FALSE]
MCParamSets == {Weekly, Daily, Off}
\* Concentrated by exactly 3; spread; too few; a low third without stake.
MCStakes == {<<1, 2, 3>>, <<5, 2, 4>>, <<1, 9>>, <<0, 1, 1, 2, 3, 0>>}
=============================================================================
