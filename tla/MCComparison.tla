---------------------------- MODULE MCComparison ----------------------------
(***************************************************************************)
(* Comparison for a run whose names meet in one key: scenario review with  *)
(* model lib/opus, and review/lib with opus. The other two keys have one   *)
(* trial each.                                                             *)
(***************************************************************************)
EXTENDS Comparison

CONSTANTS review, lib, opus

MCScenarios == <<<<review>>, <<review, lib>>>>
MCModels == <<<<lib, opus>>, <<opus>>>>

\* review/lib/lib/opus, review/lib/opus (two trials), review/opus: in the run.
Deep == <<review, lib, lib, opus>>
Met == <<review, lib, opus>>
Plain == <<review, opus>>
Gone == <<review, lib>>

MCKeyOrder == <<Gone, Deep, Met, Plain>>

MCValueOf == [t \in Trials |-> 2 * t[1] + 5 * (t[2] - 1)]

Side(scenario, version, trials, samples) ==
    [scenario |-> scenario, version |-> version, trials |-> trials, samples |-> samples]

\* One key with the samples that tell the statistics apart.
OneKey ==
    {Met :> Side(<<review>>, 1, Len(s) + 1, s) :
        s \in {<<>>, <<0>>, <<2, 9>>, <<0, 0, 7>>, <<1, 1, 2, 30>>, <<0, 1, 1, 8, 30>>}}

\* Several keys, one of which the run has not; in the second summary two models
\* of one scenario have the same other version.
SeveralKeys ==
    {Gone :> Side(<<review>>, 1, 2, <<3>>) @@ Plain :> Side(<<review>>, 2, 1, <<7>>),
     Gone :> Side(<<review>>, 2, 3, <<1, 2>>) @@ Deep :> Side(<<review, lib>>, 1, 2, <<4, 4>>)
         @@ Met :> Side(<<review>>, 2, 2, <<2>>) @@ Plain :> Side(<<review>>, 2, 3, <<5>>)}

MCBaselines == OneKey \cup SeveralKeys
=============================================================================
