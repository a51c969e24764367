----------------------------- MODULE MCValidate -----------------------------
(***************************************************************************)
(* Queries for model checking Validate: results below, at and beyond the   *)
(* cap, plans of every kind the gates tell apart, among them one whose     *)
(* initial plan is more native than what ran and one with a subquery.      *)
(***************************************************************************)
EXTENDS Validate

Ran(nodes) == Lines(RanLine, nodes)

NestedPlan ==
    AdaptiveText(Ran(<<"native">>) \o AdaptiveText(Ran(<<"native">>), <<"jvm">>)
                     \o Ran(<<"crossing", "crossing", "crossing">>), <<"jvm">>)

MCPlans ==
    {AdaptiveText(Ran(<<"crossing", "native", "native">>), <<"jvm", "jvm">>),
     AdaptiveText(Ran(<<"crossing", "native", "crossing">>), <<"native", "native">>),
     AdaptiveText(Ran(<<"jvm">>), <<"native">>),
     Ran(<<"jvm">>), NestedPlan}

AllQueries ==
    [rows : 0..(Cap + 2), orderable : BOOLEAN, tied : BOOLEAN, plan : MCPlans,
     differs : {"nowhere", "prefix", "tail", "count"}, drifts : BOOLEAN,
     speed : {"faster", "slower", "unknown"}, appends : {0, 1}]

(* A result differs in a prefix row or a tail row only if it has one, and  *)
(* has a prefix, tied or not, only if it can be ordered.                   *)
MCQueries ==
    {q \in AllQueries : /\ q.tied => q.orderable
                        /\ q.differs = "prefix" => q.rows >= 1
                        /\ q.differs = "tail" => q.rows >= 2}
=============================================================================
