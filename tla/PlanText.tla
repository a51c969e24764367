------------------------------ MODULE PlanText ------------------------------
(***************************************************************************)
(* What diagnostics.py reads from the text of an executed plan.            *)
(*                                                                         *)
(* A line of the text is the kind of node it names and whether that node   *)
(* ran: an adaptive plan prints the plan that ran and then, under a        *)
(* marker, the initial plan, which did not.                                *)
(***************************************************************************)
EXTENDS Integers, Sequences, SequencesExt, FiniteSets

(* "native" is a Velox operator and "iterator" the InputIteratorTransformer*)
(* that feeds one, "crossing" a conversion between columns and rows,       *)
(* "jvm" an operator of Spark, "wrapper" plan-tree furniture.              *)
Nodes == {"native", "iterator", "crossing", "jvm", "wrapper"}
Marker == "initial"
LineType == [node : Nodes \cup {Marker}, ran : BOOLEAN]

(* Texts of executed plans: what did not run comes under a marker.         *)
PlanTexts ==
    {text \in Seq(LineType) :
        \A i \in DOMAIN text : ~text[i].ran => \E j \in 1..i : text[j].node = Marker}

OffloadedNodes == {"native", "iterator"}
BoundaryNodes == {"crossing"}

RanLine(node) == [node |-> node, ran |-> TRUE]
OtherLine(node) == [node |-> node, ran |-> FALSE]

Lines(Line(_), nodes) == [i \in DOMAIN nodes |-> Line(nodes[i])]

(* AdaptiveSparkPlan.toString() of a finished execution.                   *)
AdaptiveText(ran, initial) ==
    <<RanLine("wrapper")>> \o ran \o <<OtherLine(Marker)>> \o Lines(OtherLine, initial)

(* Fault: the initial plan is counted along.                               *)
WholeText(text) == text

(* _final_plan_section: the text before the first marker.                  *)
FinalPlanSection(text) ==
    IF \E i \in DOMAIN text : text[i].node = Marker
    THEN SubSeq(text, 1, SelectInSeq(text, LAMBDA line : line.node = Marker) - 1)
    ELSE text

CountIn(text, nodes) == Cardinality({i \in DOMAIN text : text[i].node \in nodes})

(* plan_stats.                                                             *)
OffloadedIn(text) == CountIn(FinalPlanSection(text), OffloadedNodes)
BoundariesIn(text) == CountIn(FinalPlanSection(text), BoundaryNodes)

----------------------------------------------------------------------------
(* The reference: what ran, by the nodes that ran.                         *)
RanIn(text, nodes) ==
    Cardinality({i \in DOMAIN text : text[i].ran /\ text[i].node \in nodes})

(* An adaptive plan inside the plan, a subquery's, prints an initial plan  *)
(* of its own in the middle of what ran.                                   *)
HasNestedPlan(text) ==
    \E i, j \in DOMAIN text : i < j /\ text[i].node = Marker /\ text[j].ran
=============================================================================
