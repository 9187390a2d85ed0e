------------------------------ MODULE ItemFlow ------------------------------
(***************************************************************************)
(* What the ingestion pipeline promises about one feed item, without jobs, *)
(* workers or tables: an item that is stored is either dropped, because    *)
(* another with the same content was not, or it joins one signal for good, *)
(* and then a match of that signal is asked for that knows of the item.    *)
(* A mishap may lose an item that others are dropped for, but no more than *)
(* one.                                                                    *)
(***************************************************************************)
EXTENDS Naturals, FiniteSets

CONSTANTS Item, Group, Same(_, _),
          Mishaps    \* bound: workers lost and statements failed

VARIABLES stage, group

flow == <<stage, group>>

NoGroup == 0
Kept == {"stored", "grouped", "announced", "lost"}
Lost == {i \in Item : stage[i] = "lost"}

FlowInit ==
    /\ stage = [i \in Item |-> "absent"]
    /\ group = [i \in Item |-> NoGroup]

Store(i) ==
    /\ stage[i] = "absent"
    /\ stage' = [stage EXCEPT ![i] = "stored"]
    /\ UNCHANGED group

Drop(i) ==
    /\ stage[i] = "stored"
    /\ \E j \in Item \ {i} : Same(i, j) /\ stage[j] \in Kept
    /\ stage' = [stage EXCEPT ![i] = "dropped"]
    /\ UNCHANGED group

Lose(i) ==
    /\ stage[i] = "stored"
    /\ Cardinality(Lost) < Mishaps
    /\ stage' = [stage EXCEPT ![i] = "lost"]
    /\ UNCHANGED group

Join(i, g) ==
    /\ stage[i] = "stored"
    /\ stage' = [stage EXCEPT ![i] = "grouped"]
    /\ group' = [group EXCEPT ![i] = g]

\* One match announces the items of a signal its enrichment has seen.
Announce(g) ==
    /\ \E S \in SUBSET {i \in Item : group[i] = g /\ stage[i] = "grouped"} :
          stage' = [i \in Item |-> IF i \in S THEN "announced" ELSE stage[i]]
    /\ UNCHANGED group

FlowNext ==
    \/ \E i \in Item : Store(i) \/ Drop(i) \/ Lose(i)
    \/ \E i \in Item, g \in Group : Join(i, g)
    \/ \E g \in Group : Announce(g)

FlowSpec == FlowInit /\ [][FlowNext]_flow
=============================================================================
