--------------------------- MODULE MCSourceHealth ---------------------------
(* Instances of SourceHealth for TLC. *)
EXTENDS SourceHealth, TLC

\* health never leaves 0..100, so that its clamps are idle: a valid feed scores at least
\* 20 and a stale one at most 50, whatever its age, its items and its latency.
ASSUME ScoreInRange ==
    \A days \in {-1} \cup 0..200, items \in 1..21, ms \in {0, 999, 1000, 2999, 3000, 7999, 8000, 60000} :
        LET f == [ok |-> TRUE, items |-> items, days |-> days, ms |-> ms]
        IN IF Verdict(f) = "VALID" THEN Score(f) \in 20..100 ELSE Score(f) \in 0..50

MCHostOf == [s \in Sources |-> IF s = "direct" THEN "open" ELSE "news"]
MCSpacing == [open |-> 0, news |-> 1]
MCProcOf == [w \in Workers |-> CHOOSE p \in Procs : TRUE]
MCFeeds == { [ok |-> TRUE, items |-> 2, days |-> 120, ms |-> 9000],
             [ok |-> TRUE, items |-> 3, days |-> 121, ms |-> 3000] }
MCSymmetry == Permutations(Operators)

\* One call, failed statement or lost worker with both sources; up to MaxEvents with one source
\* of the default priority.
MCBounds ==
    \/ calls + mishaps <= 1
    \/ Registered \subseteq {"a"} /\ row["b"] = Fresh /\ row["a"].priority = Default
=============================================================================
