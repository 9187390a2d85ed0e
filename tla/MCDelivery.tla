----------------------------- MODULE MCDelivery -----------------------------
(* Instances of Delivery for TLC. *)
EXTENDS Delivery, TLC

MCQueues == {"match", "send"}
MCNextQueue == [match |-> "send", send |-> "match"]
MCRetryLimit == [match |-> 0, send |-> 1]
MCRetryDelay == [match |-> 0, send |-> 1]
MCRetryBackoff == [match |-> FALSE, send |-> TRUE]
MCWebhook == [d \in Subs |-> "WEBHOOK"]
MCThree == [hook |-> "WEBHOOK", push |-> "WEBHOOK", poll |-> "PULL"]
MCSymmetry == Permutations(Workers)

\* What is met together: two mishaps or calls of any kind; two matches and a lost worker only with
\* the one webhook that can be posted to, and without its test; the other subscriptions, alone or
\* the poller beside that webhook, with one match and no lost worker.
Matched == {d \in Subs : status[d] # "none"} \cup UNION {left[w] : w \in Workers}
Matches == Cardinality({j \in Jobs : Exists(j) /\ queue[j] = "match"})
MCBounds ==
    /\ faults + losses + calls + pokes <= 2
    /\ \/ Matched \subseteq {"push"} /\ \A d \in Subs : event[d] = "signal"
       \/ /\ Matches <= 1 /\ losses = 0
          /\ Matched \subseteq {"hook"} \/ Matched \subseteq {"push", "poll"}
=============================================================================
