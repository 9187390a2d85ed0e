----------------------------- MODULE MCJobQueue -----------------------------
(* Instances of JobQueue for TLC.  "fetch" is source.fetch (no retries, sent  *)
(* with a singleton key), "send" is delivery.send (retries with back-off).   *)
EXTENDS JobQueue, TLC

MCNextQueue == [fetch |-> "send", send |-> "fetch"]
MCRetryLimit == [fetch |-> 0, send |-> 2]
MCRetryDelay == [fetch |-> 0, send |-> 1]
MCRetryBackoff == [fetch |-> FALSE, send |-> TRUE]
MCSymmetry == Permutations(Workers)
=============================================================================
