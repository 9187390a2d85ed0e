------------------------------ MODULE MCDigest ------------------------------
(* Instances of Digest for TLC; the checks of the profiles and signals it mails come along. *)
EXTENDS Digest, MCEnrichment

\* Bound: schedulers fail where every signal is matched at most once.
MCMishaps == crashes = 0 \/ \A g \in Signals : matches[g] <= 1

=============================================================================
