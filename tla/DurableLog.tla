----------------------------- MODULE DurableLog -----------------------------
(* What the streaming guide promises a subscriber of the feed: a log with a   *)
(* monotonic cursor.  A reader joins somewhere and from then on sees the      *)
(* entries in order, once: it resumes where it left off.  It may miss an      *)
(* entry only if that was withdrawn (a test event took its row) or is late:   *)
(* it came after an entry that goes behind it.                                *)
EXTENDS Naturals

CONSTANTS Readers

VARIABLES
    log,     \* the cursors of the entries appended so far
    late,    \* those that came after an entry with a larger cursor
    withdrawn, \* those a later entry has taken the place of
    joined,  \* per reader: the cursor it joined at
    seen,    \* per reader: the cursors of the entries it has seen
    pos      \* per reader: the last of them, or `joined'

logVars == <<log, late, withdrawn, joined, seen, pos>>

LogInit ==
    /\ log = {} /\ late = {} /\ withdrawn = {}
    /\ joined = [r \in Readers |-> 0]
    /\ seen = [r \in Readers |-> {}]
    /\ pos = [r \in Readers |-> 0]

\* An entry may come late, and may take the place of another one.
AppendEntry ==
    /\ \E s \in log' :
        /\ log' = log \cup {s}
        /\ late' = IF \A t \in log : t < s THEN late ELSE late \cup {s}
    /\ withdrawn' = withdrawn \/ \E t \in log : withdrawn' = withdrawn \cup {t}
    /\ UNCHANGED <<joined, seen, pos>>

\* A reader that has seen nothing yet chooses where to start.
Join(r) ==
    /\ seen[r] = {}
    /\ joined' = [joined EXCEPT ![r] = pos'[r]]
    /\ pos' = [pos EXCEPT ![r] = pos'[r]]
    /\ UNCHANGED <<log, late, withdrawn, seen>>

ReadNext(r) ==
    /\ \E s \in log :
        /\ s > pos[r]
        /\ ~ \E t \in log \ (withdrawn \cup late) : pos[r] < t /\ t < s
        /\ seen' = [seen EXCEPT ![r] = @ \cup {s}]
        /\ pos' = [pos EXCEPT ![r] = s]
    /\ UNCHANGED <<log, late, withdrawn, joined>>

LogNext == AppendEntry \/ \E r \in Readers : Join(r) \/ ReadNext(r)

LogSpec == LogInit /\ [][LogNext]_logVars
=============================================================================
