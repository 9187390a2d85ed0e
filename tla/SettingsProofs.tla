--------------------------- MODULE SettingsProofs ---------------------------
(***************************************************************************)
(* Theorems about Settings, for any tables, administrators, processes and  *)
(* mails: the invariants that the run `settings' checks.                   *)
(***************************************************************************)
EXTENDS Settings, FiniteSetTheorems, TLAPS

-----------------------------------------------------------------------------
(* A mail *)

LEMMA RecipientsAreListed == Recipients \in Seq(ToSet(Recipients))
<1> DEFINE kept == {i \in 1..Len(To) :
                       To[i] # "" /\ \A j \in 1..(i - 1) : Lower(To[j]) # Lower(To[i])}
           Nth(n) == CHOOSE i \in kept : Cardinality({j \in kept : j <= i}) = n
           clean == [n \in 1..Cardinality(kept) |-> To[Nth(n)]]
<1>1. Recipients = clean
  BY DEF Recipients, CleanRecipients
<1>2. IsFiniteSet(1..Len(To))
  BY SettingsAssumption, FS_Interval
<1>3. Cardinality(kept) \in Nat
  BY <1>2, FS_Subset, FS_CardinalityType, kept \subseteq 1..Len(To)
<1> HIDE DEF kept, Nth
<1>4. PICK n \in Nat : n = Cardinality(kept)
  BY <1>3
<1>5. clean \in [1..n -> ToSet(clean)]
  BY <1>4 DEF ToSet
<1> QED
  BY <1>1, <1>4, <1>5

Everyone == ToSet(Recipients)

MailShape ==
    mail \in [at : {"idle", "dial", "auth", "rcpt", "quit", "done"}, rest : Seq(Everyone),
              taken : SUBSET Everyone, handed : SUBSET Everyone, ok : BOOLEAN]

\* Who was taken and who is left are everyone, and the mail is handed over at DATA only.
MailInv ==
    /\ MailShape
    /\ mail.at \in {"dial", "auth", "rcpt"} =>
          /\ mail.rest # <<>> \/ mail.taken # {}
          /\ mail.taken \cup ToSet(mail.rest) = Everyone /\ mail.handed = {}
    /\ mail.at = "idle" => mail = NoMail
    /\ mail.at = "quit" => mail.handed = Everyone /\ Everyone # {}
    /\ mail.at = "done" => /\ mail.handed \in {{}, Everyone}
                           /\ mail.ok => mail.handed = Everyone /\ Everyone # {}

LEMMA TakeNext ==
    ASSUME NEW S, NEW q \in Seq(S), q # <<>>
    PROVE  Head(q) \in S /\ Tail(q) \in Seq(S) /\ ToSet(q) = {Head(q)} \cup ToSet(Tail(q))
<1>1. Head(q) = q[1] /\ Tail(q) \in Seq(S) /\ Len(q) \in Nat \ {0} /\ Head(q) \in S
  OBVIOUS
<1>2. DOMAIN q = 1..Len(q) /\ DOMAIN Tail(q) = 1..(Len(q) - 1)
  OBVIOUS
<1>3. \A i \in 1..(Len(q) - 1) : Tail(q)[i] = q[i + 1]
  OBVIOUS
<1>4. ASSUME NEW e PROVE e \in ToSet(q) <=> e \in {Head(q)} \cup ToSet(Tail(q))
  <2>1. ASSUME NEW i \in 1..Len(q), e = q[i] PROVE e \in {Head(q)} \cup ToSet(Tail(q))
    <3>1. CASE i = 1
      BY <1>1, <2>1, <3>1
    <3>2. CASE i # 1
      <4>1. i - 1 \in 1..(Len(q) - 1) /\ Tail(q)[i - 1] = q[i]
        BY <1>1, <1>3, <3>2
      <4> QED
        BY <1>2, <2>1, <4>1 DEF ToSet
    <3> QED
      BY <3>1, <3>2
  <2>2. ASSUME NEW i \in 1..(Len(q) - 1), e = Tail(q)[i] PROVE e \in ToSet(q)
    <3>1. i + 1 \in 1..Len(q) /\ e = q[i + 1]
      BY <1>1, <1>3, <2>2
    <3> QED
      BY <1>2, <3>1 DEF ToSet
  <2>3. e = Head(q) => e \in ToSet(q)
    BY <1>1, <1>2 DEF ToSet
  <2> QED
    BY <1>2, <2>1, <2>2, <2>3 DEF ToSet
<1> QED
  BY <1>1, <1>4

LEMMA NobodyLeft == ToSet(<<>>) = {}
  BY DEF ToSet

LEMMA MailStart == ASSUME SettingsInit PROVE MailInv
  BY RecipientsAreListed DEF SettingsInit, MailInv, MailShape, NoMail, Everyone

LEMMA MailKept ==
    ASSUME MailInv, [SettingsNext]_settingsVars
    PROVE  MailInv'
<1>1. ASSUME UNCHANGED mail PROVE MailInv'
  BY <1>1 DEF MailInv, MailShape
<1>f. /\ Failed \in [at : {"done"}, rest : {mail.rest}, taken : {mail.taken}, handed : {mail.handed}, ok : {FALSE}]
      /\ mail.rest \in Seq(Everyone) /\ mail.taken \subseteq Everyone /\ mail.handed \subseteq Everyone
  BY DEF MailInv, MailShape, Failed
<1>r. ASSUME mail' = Failed, mail.handed \in {{}, Everyone} PROVE MailInv'
  BY <1>r, <1>f DEF MailInv, MailShape
<1>n. NoMail \in [at : {"idle"}, rest : Seq(Everyone), taken : {{}}, handed : {{}}, ok : {TRUE}]
  BY DEF NoMail
<1>2. ASSUME NEW named \in Connectors \cup {Free}, StartMail(named) PROVE MailInv'
  <2>1. mail = NoMail /\ mail.handed = {}
    BY <1>2, <1>n DEF StartMail, At, MailInv
  <2>2. ASSUME NEW c, Ready(c), mail' = [NoMail EXCEPT !.at = "dial", !.rest = Recipients]
        PROVE  MailInv'
    <3>1. Recipients # <<>> /\ Recipients \in Seq(Everyone)
      BY <2>2, RecipientsAreListed DEF Ready, Everyone
    <3>2. mail' = [at |-> "dial", rest |-> Recipients, taken |-> {}, handed |-> {}, ok |-> TRUE]
      BY <2>2 DEF NoMail
    <3> QED
      BY <3>1, <3>2 DEF MailInv, MailShape, Everyone
  <2> QED
    BY <1>2, <1>r, <2>1, <2>2 DEF StartMail
<1>3. CASE Dial \/ Authenticate
  <2>1. mail.at \in {"dial", "auth"} /\ mail.handed = {}
    BY <1>3 DEF Dial, Authenticate, At, MailInv
  <2>2. ASSUME NEW step \in {"auth", "rcpt"}, mail' = [mail EXCEPT !.at = step] PROVE MailInv'
    BY <2>1, <2>2 DEF MailInv, MailShape
  <2> QED
    BY <1>3, <1>r, <2>1, <2>2 DEF Dial, Authenticate, Say, Refuse
<1>4. CASE Rcpt
  <2>1. mail.at = "rcpt" /\ mail.handed = {} /\ mail.rest # <<>>
    BY <1>4 DEF Rcpt, At, MailInv
  <2>2. ASSUME mail' = Taken PROVE MailInv'
    <3>1. /\ Head(mail.rest) \in Everyone /\ Tail(mail.rest) \in Seq(Everyone)
          /\ ToSet(mail.rest) = {Head(mail.rest)} \cup ToSet(Tail(mail.rest))
      BY <1>f, <2>1, TakeNext
    <3>2. /\ mail'.at = "rcpt" /\ mail'.rest = Tail(mail.rest) /\ mail'.handed = {}
          /\ mail'.taken = mail.taken \cup {Head(mail.rest)} /\ MailShape'
      BY <2>1, <2>2, <3>1 DEF MailInv, MailShape, Taken
    <3> QED
      BY <2>1, <3>1, <3>2 DEF MailInv
  <2> QED
    BY <1>4, <1>r, <2>1, <2>2 DEF Rcpt, Say, Refuse
<1>5. CASE Data
  <2>1. mail.at = "rcpt" /\ mail.handed = {} /\ mail.rest = <<>>
    BY <1>5 DEF Data, At, MailInv
  <2>2. mail.taken = Everyone /\ Everyone # {}
    BY <2>1, NobodyLeft DEF MailInv
  <2>3. ASSUME mail' = [[mail EXCEPT !.at = "quit"] EXCEPT !.handed = mail.taken] PROVE MailInv'
    BY <2>2, <2>3 DEF MailInv, MailShape
  <2>4. ASSUME mail' = [Failed EXCEPT !.handed = mail.taken] PROVE MailInv'
    BY <1>f, <2>2, <2>4 DEF MailInv, MailShape
  <2> QED
    BY <1>5, <1>r, <2>1, <2>3, <2>4 DEF Data, Say, Refuse
<1>6. CASE Quit
  <2>1. mail.at = "quit" /\ mail.handed = Everyone /\ Everyone # {}
    BY <1>6 DEF Quit, At, MailInv
  <2>2. ASSUME mail' = [mail EXCEPT !.at = "done"] PROVE MailInv'
    BY <2>1, <2>2 DEF MailInv, MailShape
  <2> QED
    BY <1>6, <1>r, <2>1, <2>2 DEF Quit, Say, Refuse
<1>7. CASE Forget
  BY <1>7, <1>n DEF Forget, Say, MailInv, MailShape
<1>8. ASSUME NEW a \in Admins, AdminCall(a) \/ AdminStep(a) PROVE UNCHANGED mail
  BY <1>8 DEF AdminCall, AdminStep, use, SetActiveEmailConnector, SetActiveLLMKey, Activate,
              CreateEmailConnector, CreateLLMKey, Create, TestEmailConnector, TestLLMKey, Load,
              DeleteEmailConnector, DeleteLLMKey, Delete, UpdateEmailConnector, BeginClear,
              ClearRow, SetOwn, Commit, Rollback, Reread, WriteStatus, DropCache
<1>9. ASSUME NEW p \in Procs, ReadKey(p) \/ StoreKey(p) PROVE UNCHANGED mail
  BY <1>9 DEF ReadKey, StoreKey
<1> QED
  BY <1>1, <1>2, <1>3, <1>4, <1>5, <1>6, <1>7, <1>8, <1>9
     DEF SettingsNext, MailStep, Tick, settingsVars, use

\* A mail is taken for every recipient or for none, and one that is reported sent was taken
\* (email/email.go, Send): a refused recipient ends the dialogue before DATA.
THEOREM MailsAreWhole == SettingsSpec => []MailAllOrNothing
<1>1. SettingsInit => MailInv
  BY MailStart
<1>2. MailInv /\ [SettingsNext]_settingsVars => MailInv'
  BY MailKept
<1>3. MailInv => MailAllOrNothing
  <2> SUFFICES ASSUME MailInv PROVE MailAllOrNothing
    OBVIOUS
  <2>1. mail.at \in {"idle", "dial", "auth", "rcpt", "quit", "done"}
    BY DEF MailInv, MailShape
  <2>n. NoMail.handed = {}
    BY DEF NoMail
  <2>2. mail.handed \in {{}, Everyone}
    <3>1. CASE mail.at = "idle"
      BY <2>n, <3>1 DEF MailInv
    <3>2. CASE mail.at \in {"dial", "auth", "rcpt"}
      BY <3>2 DEF MailInv
    <3>3. CASE mail.at \in {"quit", "done"}
      BY <3>3 DEF MailInv
    <3> QED
      BY <2>1, <3>1, <3>2, <3>3
  <2>3. mail.at = "done" /\ mail.ok => mail.handed # {}
    BY DEF MailInv
  <2> QED
    BY <2>2, <2>3 DEF MailAllOrNothing, Everyone, At
<1> QED
  BY <1>1, <1>2, <1>3, PTL DEF SettingsSpec

-----------------------------------------------------------------------------
(* Types of the tables and of the calls under way *)

IsRow(x) ==
    /\ {"active", "enabled", "conf", "there", "status"} \subseteq DOMAIN x
    /\ ~ x.there => ~ x.active /\ x.status \in {"UNTESTED", "DELETED"}

IsOp(x) ==
    \/ x = NoOp
    \/ /\ x.at \in {"begin", "clear", "own"} /\ {"at", "row", "todo", "locks"} \subseteq DOMAIN x
       /\ x.row \in Rows /\ x.todo \subseteq Table(x.row) /\ x.locks \subseteq Table(x.row)
       /\ x.at = "begin" => x.todo = {} /\ x.locks = {}
       /\ x.at = "own" => x.todo = {}
    \/ /\ x.at = "test" /\ {"at", "row", "conf"} \subseteq DOMAIN x
       /\ x.row \in Rows
    \/ /\ x.at \in {"reread", "drop"} /\ {"at", "row"} \subseteq DOMAIN x
       /\ x.row \in Rows

\* A row that a transaction holds is there, and no other transaction holds it.
LocksFit ==
    \A a \in Admins : \A t \in LockedBy(a) :
       Exists(t) /\ \A b \in Admins \ {a} : t \notin LockedBy(b)

TablesInv ==
    /\ DOMAIN row = Rows /\ \A r \in Rows : IsRow(row[r])
    /\ DOMAIN op = Admins /\ \A a \in Admins : IsOp(op[a])
    /\ LocksFit

LEMMA RowsAre ==
    /\ Absent \in [active : {FALSE}, enabled : {FALSE}, conf : {Absent.conf}, there : {FALSE},
                   status : {"UNTESTED"}]
    /\ Deleted \in [active : {FALSE}, enabled : {FALSE}, conf : {Deleted.conf}, there : {FALSE},
                    status : {"DELETED"}]
    /\ \A conf : NewRow(conf) \in [active : {FALSE}, enabled : {TRUE}, conf : {conf}, there : {TRUE},
                                   status : {"UNTESTED"}]
<1>1. \A conf : NewRow(conf) = [active |-> FALSE, enabled |-> TRUE, conf |-> conf, there |-> TRUE,
                                status |-> "UNTESTED"]
  BY DEF NewRow
<1>2. PICK none : none = NewRow([secret |-> ""])
  OBVIOUS
<1>3. none \in [active : {FALSE}, enabled : {TRUE}, conf : {none.conf}, there : {TRUE},
                status : {"UNTESTED"}]
  BY <1>1, <1>2
<1>4. Absent = [none EXCEPT !.enabled = FALSE, !.there = FALSE]
  BY <1>2 DEF Absent
<1>5. Absent \in [active : {FALSE}, enabled : {FALSE}, conf : {Absent.conf}, there : {FALSE},
                  status : {"UNTESTED"}]
  BY <1>3, <1>4
<1>6. Deleted \in [active : {FALSE}, enabled : {FALSE}, conf : {Deleted.conf}, there : {FALSE},
                   status : {"DELETED"}]
  BY <1>5 DEF Deleted
<1> QED
  BY <1>1, <1>5, <1>6

LEMMA TablesDiffer ==
    /\ \A r \in Rows : /\ r \in Table(r) /\ Table(r) \subseteq Rows
                       /\ r \in Keys => Table(r) = Keys
                       /\ r \in Connectors => Table(r) = Connectors /\ r \notin Keys
    /\ Keys \subseteq Rows /\ Connectors \subseteq Rows
  BY SettingsAssumption DEF Table, Rows

LEMMA NoOpIs == NoOp.at = "idle" /\ IsOp(NoOp)
  BY DEF NoOp, IsOp
LEMMA RowsFit ==
    /\ IsRow(Absent) /\ ~ Absent.active /\ ~ Absent.there
    /\ IsRow(Deleted) /\ ~ Deleted.active /\ ~ Deleted.there /\ Deleted # Absent
    /\ \A conf : /\ IsRow(NewRow(conf)) /\ ~ NewRow(conf).active
                 /\ NewRow(conf).there /\ NewRow(conf).status = "UNTESTED"
<1>1. /\ IsRow(Absent) /\ ~ Absent.active /\ ~ Absent.there
      /\ IsRow(Deleted) /\ ~ Deleted.active /\ ~ Deleted.there /\ Deleted # Absent
  <2>1. ~ Absent.active /\ ~ Absent.there /\ Absent.status = "UNTESTED"
    BY RowsAre
  <2>2. ~ Deleted.active /\ ~ Deleted.there /\ Deleted.status = "DELETED"
    BY RowsAre
  <2>3. /\ DOMAIN Absent = {"active", "enabled", "conf", "there", "status"}
        /\ DOMAIN Deleted = {"active", "enabled", "conf", "there", "status"}
    BY RowsAre
  <2>4. IsRow(Absent)
    BY <2>1, <2>3 DEF IsRow
  <2>5. IsRow(Deleted)
    BY <2>2, <2>3 DEF IsRow
  <2>6. Deleted # Absent
    BY <2>1, <2>2
  <2> QED
    BY <2>1, <2>2, <2>4, <2>5, <2>6
<1>2. ASSUME NEW conf
      PROVE  /\ IsRow(NewRow(conf)) /\ ~ NewRow(conf).active
             /\ NewRow(conf).there /\ NewRow(conf).status = "UNTESTED"
  <2>1. PICK x : x = NewRow(conf)
    OBVIOUS
  <2>2. x \in [active : {FALSE}, enabled : {TRUE}, conf : {conf}, there : {TRUE},
               status : {"UNTESTED"}]
    BY <2>1, RowsAre
  <2>3. ~ x.active /\ x.there /\ x.status = "UNTESTED"
    BY <2>2
  <2>4. DOMAIN x = {"active", "enabled", "conf", "there", "status"}
    BY <2>2
  <2>5. IsRow(x)
    BY <2>3, <2>4 DEF IsRow
  <2> QED
    BY <2>1, <2>3, <2>5
<1> QED
  BY <1>1, <1>2

LEMMA HeldBy ==
    ASSUME NEW a \in Admins, IsOp(op[a])
    PROVE  /\ LockedBy(a) = IF op[a].at \in {"clear", "own"} THEN op[a].locks ELSE {}
           /\ Activating(a) => LockedBy(a) = op[a].locks
  BY NoOpIs DEF LockedBy, Activating, IsOp

LEMMA TablesStart == ASSUME SettingsInit PROVE TablesInv
<1>1. DOMAIN op = Admins /\ \A a \in Admins : op[a] = NoOp /\ IsOp(op[a])
  BY NoOpIs DEF SettingsInit
<1>2. DOMAIN row = Rows /\ \A r \in Rows : row[r] = Absent \/ Stored(row[r])
  BY SettingsAssumption DEF SettingsInit
<1>3. ASSUME NEW r \in Rows PROVE IsRow(row[r])
  <2>1. CASE row[r] = Absent
    BY <2>1, RowsFit
  <2>2. CASE Stored(row[r])
    BY <2>2 DEF Stored, IsRow
  <2> QED
    BY <1>2, <2>1, <2>2
<1>4. \A a \in Admins : LockedBy(a) = {}
  BY <1>1, NoOpIs DEF LockedBy
<1> QED
  BY <1>1, <1>2, <1>3, <1>4 DEF TablesInv, LocksFit

\* A step changes one administrator's call ...
LEMMA OpChange ==
    ASSUME TablesInv, NEW a \in Admins, NEW x, IsOp(x), op' = [op EXCEPT ![a] = x]
    PROVE  /\ DOMAIN op' = Admins /\ \A b \in Admins : IsOp(op'[b])
           /\ op'[a] = x /\ \A b \in Admins \ {a} : op'[b] = op[b]
  BY DEF TablesInv

\* ... or one row.
LEMMA RowChange ==
    ASSUME TablesInv, NEW r \in Rows, NEW x, IsRow(x), row' = [row EXCEPT ![r] = x]
    PROVE  /\ DOMAIN row' = Rows /\ \A t \in Rows : IsRow(row'[t])
           /\ row'[r] = x /\ \A t \in Rows \ {r} : row'[t] = row[t]
  BY DEF TablesInv

LEMMA ToClearInTable ==
    ASSUME NEW r \in Rows
    PROVE  ToClear(r) \subseteq Table(r) \ {r}
  BY TablesDiffer DEF ToClear, KeysToClear, ConnectorsToClear, Table, Rows

\* The locks fit after a step that adds at most one, of a row that is there and free.
LEMMA LocksKept ==
    ASSUME TablesInv, NEW a \in Admins, NEW t,
           \A b \in Admins \ {a} : op'[b] = op[b],
           LockedBy(a)' \subseteq LockedBy(a) \cup {t},
           t \in LockedBy(a)' => t \in LockedBy(a) \/ (Exists(t) /\ ~ Locked(a, t)),
           \A b \in Admins : \A r \in LockedBy(b) : Exists(r) => Exists(r)',
           Exists(t) => Exists(t)'
    PROVE  LocksFit'
<1>1. \A b \in Admins \ {a} : LockedBy(b)' = LockedBy(b)
  BY DEF LockedBy
<1>2. ASSUME NEW r \in LockedBy(a)' PROVE Exists(r)' /\ \A b \in Admins \ {a} : r \notin LockedBy(b)
  BY <1>2 DEF TablesInv, LocksFit, Locked
<1> QED
  BY <1>1, <1>2 DEF TablesInv, LocksFit

LEMMA TablesStep == ASSUME TablesInv, [SettingsNext]_settingsVars PROVE TablesInv'
<1>t. /\ DOMAIN row = Rows /\ \A r \in Rows : IsRow(row[r])
      /\ DOMAIN op = Admins /\ \A a \in Admins : IsOp(op[a])
  BY DEF TablesInv
<1>h. \A a \in Admins : /\ LockedBy(a) = IF op[a].at \in {"clear", "own"} THEN op[a].locks ELSE {}
                        /\ Activating(a) => LockedBy(a) = op[a].locks
  BY <1>t, HeldBy
\* A call that lets go of its locks, or has none.
<1>e. ASSUME NEW a \in Admins, NEW x, IsOp(x), op' = [op EXCEPT ![a] = x],
             x.at \notin {"clear", "own"}, DOMAIN row' = Rows, \A r \in Rows : IsRow(row'[r]),
             \A b \in Admins \ {a} : \A r \in LockedBy(b) : Exists(r) => Exists(r)'
      PROVE  TablesInv'
  <2>1. /\ DOMAIN op' = Admins /\ \A b \in Admins : IsOp(op'[b])
        /\ op'[a] = x /\ \A b \in Admins \ {a} : op'[b] = op[b]
    BY <1>e, OpChange
  <2>2. LockedBy(a)' = {} /\ \A b \in Admins \ {a} : LockedBy(b)' = LockedBy(b)
    BY <1>e, <2>1 DEF LockedBy
  <2>3. LocksFit'
    BY <1>e, <2>2 DEF TablesInv, LocksFit
  <2> QED
    BY <1>e, <2>1, <2>3 DEF TablesInv
<1>n. ASSUME UNCHANGED row
      PROVE  DOMAIN row' = Rows /\ (\A r \in Rows : IsRow(row'[r])) /\ \A r : Exists(r) => Exists(r)'
  BY <1>t, <1>n DEF Exists
<1>d. ASSUME NEW a \in Admins, Done(a), UNCHANGED row PROVE TablesInv'
  BY <1>d, <1>e, <1>n, NoOpIs DEF Done
<1>g. ASSUME NEW a \in Admins, Goto(a, "drop"), op[a].at \in {"reread", "test"},
             DOMAIN row' = Rows, \A r \in Rows : IsRow(row'[r]), \A r \in Rows : Exists(r) => Exists(r)'
      PROVE  TablesInv'
  <2>1. PICK x : x = [op[a] EXCEPT !.at = "drop"]
    OBVIOUS
  <2>2. IsOp(x) /\ x.at = "drop"
    BY <1>t, <1>g, <2>1, NoOpIs DEF IsOp
  <2>3. op' = [op EXCEPT ![a] = x]
    BY <1>t, <1>g, <2>1 DEF Goto
  <2>4. \A b \in Admins : LockedBy(b) \subseteq Rows
    BY <1>t, <1>h, NoOpIs, TablesDiffer DEF IsOp
  <2> QED
    BY <1>e, <1>g, <2>2, <2>3, <2>4
\* A call that keeps its locks, and may take one more.
<1>k. ASSUME NEW a \in Admins, NEW t, NEW x, IsOp(x), op' = [op EXCEPT ![a] = x], UNCHANGED row,
             x.at \in {"clear", "own"}, Activating(a), op[a].locks \subseteq x.locks,
             x.locks \subseteq op[a].locks \cup {t},
             t \in x.locks => t \in op[a].locks \/ (Exists(t) /\ ~ Locked(a, t))
      PROVE  TablesInv'
  <2>1. /\ DOMAIN op' = Admins /\ \A b \in Admins : IsOp(op'[b])
        /\ op'[a] = x /\ \A b \in Admins \ {a} : op'[b] = op[b]
    BY <1>k, OpChange
  <2>2. LockedBy(a)' = x.locks /\ LockedBy(a) = op[a].locks
    BY <1>h, <1>k, <2>1 DEF LockedBy
  <2>3. LocksFit'
    BY <1>k, <1>n, <2>1, <2>2, LocksKept
  <2> QED
    BY <1>k, <1>n, <2>1, <2>3 DEF TablesInv
\* A change of one row that stays there, or that no transaction holds.
<1>c. ASSUME NEW r \in Rows, NEW x, IsRow(x), row' = [row EXCEPT ![r] = x],
             Exists(r) => x.there \/ \A b \in Admins : r \notin LockedBy(b)
      PROVE  /\ DOMAIN row' = Rows /\ \A t \in Rows : IsRow(row'[t])
             /\ \A b \in Admins : \A t \in LockedBy(b) : Exists(t) => Exists(t)'
  <2>1. /\ DOMAIN row' = Rows /\ \A t \in Rows : IsRow(row'[t])
        /\ row'[r] = x /\ \A t \in Rows \ {r} : row'[t] = row[t]
    BY <1>c, RowChange
  <2>2. \A b \in Admins : LockedBy(b) \subseteq Rows
    BY <1>t, <1>h, NoOpIs, TablesDiffer DEF IsOp
  <2> QED
    BY <1>c, <2>1, <2>2 DEF Exists
<1>u. ASSUME UNCHANGED op, DOMAIN row' = Rows, \A r \in Rows : IsRow(row'[r]),
             \A b \in Admins : \A r \in LockedBy(b) : Exists(r) => Exists(r)'
      PROVE  TablesInv'
  <2>1. \A b \in Admins : LockedBy(b)' = LockedBy(b)
    BY <1>u DEF LockedBy
  <2>2. LocksFit'
    BY <1>u, <2>1 DEF TablesInv, LocksFit
  <2> QED
    BY <1>t, <1>u, <2>2 DEF TablesInv
\* An idle administrator holds nothing, so that a row that is not locked is free.
<1>f. ASSUME NEW a \in Admins, NEW r, op[a] = NoOp, ~ Locked(a, r)
      PROVE  \A b \in Admins : r \notin LockedBy(b)
  BY <1>f, NoOpIs DEF Locked, LockedBy
<1>1. ASSUME NEW a \in Admins, NEW r \in Rows, Activate(a, r) PROVE TablesInv'
  <2>1. PICK x : x = [at |-> "begin", row |-> r, todo |-> {}, locks |-> {}]
    OBVIOUS
  <2>2. IsOp(x) /\ x.at = "begin"
    BY <2>1 DEF IsOp
  <2> QED
    BY <1>1, <1>e, <1>n, <2>1, <2>2 DEF Activate
<1>2. ASSUME NEW a \in Admins, NEW r \in Rows, NEW conf, Create(a, r, conf) PROVE TablesInv'
  <2>1. PICK n : n = NewRow(conf)
    OBVIOUS
  <2>2. IsRow(n) /\ n.there
    BY <2>1, RowsFit
  <2>3. PICK x : x = Testing(r, n)
    OBVIOUS
  <2>4. IsOp(x) /\ x.at = "test"
    BY <2>2, <2>3 DEF IsOp, Testing
  <2>5. row' = [row EXCEPT ![r] = n] /\ op' = [op EXCEPT ![a] = x]
    BY <1>2, <2>1, <2>3 DEF Create
  <2>6. n.there
    BY <2>2
  <2>7. /\ DOMAIN row' = Rows /\ \A t \in Rows : IsRow(row'[t])
        /\ \A b \in Admins : \A t \in LockedBy(b) : Exists(t) => Exists(t)'
    BY <1>c, <2>2, <2>5, <2>6
  <2> QED
    BY <1>e, <2>4, <2>5, <2>7
<1>3. ASSUME NEW a \in Admins, NEW r \in Rows, Load(a, r) PROVE TablesInv'
  <2>1. PICK x : x = Testing(r, row[r])
    OBVIOUS
  <2>2. IsOp(x) /\ x.at = "test"
    BY <1>t, <2>1 DEF IsOp, Testing, IsRow
  <2> QED
    BY <1>3, <1>e, <1>n, <2>1, <2>2 DEF Load
<1>4. ASSUME NEW a \in Admins, NEW r \in Rows, Delete(a, r)
      PROVE  /\ DOMAIN row' = Rows /\ \A t \in Rows : IsRow(row'[t])
             /\ \A b \in Admins : \A t \in LockedBy(b) : Exists(t) => Exists(t)'
  BY <1>4, <1>c, <1>f, RowsFit DEF Delete, Idle
<1>5. ASSUME NEW a \in Admins, AdminCall(a) PROVE TablesInv'
  <2>1. ASSUME NEW c \in Connectors, DeleteEmailConnector(a, c) PROVE TablesInv'
    BY <1>4, <1>u, <2>1, TablesDiffer DEF DeleteEmailConnector
  <2>2. ASSUME NEW k \in Keys, DeleteLLMKey(a, k) PROVE TablesInv'
    <3>1. PICK x : x = [at |-> "drop", row |-> k]
      OBVIOUS
    <3>2. IsOp(x) /\ x.at = "drop"
      BY <3>1, TablesDiffer DEF IsOp
    <3> QED
      BY <1>4, <1>e, <2>2, <3>1, <3>2, TablesDiffer DEF DeleteLLMKey
  <2>3. ASSUME NEW c \in Connectors, NEW form \in Edits, UpdateEmailConnector(a, c, form)
        PROVE  TablesInv'
    <3>1. PICK x : x = Edited(row[c], form)
      OBVIOUS
    <3>2. IsRow(row[c]) /\ row[c].there
      BY <1>t, <2>3, TablesDiffer DEF UpdateEmailConnector, Exists
    <3>3. PICK conf, enabled : x = [row[c] EXCEPT !.conf = conf, !.enabled = enabled,
                                                  !.status = "UNTESTED"]
      BY <3>1 DEF Edited
    <3>4. IsRow(x) /\ x.there
      BY <3>2, <3>3 DEF IsRow
    <3> QED
      BY <1>c, <1>u, <2>3, <3>1, <3>4, TablesDiffer DEF UpdateEmailConnector
  <2> QED
    BY <1>1, <1>2, <1>3, <1>5, <2>1, <2>2, <2>3, TablesDiffer
       DEF AdminCall, SetActiveEmailConnector, SetActiveLLMKey, CreateEmailConnector, CreateLLMKey,
           TestEmailConnector, TestLLMKey
<1>6. ASSUME NEW a \in Admins, AdminStep(a) PROVE TablesInv'
  <2>t. DOMAIN op = Admins /\ IsOp(op[a])
    BY <1>t
  <2>1. CASE BeginClear(a)
    <3>1. PICK x : x = [op[a] EXCEPT !.at = "clear", !.todo = ToClear(op[a].row)]
      OBVIOUS
    <3>2. IsOp(x) /\ x.at = "clear" /\ x.locks = op[a].locks /\ Activating(a)
      BY <2>t, <2>1, <3>1, ToClearInTable, NoOpIs DEF BeginClear, IsOp, Activating
    <3>3. op' = [op EXCEPT ![a] = x] /\ UNCHANGED row
      BY <2>t, <2>1, <3>1 DEF BeginClear
    <3>4. op[a].locks = {}
      BY <2>t, <2>1, NoOpIs DEF BeginClear, IsOp
    <3> QED
      BY <1>k, <3>2, <3>3, <3>4
  <2>2. ASSUME NEW t \in Rows, ClearRow(a, t) PROVE TablesInv'
    <3>1. PICK x : x = [op[a] EXCEPT !.todo = @ \ {t}, !.locks = IF Exists(t) THEN @ \cup {t} ELSE @]
      OBVIOUS
    <3>2. /\ IsOp(x) /\ x.at = "clear" /\ Activating(a)
          /\ x.locks = IF Exists(t) THEN op[a].locks \cup {t} ELSE op[a].locks
      BY <2>t, <2>2, <3>1, NoOpIs DEF ClearRow, IsOp, Activating
    <3>3. op' = [op EXCEPT ![a] = x] /\ UNCHANGED row /\ ~ Locked(a, t)
      BY <2>t, <2>2, <3>1 DEF ClearRow
    <3> QED
      BY <1>k, <3>2, <3>3
  <2>3. CASE SetOwn(a)
    <3>1. PICK r \in Rows : r = op[a].row
      BY <2>t, <2>3, NoOpIs DEF SetOwn, IsOp
    <3>2. PICK x : x = [op[a] EXCEPT !.at = "own", !.locks = IF Exists(r) THEN @ \cup {r} ELSE @]
      OBVIOUS
    <3>3. /\ IsOp(x) /\ x.at = "own" /\ Activating(a)
          /\ x.locks = IF Exists(r) THEN op[a].locks \cup {r} ELSE op[a].locks
      BY <2>t, <2>3, <3>1, <3>2, NoOpIs, TablesDiffer DEF SetOwn, IsOp, Activating
    <3>4. op' = [op EXCEPT ![a] = x] /\ UNCHANGED row /\ ~ Locked(a, r)
      BY <2>t, <2>3, <3>1, <3>2 DEF SetOwn
    <3> QED
      BY <1>k, <3>3, <3>4
  <2>4. CASE Commit(a)
    <3>1. PICK x : x = [at |-> "reread", row |-> op[a].row]
      OBVIOUS
    <3>2. IsOp(x) /\ x.at = "reread"
      BY <2>t, <2>4, <3>1, NoOpIs DEF Commit, IsOp
    <3>3. ASSUME NEW t \in Rows PROVE IsRow(row'[t]) /\ (Exists(t) => Exists(t)')
      <4>1. row'[t] = IF t \notin op[a].locks THEN row[t]
                      ELSE [row[t] EXCEPT !.active = (t = op[a].row), !.enabled = @ \/ t = op[a].row]
        BY <2>4 DEF Commit
      <4>2. CASE t \in op[a].locks
        <5>1. PICK own, enabled : row'[t] = [row[t] EXCEPT !.active = own, !.enabled = enabled]
          BY <4>1, <4>2
        <5>2. t \in LockedBy(a)
          BY <1>h, <2>4, <4>2 DEF Commit
        <5>3. Exists(t) /\ IsRow(row[t])
          BY <1>t, <5>2 DEF TablesInv, LocksFit
        <5> QED
          BY <5>1, <5>3 DEF IsRow, Exists
      <4> QED
        BY <1>t, <4>1, <4>2 DEF Exists
    <3>4. DOMAIN row' = Rows /\ op' = [op EXCEPT ![a] = x]
      BY <2>4, <3>1 DEF Commit
    <3>5. \A b \in Admins : LockedBy(b) \subseteq Rows
      BY <1>t, <1>h, NoOpIs, TablesDiffer DEF IsOp
    <3> QED
      BY <1>e, <3>2, <3>3, <3>4, <3>5
  <2>5. CASE Rollback(a)
    BY <1>d, <2>5 DEF Rollback
  <2>6. CASE Reread(a)
    BY <1>d, <1>g, <1>n, <2>6 DEF Reread
  <2>7. CASE WriteStatus(a)
    <3>1. op[a].at = "test" /\ op[a].row \in Rows
      BY <2>t, <2>7, NoOpIs DEF WriteStatus, IsOp
    <3>2. ASSUME NEW v \in Verdicts(op[a].conf), Exists(op[a].row),
                 row' = [row EXCEPT ![op[a].row].status = v]
          PROVE  /\ DOMAIN row' = Rows /\ \A r \in Rows : IsRow(row'[r])
                 /\ \A r \in Rows : Exists(r) => Exists(r)'
      <4>1. PICK r \in Rows : r = op[a].row
        BY <3>1
      <4>2. PICK x : x = [row[r] EXCEPT !.status = v]
        OBVIOUS
      <4>3. row' = [row EXCEPT ![r] = x]
        BY <1>t, <3>2, <4>1, <4>2
      <4>4. IsRow(row[r]) /\ row[r].there
        BY <1>t, <3>2, <4>1 DEF Exists
      <4>5. IsRow(x) /\ x.there
        BY <4>2, <4>4 DEF IsRow
      <4> QED
        BY <4>3, <4>5, RowChange DEF Exists
    <3>3. /\ DOMAIN row' = Rows /\ \A r \in Rows : IsRow(row'[r])
          /\ \A r \in Rows : Exists(r) => Exists(r)'
      BY <1>n, <2>7, <3>2 DEF WriteStatus
    <3>4. ASSUME Done(a) PROVE TablesInv'
      <4>1. \A b \in Admins : LockedBy(b) \subseteq Rows
        BY <1>t, <1>h, NoOpIs, TablesDiffer DEF IsOp
      <4> QED
        BY <1>e, <3>3, <3>4, <4>1, NoOpIs DEF Done
    <3> QED
      BY <1>g, <2>7, <3>1, <3>3, <3>4 DEF WriteStatus
  <2>8. CASE DropCache(a)
    BY <1>d, <2>8 DEF DropCache
  <2> QED
    BY <1>6, <2>1, <2>2, <2>3, <2>4, <2>5, <2>6, <2>7, <2>8 DEF AdminStep
<1>7. ASSUME UNCHANGED <<row, op>> PROVE TablesInv'
  BY <1>7, <1>n, <1>u
<1>8. ASSUME MailStep PROVE UNCHANGED <<row, op>>
  BY <1>8 DEF MailStep, StartMail, Dial, Authenticate, Rcpt, Data, Quit, Forget, Say, Refuse
<1> QED
  BY <1>5, <1>6, <1>7, <1>8 DEF SettingsNext, ReadKey, StoreKey, Tick, settingsVars

-----------------------------------------------------------------------------
(* A cached key is one that a read would return *)

CacheTypes ==
    /\ DOMAIN cache = Procs /\ DOMAIN reading = Procs /\ DOMAIN excused = Procs
    /\ \A p \in Procs : /\ {"key", "left"} \subseteq DOMAIN cache[p]
                        /\ cache[p].left \in Nat /\ cache[p].left <= TTL
                        /\ excused[p] \in Nat /\ excused[p] <= TTL

\* What a process has read and not kept yet is a key it may keep: one that is in use, or it
\* is excused for as long as it may keep it, or a call of its own will drop the cache.
ReadFits(p) ==
    reading[p] # Free => reading[p] \in EffectiveKeys \/ excused[p] = TTL \/ Applying(p)

FreshInv == TablesInv /\ CacheTypes /\ FreshKey /\ \A p \in Procs : ReadFits(p)

\* The keys in use are those of the active rows and of their secrets.
LEMMA EffectiveSame ==
    ASSUME \A k \in Keys : /\ row'[k].active <=> row[k].active
                           /\ row[k].active => row'[k].conf = row[k].conf
    PROVE  EffectiveKeys' = EffectiveKeys
<1> DEFINE active == {k \in Keys : row[k].active}
           activeNext == {k \in Keys : row'[k].active}
           InUse(k) == IF row[k].conf.secret = Garbled THEN SystemKey ELSE k
           InUseNext(k) == IF row'[k].conf.secret = Garbled THEN SystemKey ELSE k
<1>1. activeNext = active
  OBVIOUS
<1>2. \A k \in active : InUseNext(k) = InUse(k)
  OBVIOUS
<1>3. EffectiveKeys = IF active = {} THEN {SystemKey} ELSE {InUse(k) : k \in active}
  BY DEF EffectiveKeys
<1>4. EffectiveKeys' = IF activeNext = {} THEN {SystemKey} ELSE {InUseNext(k) : k \in activeNext}
  BY DEF EffectiveKeys
<1> HIDE DEF active, activeNext, InUse, InUseNext
<1>5. {InUseNext(k) : k \in active} = {InUse(k) : k \in active}
  BY <1>2
<1> QED
  BY <1>1, <1>3, <1>4, <1>5

LEMMA FreshStart == ASSUME SettingsInit PROVE FreshInv
<1>1. TTL \in Nat
  BY SettingsAssumption
<1>2. \A p \in Procs : cache[p] = [key |-> SystemKey, left |-> 0] /\ excused[p] = 0 /\ reading[p] = Free
  BY DEF SettingsInit
<1>3. \A p \in Procs : cache[p].left = 0 /\ DOMAIN cache[p] = {"key", "left"}
  BY <1>2
<1>4. CacheTypes
  BY <1>1, <1>2, <1>3 DEF SettingsInit, CacheTypes
<1> QED
  BY <1>2, <1>3, <1>4, TablesStart DEF FreshInv, FreshKey, ReadFits

\* Calls of administrators: in each process nothing changes, or it is excused, or a call of
\* its own will drop the cache.
LEMMA FreshKept ==
    ASSUME FreshInv, TablesInv', UNCHANGED <<cache, reading>>, DOMAIN excused' = Procs,
           \A p \in Procs : excused'[p] \in {excused[p], TTL},
           \A p \in Procs : \/ excused'[p] = TTL \/ Applying(p)'
                            \/ EffectiveKeys' = EffectiveKeys /\ ~ Applying(p)
    PROVE  FreshInv'
<1>1. TTL \in Nat /\ CacheTypes
  BY SettingsAssumption DEF FreshInv
<1>2. CacheTypes'
  BY <1>1 DEF CacheTypes
<1>3. ASSUME NEW p \in Procs, cache'[p].left > excused'[p], ~ Applying(p)'
      PROVE  cache'[p].key \in EffectiveKeys'
  <2>1. excused'[p] # TTL
    BY <1>1, <1>3 DEF CacheTypes
  <2>2. EffectiveKeys' = EffectiveKeys /\ ~ Applying(p) /\ excused'[p] = excused[p]
    BY <1>3, <2>1
  <2> QED
    BY <1>3, <2>2 DEF FreshInv, FreshKey
<1>4. ASSUME NEW p \in Procs PROVE ReadFits(p)'
  BY DEF FreshInv, ReadFits
<1> QED
  BY <1>2, <1>3, <1>4 DEF FreshInv, FreshKey

LEMMA FreshStep == ASSUME FreshInv, [SettingsNext]_settingsVars PROVE FreshInv'
<1>i. TablesInv' /\ TablesInv /\ CacheTypes /\ TTL \in Nat
  BY TablesStep, SettingsAssumption DEF FreshInv
<1>t. /\ DOMAIN row = Rows /\ \A r \in Rows : IsRow(row[r])
      /\ DOMAIN op = Admins /\ \A a \in Admins : IsOp(op[a])
      /\ DOMAIN cache = Procs /\ DOMAIN reading = Procs /\ DOMAIN excused = Procs
      /\ \A a \in Admins : ProcOf[a] \in Procs
  BY <1>i, SettingsAssumption DEF TablesInv, CacheTypes
<1>x. \A ps \in SUBSET Procs :
         /\ DOMAIN Outdated(ps) = Procs
         /\ \A p \in Procs : Outdated(ps)[p] \in {excused[p], TTL} /\ (p \in ps => Outdated(ps)[p] = TTL)
  BY DEF Outdated
\* A call under way goes on, and no key in use changes: whoever applied a change still does.
<1>s. ASSUME NEW a \in Admins, \A b \in Admins \ {a} : op'[b] = op[b],
             UNCHANGED <<cache, reading, excused>>,
             op[a].at \notin {"reread", "drop"} \/ (op'[a].at = "drop" /\ op'[a].row = op[a].row),
             \A k \in Keys : /\ row'[k].active <=> row[k].active
                             /\ row[k].active => row'[k].conf = row[k].conf
      PROVE  FreshInv'
  <2>1. EffectiveKeys' = EffectiveKeys
    BY <1>s, EffectiveSame
  <2>2. \A p \in Procs : Applying(p) => Applying(p)'
    BY <1>s DEF Applying
  <2> QED
    BY <1>i, <1>s, <1>t, <2>1, <2>2, FreshKept
<1>o. ASSUME NEW a \in Admins, NEW x, op' = [op EXCEPT ![a] = x], UNCHANGED <<row, cache, reading, excused>>,
             op[a].at \notin {"reread", "drop"}
      PROVE  FreshInv'
  BY <1>o, <1>s, <1>t
\* The keys in use may change: the process that serves the call drops its cache, and the
\* others are excused.
<1>k. ASSUME NEW a \in Admins, NEW x, op' = [op EXCEPT ![a] = x], x.at \in {"reread", "drop"}, x.row \in Keys,
             UNCHANGED <<cache, reading>>, excused' = Outdated(Elsewhere(a))
      PROVE  FreshInv'
  <2>1. op'[a] = x
    BY <1>k, <1>t
  <2>2. Applying(ProcOf[a])'
    BY <1>k, <2>1 DEF Applying
  <2>3. /\ DOMAIN excused' = Procs
        /\ \A p \in Procs : excused'[p] \in {excused[p], TTL} /\ (p # ProcOf[a] => excused'[p] = TTL)
    BY <1>k, <1>x DEF Elsewhere
  <2> QED
    BY <1>i, <1>k, <2>2, <2>3, FreshKept
<1>1. ASSUME NEW a \in Admins, NEW r \in Rows, Activate(a, r) PROVE FreshInv'
  BY <1>1, <1>o, NoOpIs DEF Activate, Idle, use
<1>2. ASSUME NEW a \in Admins, NEW r \in Rows, NEW conf, Create(a, r, conf) PROVE FreshInv'
  <2>1. PICK n : n = NewRow(conf)
    OBVIOUS
  <2>2. ~ n.active /\ ~ row[r].active
    BY <1>2, <2>1, RowsFit DEF Create
  <2>3. row'[r] = n /\ \A t \in Rows \ {r} : row'[t] = row[t]
    BY <1>2, <1>t, <2>1 DEF Create
  <2>4. \A k \in Keys : /\ row'[k].active <=> row[k].active
                        /\ row[k].active => row'[k].conf = row[k].conf
    BY <2>2, <2>3, TablesDiffer
  <2>5. op[a] = NoOp /\ (\A b \in Admins \ {a} : op'[b] = op[b]) /\ UNCHANGED <<cache, reading, excused>>
    BY <1>2, <1>t DEF Create, Idle, use
  <2> QED
    BY <1>s, <2>4, <2>5, NoOpIs
<1>3. ASSUME NEW a \in Admins, NEW r \in Rows, Load(a, r) PROVE FreshInv'
  BY <1>3, <1>o, NoOpIs DEF Load, Idle, use, history
<1>5. ASSUME NEW a \in Admins, AdminCall(a) PROVE FreshInv'
  <2>1. ASSUME NEW c \in Connectors, DeleteEmailConnector(a, c) PROVE FreshInv'
    <3>1. op[a] = NoOp /\ UNCHANGED <<op, cache, reading, excused>> /\ \A t \in Rows \ {c} : row'[t] = row[t]
      BY <1>t, <2>1 DEF DeleteEmailConnector, Delete, Idle, use
    <3>2. \A k \in Keys : row'[k] = row[k]
      BY <2>1, <3>1, TablesDiffer
    <3> QED
      BY <1>s, <3>1, <3>2, NoOpIs
  <2>2. ASSUME NEW k \in Keys, DeleteLLMKey(a, k) PROVE FreshInv'
    <3>1. PICK x : x = [at |-> "drop", row |-> k]
      OBVIOUS
    <3>2. x.at = "drop" /\ x.row = k
      BY <3>1
    <3> QED
      BY <1>k, <2>2, <3>1, <3>2 DEF DeleteLLMKey, Delete, use
  <2>3. ASSUME NEW c \in Connectors, NEW form \in Edits, UpdateEmailConnector(a, c, form)
        PROVE  FreshInv'
    <3>1. op[a] = NoOp /\ UNCHANGED <<op, cache, reading, excused>> /\ \A t \in Rows \ {c} : row'[t] = row[t]
      BY <1>t, <2>3 DEF UpdateEmailConnector, Idle, use, history
    <3>2. \A k \in Keys : row'[k] = row[k]
      BY <2>3, <3>1, TablesDiffer
    <3> QED
      BY <1>s, <3>1, <3>2, NoOpIs
  <2> QED
    BY <1>1, <1>2, <1>3, <1>5, <2>1, <2>2, <2>3, TablesDiffer
       DEF AdminCall, SetActiveEmailConnector, SetActiveLLMKey, CreateEmailConnector, CreateLLMKey,
           TestEmailConnector, TestLLMKey
<1>6. ASSUME NEW a \in Admins, AdminStep(a) PROVE FreshInv'
  <2>t. DOMAIN op = Admins /\ IsOp(op[a])
    BY <1>t
  <2>1. CASE BeginClear(a)
    <3>1. PICK x : x = [op[a] EXCEPT !.at = "clear", !.todo = ToClear(op[a].row)]
      OBVIOUS
    <3>2. op' = [op EXCEPT ![a] = x] /\ op[a].at = "begin" /\ UNCHANGED <<row, cache, reading, excused>>
      BY <2>t, <2>1, <3>1 DEF BeginClear, use, history
    <3> QED
      BY <1>o, <3>2
  <2>2. ASSUME NEW t \in Rows, ClearRow(a, t) PROVE FreshInv'
    <3>1. PICK x : x = [op[a] EXCEPT !.todo = @ \ {t}, !.locks = IF Exists(t) THEN @ \cup {t} ELSE @]
      OBVIOUS
    <3>2. op' = [op EXCEPT ![a] = x] /\ op[a].at = "clear" /\ UNCHANGED <<row, cache, reading, excused>>
      BY <2>t, <2>2, <3>1 DEF ClearRow, use, history
    <3> QED
      BY <1>o, <3>2
  <2>3. CASE SetOwn(a)
    <3>1. PICK x : x = [op[a] EXCEPT !.at = "own", !.locks = IF Exists(op[a].row) THEN @ \cup {op[a].row} ELSE @]
      OBVIOUS
    <3>2. op' = [op EXCEPT ![a] = x] /\ op[a].at = "clear" /\ UNCHANGED <<row, cache, reading, excused>>
      BY <2>t, <2>3, <3>1 DEF SetOwn, use, history
    <3> QED
      BY <1>o, <3>2
  <2>4. CASE Commit(a)
    <3>1. PICK r \in Rows : r = op[a].row
      BY <2>t, <2>4, NoOpIs DEF Commit, IsOp
    <3>2. PICK x : x = [at |-> "reread", row |-> r]
      OBVIOUS
    <3>3. x.at = "reread" /\ x.row = r
      BY <3>2
    <3>4. op' = [op EXCEPT ![a] = x] /\ UNCHANGED <<cache, reading>>
      BY <2>4, <3>1, <3>2 DEF Commit, use
    <3>5. CASE r \in Keys
      <4>1. excused' = Outdated(Elsewhere(a))
        BY <2>4, <3>1, <3>5 DEF Commit
      <4> QED
        BY <1>k, <3>3, <3>4, <3>5, <4>1
    <3>6. CASE r \notin Keys
      <4>1. op[a].locks \cap Keys = {}
        BY <2>t, <2>4, <3>1, <3>6, NoOpIs, SettingsAssumption DEF Commit, IsOp, Table, Rows
      <4>2. \A k \in Keys : row'[k] = row[k]
        BY <2>4, <4>1, TablesDiffer DEF Commit
      <4>3. UNCHANGED excused /\ op[a].at = "own" /\ \A b \in Admins \ {a} : op'[b] = op[b]
        BY <1>t, <2>4, <3>1, <3>4, <3>6 DEF Commit
      <4> QED
        BY <1>s, <3>4, <4>2, <4>3
    <3> QED
      BY <3>5, <3>6
  <2>5. CASE Rollback(a)
    <3>1. op[a].at \notin {"reread", "drop"}
      BY <2>5 DEF Rollback, Activating
    <3> QED
      BY <1>o, <2>5, <3>1 DEF Rollback, Done, use, history
  <2>6. CASE Reread(a)
    <3>1. op[a].at = "reread" /\ op[a].row \in Rows /\ {"at", "row"} \subseteq DOMAIN op[a]
      BY <2>t, <2>6, NoOpIs DEF Reread, IsOp
    <3>2. UNCHANGED <<row, cache, reading>>
      BY <2>6 DEF Reread, use
    <3>3. ASSUME Goto(a, "drop"), UNCHANGED excused PROVE FreshInv'
      <4>1. /\ op'[a].at = "drop" /\ op'[a].row = op[a].row
            /\ \A b \in Admins \ {a} : op'[b] = op[b]
        BY <1>t, <3>1, <3>3 DEF Goto
      <4> QED
        BY <1>s, <3>2, <3>3, <4>1
    <3>4. ASSUME Done(a), op[a].row \notin Keys, UNCHANGED excused PROVE FreshInv'
      <4>1. op'[a] = NoOp /\ \A b \in Admins \ {a} : op'[b] = op[b]
        BY <1>t, <3>4 DEF Done
      <4>2. \A p \in Procs : Applying(p) => Applying(p)'
        BY <3>4, <4>1 DEF Applying
      <4>3. EffectiveKeys' = EffectiveKeys
        BY <3>2, EffectiveSame
      <4> QED
        BY <1>i, <1>t, <3>2, <3>4, <4>2, <4>3, FreshKept
    <3>5. ASSUME Done(a), op[a].row \in Keys, excused' = Outdated({ProcOf[a]}) PROVE FreshInv'
      <4>1. op'[a] = NoOp /\ \A b \in Admins \ {a} : op'[b] = op[b]
        BY <1>t, <3>5 DEF Done
      <4>2. \A p \in Procs : p # ProcOf[a] => (Applying(p) => Applying(p)')
        BY <4>1 DEF Applying
      <4>3. EffectiveKeys' = EffectiveKeys
        BY <3>2, EffectiveSame
      <4>4. /\ DOMAIN excused' = Procs /\ excused'[ProcOf[a]] = TTL
            /\ \A p \in Procs : excused'[p] \in {excused[p], TTL}
        BY <1>t, <1>x, <3>5
      <4> QED
        BY <1>i, <3>2, <4>2, <4>3, <4>4, FreshKept
    <3> QED
      BY <2>6, <3>3, <3>4, <3>5 DEF Reread
  <2>7. CASE WriteStatus(a)
    <3>1. op[a].at = "test" /\ UNCHANGED <<cache, reading, excused>>
      BY <2>7 DEF WriteStatus, use, history
    <3>2. \A b \in Admins \ {a} : op'[b] = op[b]
      BY <1>t, <2>7 DEF WriteStatus, Goto, Done
    <3>3. PICK r \in Rows : r = op[a].row
      BY <2>t, <3>1, NoOpIs DEF IsOp
    <3>4. ASSUME NEW v, row' = [row EXCEPT ![r].status = v], NEW k \in Keys
          PROVE  row'[k].active = row[k].active /\ row'[k].conf = row[k].conf
      <4>1. k \in Rows /\ (k # r => row'[k] = row[k])
        BY <1>t, <3>4, TablesDiffer
      <4>2. row'[r] = [row[r] EXCEPT !.status = v]
        BY <1>t, <3>4
      <4>3. row'[r].active = row[r].active /\ row'[r].conf = row[r].conf
        BY <1>t, <4>2 DEF IsRow
      <4> QED
        BY <4>1, <4>3
    <3>5. \A k \in Keys : /\ row'[k].active <=> row[k].active
                          /\ row[k].active => row'[k].conf = row[k].conf
      BY <2>7, <3>3, <3>4 DEF WriteStatus
    <3> QED
      BY <1>s, <3>1, <3>2, <3>5
  <2>8. CASE DropCache(a)
    <3>1. PICK p \in Procs : p = ProcOf[a]
      BY <1>t
    <3>2. /\ reading[p] = Free /\ UNCHANGED <<row, reading, excused>>
          /\ cache' = [cache EXCEPT ![p].left = 0]
      BY <2>8, <3>1 DEF DropCache, MayDrop, history
    <3>3. op'[a] = NoOp /\ \A b \in Admins \ {a} : op'[b] = op[b]
      BY <1>t, <2>8 DEF DropCache, Done
    <3>4. \A q \in Procs : q # p => cache'[q] = cache[q] /\ (Applying(q) => Applying(q)')
      BY <1>t, <3>1, <3>2, <3>3 DEF Applying
    <3>5. EffectiveKeys' = EffectiveKeys
      BY <3>2, EffectiveSame
    <3>6. DOMAIN cache' = Procs /\ cache'[p].left = 0 /\ {"key", "left"} \subseteq DOMAIN cache'[p]
      BY <1>i, <1>t, <3>2 DEF CacheTypes
    <3>7. CacheTypes'
      BY <1>i, <3>2, <3>4, <3>6 DEF CacheTypes
    <3>8. \A q \in Procs : ReadFits(q)'
      BY <3>2, <3>4, <3>5 DEF FreshInv, ReadFits
    <3>9. ASSUME NEW q \in Procs, cache'[q].left > excused'[q], ~ Applying(q)'
          PROVE  cache'[q].key \in EffectiveKeys'
      <4>1. q # p
        BY <1>i, <3>2, <3>6, <3>9 DEF CacheTypes
      <4> QED
        BY <3>2, <3>4, <3>5, <3>9, <4>1 DEF FreshInv, FreshKey
    <3> QED
      BY <1>i, <3>7, <3>8, <3>9 DEF FreshInv, FreshKey
  <2> QED
    BY <1>6, <2>1, <2>2, <2>3, <2>4, <2>5, <2>6, <2>7, <2>8 DEF AdminStep
<1>u. ASSUME UNCHANGED <<row, op>>
      PROVE  EffectiveKeys' = EffectiveKeys /\ \A p : Applying(p)' <=> Applying(p)
  BY <1>u, EffectiveSame DEF Applying
<1>7. ASSUME NEW p \in Procs, ReadKey(p) PROVE FreshInv'
  <2>1. UNCHANGED <<row, op, cache>> /\ DOMAIN reading' = Procs
    BY <1>7, <1>t DEF ReadKey
  <2>2. \A q \in Procs \ {p} : reading'[q] = reading[q]
    BY <1>7, <1>t DEF ReadKey
  <2>3. DOMAIN excused' = Procs /\ \A q \in Procs : excused'[q] \in {excused[q], TTL}
    BY <1>7, <1>t, <1>x DEF ReadKey
  <2>4. reading'[p] \in EffectiveKeys \/ excused'[p] = TTL
    BY <1>7, <1>t, <1>x DEF ReadKey
  <2>5. CacheTypes'
    BY <1>i, <2>1, <2>3, <2>1 DEF CacheTypes
  <2>6. \A q \in Procs : ReadFits(q)'
    BY <1>u, <2>1, <2>2, <2>3, <2>4 DEF FreshInv, ReadFits
  <2>7. FreshKey'
    <3>1. ASSUME NEW q \in Procs, cache'[q].left > excused'[q], ~ Applying(q)'
          PROVE  cache'[q].key \in EffectiveKeys'
      <4>1. excused'[q] = excused[q]
        BY <1>i, <2>1, <2>3, <3>1 DEF CacheTypes
      <4> QED
        BY <1>u, <2>1, <3>1, <4>1 DEF FreshInv, FreshKey
    <3> QED
      BY <3>1 DEF FreshKey
  <2> QED
    BY <1>i, <2>5, <2>6, <2>7 DEF FreshInv
<1>8. ASSUME NEW p \in Procs, StoreKey(p) PROVE FreshInv'
  <2>1. UNCHANGED <<row, op, excused>> /\ DOMAIN reading' = Procs /\ DOMAIN cache' = Procs
    BY <1>8, <1>t DEF StoreKey, history
  <2>2. \A q \in Procs \ {p} : reading'[q] = reading[q] /\ cache'[q] = cache[q]
    BY <1>8, <1>t DEF StoreKey
  <2>3. cache'[p] = [key |-> reading[p], left |-> TTL] /\ reading'[p] = Free /\ reading[p] # Free
    BY <1>8, <1>t DEF StoreKey
  <2>4. cache'[p].key = reading[p] /\ cache'[p].left = TTL /\ DOMAIN cache'[p] = {"key", "left"}
    BY <2>3
  <2>5. CacheTypes'
    BY <1>i, <2>1, <2>2, <2>4 DEF CacheTypes
  <2>6. \A q \in Procs : ReadFits(q)'
    BY <1>u, <2>1, <2>2, <2>3 DEF FreshInv, ReadFits
  <2>7. FreshKey'
    <3>1. ASSUME NEW q \in Procs, cache'[q].left > excused'[q], ~ Applying(q)'
          PROVE  cache'[q].key \in EffectiveKeys'
      <4>1. CASE q = p
        <5>1. excused[p] # TTL
          BY <1>i, <2>1, <2>4, <3>1, <4>1
        <5> QED
          BY <1>u, <2>1, <2>3, <2>4, <3>1, <4>1, <5>1 DEF FreshInv, ReadFits
      <4>2. CASE q # p
        BY <1>u, <2>1, <2>2, <3>1, <4>2 DEF FreshInv, FreshKey
      <4> QED
        BY <4>1, <4>2
    <3> QED
      BY <3>1 DEF FreshKey
  <2> QED
    BY <1>i, <2>5, <2>6, <2>7 DEF FreshInv
<1>9. CASE Tick
  <2>1. UNCHANGED <<row, op, reading>> /\ \A p \in Procs : reading[p] = Free
    BY <1>9 DEF Tick
  <2>2. /\ DOMAIN cache' = Procs /\ DOMAIN excused' = Procs
        /\ \A p \in Procs : /\ cache'[p] = [cache[p] EXCEPT !.left = Pred(cache[p].left)]
                            /\ excused'[p] = Pred(excused[p])
    BY <1>9 DEF Tick
  <2>3. \A p \in Procs : /\ cache'[p].left = Pred(cache[p].left) /\ cache'[p].key = cache[p].key
                         /\ DOMAIN cache'[p] = DOMAIN cache[p]
    BY <1>i, <2>2 DEF CacheTypes
  <2>4. \A n, m \in Nat : /\ Pred(n) \in Nat /\ (n <= TTL => Pred(n) <= TTL)
                          /\ Pred(n) > Pred(m) => n > m
    BY <1>i DEF Pred
  <2>5. CacheTypes'
    <3>1. ASSUME NEW p \in Procs
          PROVE  /\ {"key", "left"} \subseteq DOMAIN cache'[p]
                 /\ cache'[p].left \in Nat /\ cache'[p].left <= TTL
                 /\ excused'[p] \in Nat /\ excused'[p] <= TTL
      BY <1>i, <2>2, <2>3, <2>4 DEF CacheTypes
    <3> QED
      BY <1>t, <2>1, <2>2, <3>1 DEF CacheTypes
  <2>6. ASSUME NEW p \in Procs, cache'[p].left > excused'[p], ~ Applying(p)'
        PROVE  cache'[p].key \in EffectiveKeys'
    <3>1. cache[p].left > excused[p]
      BY <1>i, <2>2, <2>3, <2>4, <2>6 DEF CacheTypes
    <3> QED
      BY <1>u, <2>1, <2>3, <2>6, <3>1 DEF FreshInv, FreshKey
  <2>7. \A p \in Procs : ReadFits(p)'
    BY <2>1 DEF ReadFits
  <2> QED
    BY <1>i, <2>5, <2>6, <2>7 DEF FreshInv, FreshKey
<1>m. ASSUME UNCHANGED <<row, op, cache, reading, excused>> PROVE FreshInv'
  <2>1. FreshKey' /\ \A p \in Procs : ReadFits(p)'
    BY <1>m, <1>u DEF FreshInv, FreshKey, ReadFits
  <2>2. CacheTypes'
    BY <1>m, <1>i DEF CacheTypes
  <2> QED
    BY <1>i, <2>1, <2>2 DEF FreshInv
<1>n. ASSUME MailStep PROVE UNCHANGED <<row, op, cache, reading, excused>>
  BY <1>n DEF MailStep, StartMail, Dial, Authenticate, Rcpt, Data, Quit, Forget, Say, Refuse, history
<1> QED
  BY <1>5, <1>6, <1>7, <1>8, <1>9, <1>m, <1>n DEF SettingsNext, settingsVars, use, history

\* A key in a process's cache is one that a read of the table would return, within TTL ticks
\* of a change, and at once in the process that served it (httpapi/llmkeys.go,
\* ResolveLLMKey and invalidateLLMCache): a read that is under way when the cache is dropped
\* is waited for, because of the mutex.
THEOREM CachedKeysAreFresh == SettingsSpec => []FreshKey
<1>1. SettingsInit => FreshInv
  BY FreshStart
<1>2. FreshInv /\ [SettingsNext]_settingsVars => FreshInv'
  BY FreshStep
<1>3. FreshInv => FreshKey
  BY DEF FreshInv
<1> QED
  BY <1>1, <1>2, <1>3, PTL DEF SettingsSpec

-----------------------------------------------------------------------------
(* One active row *)

Sole(t) == \A r, s \in t : row[r].active /\ row[s].active => r = s

\* The activation has its own row: its commit makes it active.
Owner(a) == op[a].at = "own" /\ op[a].row \in op[a].locks

\* An activation has taken, or will take, the rows that it must make inactive: the
\* connectors that are active, all the other keys until it has its own row ...
TakenFits(a) ==
    /\ op[a].at \in {"clear", "own"} /\ op[a].row \in Connectors /\ Connectors \notin raced =>
          \A c \in Connectors \ {op[a].row} : row[c].active => c \in op[a].todo \cup op[a].locks
    /\ op[a].at = "clear" /\ op[a].row \in Keys /\ Keys \notin raced =>
          \A k \in Keys \ {op[a].row} : Exists(k) => k \in op[a].todo \cup op[a].locks
    /\ Owner(a) /\ op[a].row \in Keys /\ Keys \notin raced =>
          \A k \in Keys \ {op[a].row} : row[k].active => k \in op[a].locks

\* ... and no other makes a row of that table active.
AloneFits(a, b) ==
    Activating(a) /\ Activating(b) =>
       /\ op[a].row \in Connectors /\ op[b].row \in Connectors => Connectors \in raced
       /\ op[a].row \in Keys /\ op[b].row \in Keys /\ Keys \notin raced => ~ (Owner(a) /\ Owner(b))

SoleInv ==
    /\ TablesInv
    /\ Connectors \notin raced => Sole(Connectors)
    /\ Keys \notin raced => Sole(Keys)
    /\ \A a \in Admins : TakenFits(a) /\ \A b \in Admins \ {a} : AloneFits(a, b)

LEMMA SoleStart == ASSUME SettingsInit PROVE SoleInv
<1>1. \A a \in Admins : op[a].at = "idle"
  BY NoOpIs DEF SettingsInit
<1>2. \A a \in Admins : TakenFits(a) /\ \A b \in Admins \ {a} : AloneFits(a, b)
  BY <1>1 DEF TakenFits, AloneFits, Activating, Owner
<1>3. \A r, t \in Rows : row[r].active /\ row[t].active /\ Table(r) = Table(t) => r = t
  BY SettingsAssumption DEF SettingsInit
<1>4. Sole(Connectors) /\ Sole(Keys)
  BY <1>3, TablesDiffer DEF Sole
<1> QED
  BY <1>2, <1>4, TablesStart DEF SoleInv

LEMMA SoleIsSoleActive == ASSUME SoleInv PROVE SoleActive
<1>1. ASSUME NEW t, Sole(t) PROVE Cardinality({r \in t : row[r].active}) <= 1
  <2>1. CASE {r \in t : row[r].active} = {}
    BY <2>1, FS_EmptySet
  <2>2. CASE {r \in t : row[r].active} # {}
    <3>1. PICK r \in t : {s \in t : row[s].active} = {r}
      BY <1>1, <2>2 DEF Sole
    <3>2. Cardinality({r}) = 1
      BY FS_Singleton
    <3> QED
      BY <3>1, <3>2
  <2> QED
    BY <2>1, <2>2
<1> QED
  BY <1>1 DEF SoleInv, SoleActive

\* Steps of one administrator that make no row active.
LEMMA SoleKept ==
    ASSUME SoleInv, TablesInv', NEW a \in Admins, \A b \in Admins \ {a} : op'[b] = op[b],
           raced \subseteq raced',
           \A r \in Rows : row'[r].active => row[r].active,
           \/ \A k \in Keys : Exists(k)' => Exists(k)
           \/ Beside(a, {"clear"}, Keys) => Keys \in raced',
           TakenFits(a)', \A b \in Admins \ {a} : AloneFits(a, b)'
    PROVE  SoleInv'
<1>1. (Connectors \notin raced' => Sole(Connectors)') /\ (Keys \notin raced' => Sole(Keys)')
  BY TablesDiffer DEF SoleInv, Sole
<1>2. ASSUME NEW b \in Admins \ {a} PROVE TakenFits(b)'
  <2>1. op'[b] = op[b] /\ TakenFits(b)
    BY DEF SoleInv
  <2>2. op[b].at = "clear" /\ op[b].row \in Keys => Beside(a, {"clear"}, Keys)
    BY DEF Beside
  <2> QED
    BY <2>1, <2>2, TablesDiffer DEF TakenFits, Owner
<1>3. ASSUME NEW b \in Admins, NEW c \in Admins \ {b} PROVE AloneFits(b, c)'
  <2>1. CASE b = a
    BY <2>1
  <2>2. CASE c = a
    BY <2>2 DEF AloneFits
  <2>3. CASE b # a /\ c # a
    <3>1. op'[b] = op[b] /\ op'[c] = op[c] /\ AloneFits(b, c)
      BY <2>3 DEF SoleInv
    <3> QED
      BY <3>1 DEF AloneFits, Activating, Owner
  <2> QED
    BY <2>1, <2>2, <2>3
<1> QED
  BY <1>1, <1>2, <1>3 DEF SoleInv

LEMMA SoleStep == ASSUME SoleInv, [SettingsNext]_settingsVars PROVE SoleInv'
<1>i. TablesInv' /\ TablesInv
  BY TablesStep DEF SoleInv
<1>t. /\ DOMAIN row = Rows /\ \A r \in Rows : IsRow(row[r])
      /\ DOMAIN op = Admins /\ \A a \in Admins : IsOp(op[a])
  BY <1>i DEF TablesInv
\* The call is not an activation afterwards.
<1>s. ASSUME NEW a \in Admins, \A b \in Admins \ {a} : op'[b] = op[b],
             op'[a].at \notin {"begin", "clear", "own"}, raced \subseteq raced',
             \A r \in Rows : row'[r].active => row[r].active,
             \/ \A k \in Keys : Exists(k)' => Exists(k)
             \/ Beside(a, {"clear"}, Keys) => Keys \in raced'
      PROVE  SoleInv'
  <2>1. TakenFits(a)' /\ \A b \in Admins \ {a} : AloneFits(a, b)'
    BY <1>s DEF TakenFits, AloneFits, Activating, Owner
  <2> QED
    BY <1>i, <1>s, <2>1, SoleKept
<1>n. ASSUME UNCHANGED row
      PROVE  (\A r \in Rows : row'[r].active => row[r].active) /\ \A k \in Keys : Exists(k)' => Exists(k)
  BY <1>n DEF Exists
<1>d. ASSUME NEW a \in Admins, Done(a)
      PROVE  op'[a].at \notin {"begin", "clear", "own"} /\ \A b \in Admins \ {a} : op'[b] = op[b]
  BY <1>d, <1>t, NoOpIs DEF Done
<1>g. ASSUME NEW a \in Admins, Goto(a, "drop"), op[a].at \in {"reread", "test"}
      PROVE  op'[a].at \notin {"begin", "clear", "own"} /\ \A b \in Admins \ {a} : op'[b] = op[b]
  <2>1. "at" \in DOMAIN op[a]
    BY <1>g, <1>t, NoOpIs DEF IsOp
  <2> QED
    BY <1>g, <1>t, <2>1 DEF Goto
<1>1. ASSUME NEW a \in Admins, NEW r \in Rows, Activate(a, r) PROVE SoleInv'
  <2>1. PICK x : x = [at |-> "begin", row |-> r, todo |-> {}, locks |-> {}]
    OBVIOUS
  <2>2. x.at = "begin" /\ x.row = r
    BY <2>1
  <2>3. op'[a] = x /\ (\A b \in Admins \ {a} : op'[b] = op[b]) /\ UNCHANGED row /\ raced \subseteq raced'
    BY <1>1, <1>t, <2>1 DEF Activate, Raced
  <2>4. TakenFits(a)'
    BY <2>2, <2>3 DEF TakenFits, Owner
  <2>5. ASSUME NEW b \in Admins \ {a} PROVE AloneFits(a, b)'
    <3>1. ~ Owner(a)' /\ op'[a].row = r /\ op'[b] = op[b]
      BY <2>2, <2>3 DEF Owner
    <3>2. r \in Connectors /\ op[b].at \in {"begin", "clear", "own"} /\ op[b].row \in Connectors =>
             Connectors \in raced'
      BY <1>1 DEF Activate, Raced, Beside
    <3> QED
      BY <3>1, <3>2 DEF AloneFits, Activating
  <2> QED
    BY <1>i, <1>n, <2>3, <2>4, <2>5, SoleKept
<1>2. ASSUME NEW a \in Admins, NEW r \in Rows, NEW conf, Create(a, r, conf) PROVE SoleInv'
  <2>1. PICK n : n = NewRow(conf)
    OBVIOUS
  <2>2. ~ n.active
    BY <2>1, RowsFit
  <2>3. PICK x : x = Testing(r, n)
    OBVIOUS
  <2>4. x.at = "test"
    BY <2>3 DEF Testing
  <2>5. /\ row'[r] = n /\ \A t \in Rows \ {r} : row'[t] = row[t]
        /\ op'[a] = x /\ \A b \in Admins \ {a} : op'[b] = op[b]
    BY <1>2, <1>t, <2>1, <2>3 DEF Create
  <2>6. raced \subseteq raced' /\ (r \in Keys /\ Beside(a, {"clear"}, Keys) => Keys \in raced')
    BY <1>2 DEF Create, Raced
  <2>7. r \notin Keys => \A k \in Keys : Exists(k)' => Exists(k)
    BY <2>5, TablesDiffer DEF Exists
  <2> QED
    BY <1>s, <2>2, <2>4, <2>5, <2>6, <2>7
<1>3. ASSUME NEW a \in Admins, NEW r \in Rows, Load(a, r) PROVE SoleInv'
  <2>1. PICK x : x = Testing(r, row[r])
    OBVIOUS
  <2>2. x.at = "test"
    BY <2>1 DEF Testing
  <2>3. op'[a] = x /\ (\A b \in Admins \ {a} : op'[b] = op[b]) /\ UNCHANGED <<row, raced>>
    BY <1>3, <1>t, <2>1 DEF Load, history
  <2> QED
    BY <1>n, <1>s, <2>2, <2>3
<1>4. ASSUME NEW a \in Admins, NEW r \in Rows, Delete(a, r),
             op'[a].at \notin {"begin", "clear", "own"}, \A b \in Admins \ {a} : op'[b] = op[b]
      PROVE  SoleInv'
  <2>1. row'[r] = Deleted /\ (\A t \in Rows \ {r} : row'[t] = row[t]) /\ UNCHANGED raced
    BY <1>4, <1>t DEF Delete
  <2>2. ~ Deleted.active /\ ~ Deleted.there
    BY RowsFit
  <2>3. \A k \in Keys : Exists(k)' => Exists(k)
    BY <2>1, <2>2, TablesDiffer DEF Exists
  <2> QED
    BY <1>4, <1>s, <2>1, <2>2, <2>3
<1>5. ASSUME NEW a \in Admins, AdminCall(a) PROVE SoleInv'
  <2>1. ASSUME NEW c \in Connectors, DeleteEmailConnector(a, c) PROVE SoleInv'
    <3>1. op[a] = NoOp /\ UNCHANGED op
      BY <2>1 DEF DeleteEmailConnector, Delete, Idle
    <3> QED
      BY <1>4, <2>1, <3>1, NoOpIs, TablesDiffer DEF DeleteEmailConnector
  <2>2. ASSUME NEW k \in Keys, DeleteLLMKey(a, k) PROVE SoleInv'
    <3>1. PICK x : x = [at |-> "drop", row |-> k]
      OBVIOUS
    <3>2. x.at = "drop"
      BY <3>1
    <3>3. op'[a] = x /\ \A b \in Admins \ {a} : op'[b] = op[b]
      BY <1>t, <2>2, <3>1 DEF DeleteLLMKey
    <3> QED
      BY <1>4, <2>2, <3>2, <3>3, TablesDiffer DEF DeleteLLMKey
  <2>3. ASSUME NEW c \in Connectors, NEW form \in Edits, UpdateEmailConnector(a, c, form)
        PROVE  SoleInv'
    <3>1. c \in Rows /\ op[a] = NoOp /\ UNCHANGED <<op, raced>> /\ IsRow(row[c])
      BY <1>t, <2>3, TablesDiffer DEF UpdateEmailConnector, Idle, history
    <3>2. PICK conf, enabled : row' = [row EXCEPT ![c] = [row[c] EXCEPT !.conf = conf, !.enabled = enabled,
                                          !.status = "UNTESTED"]]
      BY <2>3 DEF UpdateEmailConnector, Edited
    <3>3. PICK x : x = [row[c] EXCEPT !.conf = conf, !.enabled = enabled,
                                      !.status = "UNTESTED"]
      OBVIOUS
    <3>4. x.active = row[c].active
      BY <3>3
    <3>5. row'[c] = x /\ \A t \in Rows \ {c} : row'[t] = row[t]
      BY <1>t, <3>1, <3>2, <3>3
    <3>6. \A k \in Keys : Exists(k)' => Exists(k)
      BY <2>3, <3>5, TablesDiffer DEF Exists
    <3> QED
      BY <1>s, <3>1, <3>4, <3>5, <3>6, NoOpIs
  <2> QED
    BY <1>1, <1>2, <1>3, <1>5, <2>1, <2>2, <2>3, TablesDiffer
       DEF AdminCall, SetActiveEmailConnector, SetActiveLLMKey, CreateEmailConnector, CreateLLMKey,
           TestEmailConnector, TestLLMKey
<1>6. ASSUME NEW a \in Admins, AdminStep(a) PROVE SoleInv'
  <2>t. DOMAIN op = Admins /\ IsOp(op[a])
    BY <1>t
  <2>c. Activating(a) => /\ {"at", "row", "todo", "locks"} \subseteq DOMAIN op[a] /\ op[a].row \in Rows
                         /\ op[a].todo \subseteq Table(op[a].row) /\ op[a].locks \subseteq Table(op[a].row)
                         /\ op[a].at = "own" => op[a].todo = {}
                         /\ LockedBy(a) = IF op[a].at \in {"clear", "own"} THEN op[a].locks ELSE {}
    BY <2>t, HeldBy, NoOpIs DEF IsOp, Activating
  \* An activation that goes on, and does not have its own row yet.
  <2>a. ASSUME Activating(a), Activating(a)', op'[a].row = op[a].row, ~ Owner(a)',
               \A b \in Admins \ {a} : op'[b] = op[b], UNCHANGED raced
        PROVE  \A b \in Admins \ {a} : AloneFits(a, b)'
    <3>1. ASSUME NEW b \in Admins \ {a} PROVE AloneFits(a, b)'
      <4>1. AloneFits(a, b) /\ op'[b] = op[b] /\ (Activating(b)' => Activating(b))
        BY <2>a DEF SoleInv, Activating
      <4> QED
        BY <2>a, <4>1 DEF AloneFits
    <3> QED
      BY <3>1
  <2>1. CASE BeginClear(a)
    <3>1. PICK r \in Rows : r = op[a].row
      BY <2>c, <2>1 DEF BeginClear, Activating
    <3>2. Activating(a)
      BY <2>1 DEF BeginClear, Activating
    <3>3. /\ op'[a].at = "clear" /\ op'[a].row = r /\ op'[a].todo = ToClear(r)
          /\ \A b \in Admins \ {a} : op'[b] = op[b]
      BY <2>t, <2>c, <2>1, <3>1, <3>2 DEF BeginClear
    <3>4. UNCHANGED <<row, raced>>
      BY <2>1 DEF BeginClear, history
    <3>5. TakenFits(a)'
      <4>1. r \in Keys => \A k \in Keys \ {r} : row'[k].there => k \in ToClear(r)
        BY <3>4 DEF ToClear, KeysToClear, Exists
      <4>2. r \in Connectors => \A c \in Connectors \ {r} : row'[c].active => c \in ToClear(r)
        <5>1. ASSUME r \in Connectors, NEW c \in Connectors \ {r}, row'[c].active PROVE c \in ToClear(r)
          <6>1. row[c].active /\ row[c].there
            BY <1>t, <3>4, <5>1, TablesDiffer DEF IsRow
          <6> QED
            BY <5>1, <6>1, TablesDiffer DEF ToClear, ConnectorsToClear, Exists
        <5> QED
          BY <5>1
      <4> QED
        BY <3>3, <4>1, <4>2 DEF TakenFits, Owner, Exists
    <3>6. Activating(a)' /\ ~ Owner(a)'
      BY <3>3 DEF Activating, Owner
    <3> QED
      BY <1>i, <1>n, <2>a, <3>1, <3>2, <3>3, <3>4, <3>5, <3>6, SoleKept
  <2>2. ASSUME NEW t \in Rows, ClearRow(a, t) PROVE SoleInv'
    <3>1. Activating(a) /\ op[a].at = "clear"
      BY <2>2 DEF ClearRow, Activating
    <3>2. /\ op'[a].at = "clear" /\ op'[a].row = op[a].row /\ op'[a].todo = op[a].todo \ {t}
          /\ op'[a].locks = IF Exists(t) THEN op[a].locks \cup {t} ELSE op[a].locks
          /\ \A b \in Admins \ {a} : op'[b] = op[b]
      BY <2>t, <2>c, <2>2, <3>1 DEF ClearRow
    <3>3. UNCHANGED <<row, raced>>
      BY <2>2 DEF ClearRow, history
    <3>4. row[t].active => Exists(t)
      BY <1>t DEF IsRow, Exists
    <3>5. TakenFits(a)
      BY DEF SoleInv
    <3>6. TakenFits(a)'
      BY <3>1, <3>2, <3>3, <3>4, <3>5 DEF TakenFits, Owner, Exists
    <3>7. Activating(a)' /\ ~ Owner(a)'
      BY <3>2 DEF Activating, Owner
    <3> QED
      BY <1>i, <1>n, <2>a, <3>1, <3>2, <3>3, <3>6, <3>7, SoleKept
  <2>3. CASE SetOwn(a)
    <3>1. Activating(a) /\ op[a].at = "clear" /\ op[a].todo = {} /\ ~ Locked(a, op[a].row)
      BY <2>3 DEF SetOwn, Activating
    <3>2. PICK r \in Rows : r = op[a].row
      BY <2>c, <3>1
    <3>3. /\ op'[a].at = "own" /\ op'[a].row = r /\ op'[a].todo = {}
          /\ op'[a].locks = IF Exists(r) THEN op[a].locks \cup {r} ELSE op[a].locks
          /\ \A b \in Admins \ {a} : op'[b] = op[b]
      BY <2>t, <2>c, <2>3, <3>1, <3>2 DEF SetOwn
    <3>4. UNCHANGED <<row, raced>>
      BY <2>3 DEF SetOwn, history
    <3>5. TakenFits(a) /\ \A k \in Rows : row[k].active => Exists(k)
      BY <1>t DEF SoleInv, IsRow, Exists
    <3>6. TakenFits(a)'
      BY <3>1, <3>2, <3>3, <3>4, <3>5, TablesDiffer DEF TakenFits, Owner, Exists
    <3>7. ASSUME NEW b \in Admins \ {a} PROVE AloneFits(a, b)'
      <4>1. AloneFits(a, b) /\ op'[b] = op[b] /\ (Activating(b)' => Activating(b)) /\ (Owner(b)' => Owner(b))
        BY <3>3 DEF SoleInv, Activating, Owner
      <4>2. ASSUME r \in Keys, op[b].row \in Keys, Keys \notin raced, Owner(b) PROVE FALSE
        <5>1. op[b].row \in LockedBy(b)
          BY <4>2 DEF Owner, LockedBy
        <5>2. Exists(op[b].row) /\ op[b].row \notin LockedBy(a)
          BY <1>i, <5>1 DEF TablesInv, LocksFit
        <5>3. op[b].row # r
          BY <3>1, <3>2, <5>1 DEF Locked
        <5>4. op[b].row \in op[a].locks
          BY <3>1, <3>2, <3>5, <4>2, <5>2, <5>3 DEF TakenFits
        <5> QED
          BY <2>c, <3>1, <5>2, <5>4
      <4> QED
        BY <3>1, <3>2, <3>3, <3>4, <4>1, <4>2 DEF AloneFits
    <3> QED
      BY <1>i, <1>n, <3>3, <3>4, <3>6, <3>7, SoleKept
  <2>4. CASE Commit(a)
    <3>1. Activating(a) /\ op[a].at = "own" /\ op[a].todo = {}
      BY <2>c, <2>4 DEF Commit, Activating
    <3>2. PICK r \in Rows : r = op[a].row
      BY <2>c, <3>1
    <3>3. op'[a].at = "reread" /\ (\A b \in Admins \ {a} : op'[b] = op[b]) /\ UNCHANGED raced
      BY <2>t, <2>4 DEF Commit
    <3>4. ASSUME NEW t \in Rows
          PROVE  /\ t \notin op[a].locks => row'[t] = row[t]
                 /\ t \in op[a].locks => (row'[t].active <=> t = r)
                 /\ Exists(t)' <=> Exists(t)
      <4>1. row'[t] = IF t \notin op[a].locks THEN row[t]
                      ELSE [row[t] EXCEPT !.active = (t = r), !.enabled = @ \/ t = r]
        BY <2>4, <3>2 DEF Commit
      <4>2. CASE t \in op[a].locks
        <5>1. PICK own, enabled : /\ own <=> t = r
                                  /\ row'[t] = [row[t] EXCEPT !.active = own, !.enabled = enabled]
          BY <4>1, <4>2
        <5> QED
          BY <1>t, <4>2, <5>1 DEF IsRow, Exists
      <4> QED
        BY <4>1, <4>2 DEF Exists
    <3>5. \A k \in Keys : Exists(k)' => Exists(k)
      BY <3>4, TablesDiffer
    <3>6. CASE ~ Owner(a)
      <4>1. \A t \in Rows : row'[t].active => row[t].active
        BY <3>1, <3>2, <3>4, <3>6 DEF Owner
      <4> QED
        BY <1>s, <3>3, <3>5, <4>1
    <3>7. CASE Owner(a)
      <4>1. op[a].locks \subseteq Table(r) /\ TakenFits(a)
        BY <2>c, <3>1, <3>2 DEF SoleInv
      \* In its table the row is the only active one; the other table is as it was.
      <4>2. Connectors \notin raced' => Sole(Connectors)'
        <5>1. CASE r \in Connectors
          BY <3>1, <3>2, <3>3, <3>4, <3>7, <4>1, <5>1, TablesDiffer DEF TakenFits, Owner, Sole
        <5>2. CASE r \in Keys
          BY <3>3, <3>4, <4>1, <5>2, TablesDiffer, SettingsAssumption DEF SoleInv, Sole
        <5> QED
          BY <5>1, <5>2 DEF Rows
      <4>3. Keys \notin raced' => Sole(Keys)'
        <5>1. CASE r \in Keys
          BY <3>1, <3>2, <3>3, <3>4, <3>7, <4>1, <5>1, TablesDiffer DEF TakenFits, Owner, Sole
        <5>2. CASE r \in Connectors
          BY <3>3, <3>4, <4>1, <5>2, TablesDiffer, SettingsAssumption DEF SoleInv, Sole
        <5> QED
          BY <5>1, <5>2 DEF Rows
      <4>4. ASSUME NEW b \in Admins \ {a} PROVE TakenFits(b)'
        <5>1. op'[b] = op[b] /\ TakenFits(b) /\ AloneFits(a, b)
          BY <3>3 DEF SoleInv
        <5>2. ASSUME op[b].at \in {"clear", "own"}, op[b].row \in Connectors, Connectors \notin raced,
                     NEW c \in Connectors \ {op[b].row}, row'[c].active
              PROVE  c \in op[b].todo \cup op[b].locks
          <6>1. r \notin Connectors
            BY <3>1, <3>2, <5>1, <5>2 DEF AloneFits, Activating
          <6>2. row'[c] = row[c]
            BY <3>4, <4>1, <6>1, TablesDiffer, SettingsAssumption DEF Rows
          <6> QED
            BY <5>1, <5>2, <6>2 DEF TakenFits
        <5>3. ASSUME op[b].at = "clear", op[b].row \in Keys, Keys \notin raced,
                     NEW k \in Keys \ {op[b].row}, Exists(k)'
              PROVE  k \in op[b].todo \cup op[b].locks
          BY <3>5, <5>1, <5>3 DEF TakenFits
        <5>4. ASSUME Owner(b), op[b].row \in Keys, Keys \notin raced,
                     NEW k \in Keys \ {op[b].row}, row'[k].active
              PROVE  k \in op[b].locks
          <6>1. r \notin Keys
            BY <3>1, <3>2, <3>7, <5>1, <5>4 DEF AloneFits, Activating, Owner
          <6>2. row'[k] = row[k]
            BY <3>4, <4>1, <6>1, TablesDiffer, SettingsAssumption DEF Rows
          <6> QED
            BY <5>1, <5>4, <6>2 DEF TakenFits
        <5> QED
          BY <3>3, <5>1, <5>2, <5>3, <5>4 DEF TakenFits, Owner
      <4>5. ASSUME NEW b \in Admins, NEW c \in Admins \ {b} PROVE AloneFits(b, c)'
        <5>1. CASE b = a \/ c = a
          BY <3>3, <5>1 DEF AloneFits, Activating
        <5>2. CASE b # a /\ c # a
          <6>1. op'[b] = op[b] /\ op'[c] = op[c] /\ AloneFits(b, c)
            BY <3>3, <5>2 DEF SoleInv
          <6> QED
            BY <3>3, <6>1 DEF AloneFits, Activating, Owner
        <5> QED
          BY <5>1, <5>2
      <4>6. TakenFits(a)'
        BY <3>3 DEF TakenFits, Owner
      <4> QED
        BY <1>i, <4>2, <4>3, <4>4, <4>5, <4>6 DEF SoleInv
    <3> QED
      BY <3>6, <3>7
  <2>5. CASE Rollback(a)
    BY <1>d, <1>n, <1>s, <2>5 DEF Rollback, history
  <2>6. CASE Reread(a)
    BY <1>d, <1>g, <1>n, <1>s, <2>6 DEF Reread
  <2>7. CASE WriteStatus(a)
    <3>1. op[a].at = "test" /\ UNCHANGED raced
      BY <2>7 DEF WriteStatus, history
    <3>2. op'[a].at \notin {"begin", "clear", "own"} /\ \A b \in Admins \ {a} : op'[b] = op[b]
      BY <1>d, <1>g, <2>7 DEF WriteStatus
    <3>3. PICK r \in Rows : r = op[a].row
      BY <2>t, <3>1, NoOpIs DEF IsOp
    <3>4. ASSUME NEW v, row' = [row EXCEPT ![r].status = v], NEW t \in Rows
          PROVE  row'[t].active = row[t].active /\ row'[t].there = row[t].there
      <4>1. t # r => row'[t] = row[t]
        BY <1>t, <3>4
      <4>2. row'[r] = [row[r] EXCEPT !.status = v]
        BY <1>t, <3>4
      <4>3. row'[r].active = row[r].active /\ row'[r].there = row[r].there
        BY <1>t, <4>2 DEF IsRow
      <4> QED
        BY <4>1, <4>3
    <3>5. \A t \in Rows : row'[t].active = row[t].active /\ row'[t].there = row[t].there
      BY <2>7, <3>3, <3>4 DEF WriteStatus
    <3> QED
      BY <1>s, <3>1, <3>2, <3>5, TablesDiffer DEF Exists
  <2>8. CASE DropCache(a)
    BY <1>d, <1>n, <1>s, <2>8 DEF DropCache, history
  <2> QED
    BY <1>6, <2>1, <2>2, <2>3, <2>4, <2>5, <2>6, <2>7, <2>8 DEF AdminStep
<1>7. ASSUME UNCHANGED <<row, op, raced>> PROVE SoleInv'
  BY <1>7, <1>i DEF SoleInv, Sole, TakenFits, AloneFits, Activating, Owner, Exists
<1>8. ASSUME MailStep PROVE UNCHANGED <<row, op, raced>>
  BY <1>8 DEF MailStep, StartMail, Dial, Authenticate, Rcpt, Data, Quit, Forget, Say, Refuse, history
<1> QED
  BY <1>5, <1>6, <1>7, <1>8 DEF SettingsNext, ReadKey, StoreKey, Tick, settingsVars, history

\* At most one key is active, however many activations run at once, unless a key was created
\* while one held its list of rows; and at most one connector, unless two activations of
\* connectors overlapped (db/llmkeys.go, SetActiveLLMKey; db/connectors.go,
\* SetActiveEmailConnector).
THEOREM OneActiveRow == SettingsSpec => []SoleActive
<1>1. SettingsInit => SoleInv
  BY SoleStart
<1>2. SoleInv /\ [SettingsNext]_settingsVars => SoleInv'
  BY SoleStep
<1>3. SoleInv => SoleActive
  BY SoleIsSoleActive
<1> QED
  BY <1>1, <1>2, <1>3, PTL DEF SettingsSpec
=============================================================================
