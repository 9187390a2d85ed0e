------------------------- MODULE SourceHealthProofs -------------------------
(* The spacing of requests to a host, the cooldown of a source, the log of  *)
(* its checks and the singleton key of its fetches, for any number of       *)
(* sources, hosts, processes, workers and operators, and any interval.      *)
EXTENDS SourceHealth, FiniteSetTheorems, SequenceTheorems, TLAPS

Waits(w) == run[w] # Idle /\ run[w].at = "wait"
HostAt(w) == HostOf[run[w].src]
\* The gate that the worker stands at.
Slot(w) == next[ProcOf[w]][HostAt(w)]
SameGate(v, w) == ProcOf[v] = ProcOf[w] /\ HostAt(v) = HostAt(w)

RunType ==
    \A w \in Workers : \/ run[w] = Idle
                       \/ run[w] \in [at : {"wait", "answer"}, src : Sources, by : {run[w].by},
                                         age : Nat, wait : Nat]

GateType ==
    /\ next \in [Procs -> [Hosts -> Nat]] /\ quiet \in [Procs -> [Hosts -> Nat]]
    /\ DOMAIN run = Workers /\ run = [w \in Workers |-> run[w]]
    /\ RunType

\* The next free slot is late enough for the last request and for all who wait.
SlotFree ==
    \A p \in Procs, h \in Hosts : quiet[p][h] + next[p][h] >= Spacing[h]

SlotBehind ==
    \A w \in Workers : Waits(w) =>
        /\ Slot(w) >= run[w].wait + Spacing[HostAt(w)]
        /\ quiet[ProcOf[w]][HostAt(w)] + run[w].wait >= Spacing[HostAt(w)]

\* Those who wait at one gate are an interval apart.
Apart ==
    \A v, w \in Workers : v # w /\ Waits(v) /\ Waits(w) /\ SameGate(v, w) =>
        \/ run[v].wait >= run[w].wait + Spacing[HostAt(w)]
        \/ run[w].wait >= run[v].wait + Spacing[HostAt(w)]

GateInv == GateType /\ SlotFree /\ SlotBehind /\ Apart

LEMMA HostsKnown ==
    ASSUME GateType, NEW w \in Workers, Waits(w)
    PROVE  /\ ProcOf[w] \in Procs /\ HostAt(w) \in Hosts /\ Spacing[HostAt(w)] \in Nat
           /\ run[w].wait \in Nat /\ Slot(w) \in Nat /\ quiet[ProcOf[w]][HostAt(w)] \in Nat
  BY SourceAssumption DEF GateType, RunType, Waits, HostAt, Slot

LEMMA GateStart == SourceInit => GateInv
<1> SUFFICES ASSUME SourceInit PROVE GateInv
  OBVIOUS
<1>1. \A h \in Hosts : Spacing[h] \in Nat
  BY SourceAssumption
<1>2. \A w \in Workers : ~Waits(w)
  BY DEF SourceInit, Waits
<1>3. GateType
  BY <1>1 DEF SourceInit, GateType, RunType
<1>4. SlotFree
  BY <1>1 DEF SourceInit, SlotFree
<1> QED
  BY <1>2, <1>3, <1>4 DEF GateInv, SlotBehind, Apart

\* A worker that leaves the gate, or had left it, changes nothing for the others.
LEMMA GateLeft ==
    ASSUME GateInv, UNCHANGED <<next, quiet>>, NEW w \in Workers,
           run' = [run EXCEPT ![w] = Idle] \/ UNCHANGED run
    PROVE  GateInv'
<1>1. \A v \in Workers : run'[v] = run[v] \/ run'[v] = Idle
  BY DEF GateInv, GateType
<1>2. GateType'
  BY DEF GateInv, GateType, RunType
<1> QED
  BY <1>1, <1>2 DEF GateInv, SlotFree, SlotBehind, Apart, Waits, HostAt, Slot, SameGate

\* StartFetch gives the slot that is next, and moves it by the interval and a jitter.
LEMMA GateClaims ==
    ASSUME GateInv, NEW w \in Workers, NEW s \in Sources, NEW b, NEW j \in Nat, run[w] = Idle, UNCHANGED quiet,
           run' = [run EXCEPT ![w] = [at |-> "wait", src |-> s, by |-> b, age |-> 0, wait |-> Wait(ProcOf[w], HostOf[s])]],
           IF HostOf[s] \in Paced THEN next' = Claimed(ProcOf[w], HostOf[s], j) ELSE UNCHANGED next
    PROVE  GateInv'
<1> DEFINE p == ProcOf[w]
           h == HostOf[s]
           wait == Wait(p, h)
<1>0. /\ p \in Procs /\ h \in Hosts /\ Spacing[h] \in Nat /\ next[p][h] \in Nat
      /\ \A x \in Hosts : Spacing[x] \in Nat
  BY SourceAssumption DEF GateInv, GateType
<1>1. /\ wait \in Nat /\ wait = IF Spacing[h] = 0 THEN 0 ELSE next[p][h]
      /\ next' \in [Procs -> [Hosts -> Nat]]
      /\ next'[p][h] = IF Spacing[h] = 0 THEN next[p][h] ELSE next[p][h] + Spacing[h] + j
      /\ \A q \in Procs, x \in Hosts : next'[q][x] >= next[q][x]
      /\ next'[p][h] >= wait + Spacing[h]
  <2>1. CASE Spacing[h] = 0
    BY <1>0, <2>1 DEF Paced, Wait, GateInv, GateType
  <2>2. CASE Spacing[h] > 0
    <3>1. next' = [next EXCEPT ![p][h] = next[p][h] + Spacing[h] + j]
      BY <1>0, <2>2 DEF Paced, Claimed
    <3>2. next' = [next EXCEPT ![p] = [next[p] EXCEPT ![h] = next[p][h] + Spacing[h] + j]]
      BY <3>1
    <3>3. [next[p] EXCEPT ![h] = next[p][h] + Spacing[h] + j] \in [Hosts -> Nat]
      BY <1>0 DEF GateInv, GateType
    <3>4. next' \in [Procs -> [Hosts -> Nat]] /\ next'[p][h] = next[p][h] + Spacing[h] + j
      BY <1>0, <3>2, <3>3 DEF GateInv, GateType
    <3>5. ASSUME NEW q \in Procs, NEW x \in Hosts PROVE next'[q][x] >= next[q][x]
      <4>1. next[q][x] \in Nat
        BY DEF GateInv, GateType
      <4>2. next'[q][x] = next[q][x] \/ (q = p /\ x = h)
        BY <1>0, <3>2 DEF GateInv, GateType
      <4> QED
        BY <1>0, <3>4, <4>1, <4>2
    <3> QED
      BY <1>0, <2>2, <3>4, <3>5 DEF Wait
  <2> QED
    BY <1>0, <2>1, <2>2
<1>2. run'[w] = [at |-> "wait", src |-> s, by |-> b, age |-> 0, wait |-> wait]
      /\ \A v \in Workers : v # w => run'[v] = run[v]
  BY DEF GateInv, GateType
<1> HIDE DEF wait
<1>3. GateType'
  BY <1>1, <1>2 DEF GateInv, GateType, RunType
<1>4. Waits(w)' /\ HostAt(w)' = h /\ run'[w].wait = wait /\ Slot(w)' = next'[p][h]
  BY <1>2 DEF Waits, HostAt, Slot, Idle
<1>5. \A v \in Workers : v # w => /\ Waits(v)' = Waits(v) /\ HostAt(v)' = HostAt(v)
                                  /\ run'[v].wait = run[v].wait
  BY <1>2 DEF Waits, HostAt
<1>6. SlotFree'
  <2> SUFFICES ASSUME NEW q \in Procs, NEW x \in Hosts
               PROVE  quiet[q][x] + next'[q][x] >= Spacing[x]
    BY DEF SlotFree
  <2>1. next[q][x] \in Nat /\ next'[q][x] \in Nat /\ quiet[q][x] \in Nat
    BY <1>1 DEF GateInv, GateType
  <2> QED
    BY <1>0, <1>1, <2>1 DEF GateInv, SlotFree
<1>7. \A v \in Workers : v # w /\ Waits(v) => Slot(v)' >= Slot(v) /\ Slot(v)' \in Nat
  BY <1>1, <1>3, <1>5, HostsKnown DEF Slot, GateInv, GateType
<1>8. SlotBehind'
  <2> SUFFICES ASSUME NEW v \in Workers, Waits(v)'
               PROVE  /\ Slot(v)' >= run'[v].wait + Spacing[HostAt(v)']
                      /\ quiet[ProcOf[v]][HostAt(v)'] + run'[v].wait >= Spacing[HostAt(v)']
    BY DEF SlotBehind
  <2>1. CASE v = w
    <3>1. quiet[p][h] \in Nat /\ quiet[p][h] + next[p][h] >= Spacing[h]
      BY <1>0 DEF GateInv, GateType, SlotFree
    <3> QED
      BY <1>0, <1>1, <1>4, <2>1, <3>1
  <2>2. CASE v # w
    BY <1>5, <1>7, <2>2, HostsKnown DEF GateInv, SlotBehind
  <2> QED
    BY <2>1, <2>2
<1>9. ASSUME NEW v \in Workers, v # w, Waits(v), HostAt(v) = h, ProcOf[v] = p
      PROVE  wait >= run[v].wait + Spacing[h] \/ run[v].wait >= wait + Spacing[h]
  <2>1. next[p][h] >= run[v].wait + Spacing[h] /\ run[v].wait \in Nat
    BY <1>9, HostsKnown DEF GateInv, SlotBehind, Slot
  <2> QED
    BY <1>0, <1>1, <2>1
<1>10. Apart'
  <2> SUFFICES ASSUME NEW u \in Workers, NEW v \in Workers, u # v, Waits(u)', Waits(v)', SameGate(u, v)'
               PROVE  \/ run'[u].wait >= run'[v].wait + Spacing[HostAt(v)']
                      \/ run'[v].wait >= run'[u].wait + Spacing[HostAt(v)']
    BY DEF Apart
  <2>1. CASE u = w
    BY <1>4, <1>5, <1>9, <2>1 DEF SameGate
  <2>2. CASE v = w
    BY <1>4, <1>5, <1>9, <2>2 DEF SameGate
  <2>3. CASE u # w /\ v # w
    BY <1>5, <2>3 DEF SameGate, GateInv, Apart
  <2> QED
    BY <2>1, <2>2, <2>3
<1> QED
  BY <1>3, <1>6, <1>8, <1>10 DEF GateInv

\* A request makes its gate's host unquiet; the next to ask is an interval away.
LEMMA GateRequests ==
    ASSUME GateInv, NEW w \in Workers, Request(w)
    PROVE  /\ GateInv'
           /\ quiet[ProcOf[w]][HostAt(w)] >= Spacing[HostAt(w)]
<1> DEFINE p == ProcOf[w]
           h == HostAt(w)
<1>1. /\ Waits(w) /\ run[w].wait = 0 /\ run' = [run EXCEPT ![w].at = "answer"]
      /\ quiet' = [quiet EXCEPT ![p][h] = 0] /\ UNCHANGED next
  BY DEF Request, Waits, HostAt
<1>2. /\ p \in Procs /\ h \in Hosts /\ Spacing[h] \in Nat /\ Slot(w) \in Nat /\ quiet[p][h] \in Nat
      /\ \A x \in Hosts : Spacing[x] \in Nat
  BY <1>1, HostsKnown, SourceAssumption DEF GateInv
<1>3. next[p][h] >= Spacing[h] /\ quiet[p][h] >= Spacing[h]
  BY <1>1, <1>2 DEF GateInv, SlotBehind, Slot
<1>4. quiet' \in [Procs -> [Hosts -> Nat]]
      /\ quiet'[p][h] = 0
      /\ \A q \in Procs, x \in Hosts : quiet'[q][x] = quiet[q][x] \/ (q = p /\ x = h)
  <2>1. quiet' = [quiet EXCEPT ![p] = [quiet[p] EXCEPT ![h] = 0]]
    BY <1>1
  <2>2. [quiet[p] EXCEPT ![h] = 0] \in [Hosts -> Nat]
    BY <1>2 DEF GateInv, GateType
  <2> QED
    BY <1>2, <2>1, <2>2 DEF GateInv, GateType
<1>5. run'[w].at = "answer" /\ ~Waits(w)' /\ \A v \in Workers : v # w => run'[v] = run[v]
  BY <1>1 DEF GateInv, GateType, RunType, Waits
<1>6. GateType'
  <2> DEFINE Run(b) == [at : {"wait", "answer"}, src : Sources, by : {b}, age : Nat, wait : Nat]
  <2>1. run[w] \in Run(run[w].by)
    BY <1>1 DEF GateInv, GateType, RunType, Waits
  <2>2. run'[w] = [run[w] EXCEPT !.at = "answer"]
    BY <1>1 DEF GateInv, GateType
  <2>3. run'[w] \in Run(run'[w].by)
    BY <2>1, <2>2
  <2>4. RunType'
    BY <1>5, <2>3 DEF GateInv, GateType, RunType
  <2>5. DOMAIN run' = Workers /\ run' = [v \in Workers |-> run'[v]]
    BY <1>1 DEF GateInv, GateType
  <2>6. next' \in [Procs -> [Hosts -> Nat]]
    BY <1>1 DEF GateInv, GateType
  <2> QED
    BY <1>4, <2>4, <2>5, <2>6 DEF GateType
<1>7. SlotFree'
  BY <1>1, <1>2, <1>3, <1>4 DEF GateInv, GateType, SlotFree
<1>8. \A v \in Workers : Waits(v)' => v # w /\ Waits(v) /\ HostAt(v)' = HostAt(v)
                                      /\ run'[v].wait = run[v].wait /\ Slot(v)' = Slot(v)
  BY <1>1, <1>5 DEF Waits, HostAt, Slot
<1>9. SlotBehind'
  <2> SUFFICES ASSUME NEW v \in Workers, Waits(v)'
               PROVE  /\ Slot(v)' >= run'[v].wait + Spacing[HostAt(v)']
                      /\ quiet'[ProcOf[v]][HostAt(v)'] + run'[v].wait >= Spacing[HostAt(v)']
    BY DEF SlotBehind
  <2>1. v # w /\ Waits(v) /\ HostAt(v)' = HostAt(v) /\ run'[v].wait = run[v].wait /\ Slot(v)' = Slot(v)
    BY <1>8
  <2>2. ProcOf[v] \in Procs /\ HostAt(v) \in Hosts /\ run[v].wait \in Nat
    BY <2>1, HostsKnown DEF GateInv
  <2>3. CASE ProcOf[v] = p /\ HostAt(v) = h
    <3>1. \/ run[v].wait >= run[w].wait + Spacing[h]
          \/ run[w].wait >= run[v].wait + Spacing[h]
      BY <1>1, <2>1, <2>3 DEF GateInv, Apart, SameGate
    <3>2. run[v].wait >= Spacing[h]
      BY <1>1, <1>2, <2>2, <3>1
    <3> QED
      BY <1>2, <1>4, <2>1, <2>2, <2>3, <3>2 DEF GateInv, SlotBehind
  <2>4. CASE ~(ProcOf[v] = p /\ HostAt(v) = h)
    <3>1. quiet'[ProcOf[v]][HostAt(v)] = quiet[ProcOf[v]][HostAt(v)]
      BY <1>4, <2>2, <2>4
    <3> QED
      BY <2>1, <3>1 DEF GateInv, SlotBehind
  <2> QED
    BY <2>3, <2>4
<1>10. Apart'
  BY <1>8 DEF GateInv, Apart, SameGate
<1> QED
  BY <1>3, <1>6, <1>7, <1>9, <1>10 DEF GateInv

\* Time passes only while everyone who waits still has to.
LEMMA GateElapses ==
    ASSUME GateInv, Elapse
    PROVE  GateInv'
<1>1. \A h \in Hosts : Spacing[h] \in Nat
  BY SourceAssumption
<1>2. \A p \in Procs, h \in Hosts :
         /\ next[p][h] \in Nat /\ quiet[p][h] \in Nat
         /\ next'[p][h] = Pred(next[p][h]) /\ quiet'[p][h] = Succ(quiet[p][h], Spacing[h])
  BY DEF Elapse, GateInv, GateType
<1>3. /\ next' \in [Procs -> [Hosts -> Nat]] /\ quiet' \in [Procs -> [Hosts -> Nat]]
  <2>1. /\ next' = [p \in Procs |-> [h \in Hosts |-> Pred(next[p][h])]]
        /\ quiet' = [p \in Procs |-> [h \in Hosts |-> Succ(quiet[p][h], Spacing[h])]]
    BY DEF Elapse
  <2>2. \A n \in Nat, top \in Nat : Pred(n) \in Nat /\ Succ(n, top) \in Nat
    BY DEF Pred, Succ
  <2> QED
    BY <1>1, <1>2, <2>1, <2>2
<1>4. \A w \in Workers : run'[w] = IF run[w] = Idle THEN Idle
                                   ELSE [run[w] EXCEPT !.age = @ + 1, !.wait = Pred(@)]
  BY DEF Elapse
<1>5. RunType'
  <2> SUFFICES ASSUME NEW w \in Workers, run[w] # Idle
               PROVE  run'[w] \in [at : {"wait", "answer"}, src : Sources, by : {run[w].by},
                                         age : Nat, wait : Nat]
    BY <1>4 DEF RunType
  <2>1. run'[w] = [run[w] EXCEPT !.age = run[w].age + 1, !.wait = Pred(run[w].wait)]
    BY <1>4
  <2>2. run[w] \in [at : {"wait", "answer"}, src : Sources, by : {run[w].by},
                                         age : Nat, wait : Nat]
    BY DEF GateInv, GateType, RunType
  <2>3. run[w].age + 1 \in Nat /\ Pred(run[w].wait) \in Nat
    BY <2>2 DEF Pred
  <2> QED
    BY <2>1, <2>2, <2>3
<1>6. GateType'
  BY <1>3, <1>5 DEF GateType, Elapse
<1>7. ASSUME NEW w \in Workers, Waits(w)'
      PROVE  /\ Waits(w) /\ HostAt(w)' = HostAt(w)
             /\ run[w].wait > 0 /\ run'[w].wait = run[w].wait - 1 /\ run[w].wait \in Nat
  <2>1. run[w] # Idle
    BY <1>4, <1>7 DEF Waits
  <2>2. run[w] \in [at : {"wait", "answer"}, src : Sources, by : {run[w].by},
                                         age : Nat, wait : Nat]
    BY <2>1 DEF GateInv, GateType, RunType
  <2>3. run'[w] = [run[w] EXCEPT !.age = @ + 1, !.wait = Pred(@)]
    BY <1>4, <2>1
  <2>4. Waits(w) /\ HostAt(w)' = HostAt(w)
    BY <1>7, <2>1, <2>2, <2>3 DEF Waits, HostAt
  <2>5. run[w].wait > 0
    BY <2>1, <2>4 DEF Elapse, Waits
  <2> QED
    BY <2>2, <2>3, <2>4, <2>5 DEF Pred
<1>8. SlotFree'
  <2> SUFFICES ASSUME NEW p \in Procs, NEW h \in Hosts
               PROVE  quiet'[p][h] + next'[p][h] >= Spacing[h]
    BY DEF SlotFree
  <2>1. quiet[p][h] + next[p][h] >= Spacing[h]
    BY DEF GateInv, SlotFree
  <2> QED
    BY <1>1, <1>2, <2>1 DEF Pred, Succ
<1>9. SlotBehind'
  <2> SUFFICES ASSUME NEW w \in Workers, Waits(w)'
               PROVE  /\ Slot(w)' >= run'[w].wait + Spacing[HostAt(w)']
                      /\ quiet'[ProcOf[w]][HostAt(w)'] + run'[w].wait >= Spacing[HostAt(w)']
    BY DEF SlotBehind
  <2>1. /\ Waits(w) /\ HostAt(w)' = HostAt(w)
        /\ run[w].wait > 0 /\ run'[w].wait = run[w].wait - 1 /\ run[w].wait \in Nat
    BY <1>7
  <2>2. /\ ProcOf[w] \in Procs /\ HostAt(w) \in Hosts /\ Spacing[HostAt(w)] \in Nat
        /\ Slot(w) = next[ProcOf[w]][HostAt(w)] /\ Slot(w)' = next'[ProcOf[w]][HostAt(w)]
    BY <2>1, HostsKnown DEF GateInv, Slot
  <2>3. /\ Slot(w) >= run[w].wait + Spacing[HostAt(w)]
        /\ quiet[ProcOf[w]][HostAt(w)] + run[w].wait >= Spacing[HostAt(w)]
    BY <2>1 DEF GateInv, SlotBehind
  <2> QED
    BY <1>2, <2>1, <2>2, <2>3 DEF Pred, Succ
<1>10. Apart'
  <2> SUFFICES ASSUME NEW v \in Workers, NEW w \in Workers, v # w, Waits(v)', Waits(w)', SameGate(v, w)'
               PROVE  \/ run'[v].wait >= run'[w].wait + Spacing[HostAt(w)']
                      \/ run'[w].wait >= run'[v].wait + Spacing[HostAt(w)']
    BY DEF Apart
  <2>1. Spacing[HostAt(w)] \in Nat
    BY <1>7, HostsKnown DEF GateInv
  <2>2. \/ run[v].wait >= run[w].wait + Spacing[HostAt(w)]
        \/ run[w].wait >= run[v].wait + Spacing[HostAt(w)]
    BY <1>7 DEF GateInv, Apart, SameGate
  <2> QED
    BY <1>7, <2>1, <2>2
<1> QED
  BY <1>6, <1>8, <1>9, <1>10 DEF GateInv

\* StartFetch, whatever becomes of the job.
LEMMA GateStarts ==
    ASSUME GateInv, NEW w \in Workers, StartFetch(w)
    PROVE  GateInv'
<1>0. PICK i \in DOMAIN queue :
         \/ UNCHANGED <<run, next>>
         \/ LET s == queue[i].src p == ProcOf[w] h == HostOf[s] IN
            /\ s \in Registered
            /\ run' = [run EXCEPT ![w] = [at |-> "wait", src |-> s, by |-> queue[i].by,
                                          age |-> 0, wait |-> Wait(p, h)]]
            /\ IF h \in Paced THEN \E j \in 0..(Spacing[h] \div 2) : next' = Claimed(p, h, j)
                              ELSE UNCHANGED next
  BY DEF StartFetch
<1> DEFINE s == queue[i].src
           b == queue[i].by
           begun == [at |-> "wait", src |-> s, by |-> b, age |-> 0, wait |-> Wait(ProcOf[w], HostOf[s])]
<1>1. UNCHANGED quiet /\ run[w] = Idle
  BY DEF StartFetch
<1>2. CASE UNCHANGED <<run, next>>
  BY <1>1, <1>2, GateLeft
<1>3. CASE ~UNCHANGED <<run, next>>
  <2>1. /\ s \in Sources /\ run' = [run EXCEPT ![w] = begun]
        /\ IF HostOf[s] \in Paced
           THEN \E j \in 0..(Spacing[HostOf[s]] \div 2) : next' = Claimed(ProcOf[w], HostOf[s], j)
           ELSE UNCHANGED next
    BY <1>0, <1>3 DEF Registered
  <2>2. PICK j \in Nat : IF HostOf[s] \in Paced THEN next' = Claimed(ProcOf[w], HostOf[s], j) ELSE UNCHANGED next
    <3>1. \A n \in Int : 0..n \subseteq Nat
      OBVIOUS
    <3>2. Spacing[HostOf[s]] \div 2 \in Int
      BY <2>1, SourceAssumption
    <3> QED
      BY <2>1, <3>1, <3>2
  <2> HIDE DEF s, b
  <2> QED
    BY <1>1, <2>1, <2>2, GateClaims
<1> QED
  BY <1>2, <1>3

LEMMA GateStep == GateInv /\ [SourceNext]_sourceVars => GateInv'
<1> SUFFICES ASSUME GateInv, [SourceNext]_sourceVars PROVE GateInv'
  OBVIOUS
<1>1. ASSUME NEW w \in Workers, FinishFetch(w) \/ Lose(w) PROVE GateInv'
  BY <1>1, GateLeft DEF FinishFetch, Lose, Done, gate
<1>2. ASSUME UNCHANGED <<gate, run>> PROVE GateInv'
  BY <1>2 DEF gate, GateInv, GateType, RunType, SlotFree, SlotBehind, Apart,
              Waits, HostAt, Slot, SameGate
<1>3. ASSUME NEW p \in Procs, ListDue(p) \/ EnqueueNext(p) PROVE GateInv'
  BY <1>2, <1>3 DEF ListDue, EnqueueNext
<1>4. ASSUME NEW j \in FetchJobs, Requeue(j) PROVE GateInv'
  BY <1>2, <1>4 DEF Requeue
<1>5. ASSUME NEW o \in Operators, OperatorStep(o) PROVE GateInv'
  BY <1>2, <1>5 DEF OperatorStep, AskFetch, UpdateChecked, Upsert, AppendLog
<1>6. ASSUME NEW o \in Operators, OperatorCall(o) PROVE GateInv'
  BY <1>2, <1>6 DEF OperatorCall, CreateSourceREST, CreateSource, TriggerFetch,
                    SetSourceEnabled, PatchSource, DeleteSource, Revalidate, SeedSource
<1>7. CASE UNCHANGED sourceVars
  BY <1>2, <1>7 DEF sourceVars
<1> QED
  BY <1>1, <1>3, <1>4, <1>5, <1>6, <1>7, GateStarts, GateRequests, GateElapses
     DEF SourceNext, WorkerStep

\* "Spaces requests to the same host by at least its interval" (ingestion/throttle.go):
\* a process never asks a host again within its spacing, for any number of workers at the
\* gate, any jitter and any order in which their timers and answers come.
THEOREM RequestsSpaced == SourceSpec => Polite
<1>1. GateInv /\ [SourceNext]_sourceVars => GateInv'
  BY GateStep
<1>2. GateInv /\ [SourceNext]_sourceVars =>
        [\A w \in Workers : Request(w) =>
           quiet[ProcOf[w]][HostOf[run[w].src]] >= Spacing[HostOf[run[w].src]]]_sourceVars
  BY GateRequests DEF HostAt
<1> QED
  BY <1>1, <1>2, GateStart, PTL DEF SourceSpec, Polite
-----------------------------------------------------------------------------
(* Cooldown *)

RowType ==
    row \in [Sources -> [enabled : BOOLEAN, priority : Priorities \cup {Default}, since : Nat,
                         cool : Nat, failures : Nat]]

CoolInv == RowType /\ RunType /\ CooldownEarned

LEMMA CoolStart == SourceInit => CoolInv
  BY SourceAssumption DEF SourceInit, CoolInv, RowType, RunType, CooldownEarned, Fresh

LEMMA CoolStep == CoolInv /\ GateInv /\ [SourceNext]_sourceVars => CoolInv'
<1> SUFFICES ASSUME CoolInv, GateInv, [SourceNext]_sourceVars PROVE CoolInv'
  OBVIOUS
<1>0. RunType'
  BY GateStep DEF GateInv, GateType
<1>1. ASSUME UNCHANGED row PROVE CoolInv'
  BY <1>0, <1>1 DEF CoolInv, RowType, CooldownEarned
<1>2. ASSUME NEW s, NEW since \in Nat, NEW place, Insert(s, since, place) PROVE CoolInv'
  <2> DEFINE made == [Fresh EXCEPT !.since = since]
  <2>1. row' = [row EXCEPT ![s] = made]
    BY <1>2 DEF Insert
  <2>2. /\ made \in [enabled : BOOLEAN, priority : Priorities \cup {Default}, since : Nat,
                    cool : Nat, failures : Nat]
        /\ made.cool = 0
    <3>1. Interval \in Nat
      BY SourceAssumption
    <3> QED
      BY <3>1 DEF Fresh
  <2> HIDE DEF made
  <2>3. RowType'
    BY <2>1, <2>2 DEF CoolInv, RowType
  <2>4. \A t \in Sources : row'[t] = row[t] \/ row'[t] = made
    BY <2>1 DEF CoolInv, RowType
  <2> QED
    BY <1>0, <2>2, <2>3, <2>4 DEF CoolInv, CooldownEarned
<1>3. ASSUME NEW w \in Workers, FinishFetch(w) PROVE CoolInv'
  <2> DEFINE s == run[w].src
             age == run[w].age
  <2>1. s \in Sources /\ age \in Nat
    BY <1>3 DEF FinishFetch, Answered, CoolInv, RunType
  <2>2. Threshold \in Nat /\ Cooldown \in Nat
    BY SourceAssumption
  <2>3. CASE RecordSuccess(s, age)
    BY <1>0, <2>1, <2>3 DEF RecordSuccess, CoolInv, RowType, CooldownEarned
  <2>4. CASE RecordFailure(s, age)
    <3> DEFINE n == row[s].failures + 1
               failed == IF n < Threshold THEN n ELSE Threshold
               cool == IF n >= Threshold THEN (IF Cooldown > age THEN Cooldown - age ELSE 0)
                                         ELSE row[s].cool
               after == [row[s] EXCEPT !.since = age, !.failures = failed, !.cool = cool]
    <3>1. row' = [row EXCEPT ![s] = after]
      BY <2>4 DEF RecordFailure
    <3>2. row[s] \in [enabled : BOOLEAN, priority : Priorities \cup {Default}, since : Nat,
                      cool : Nat, failures : Nat]
      BY <2>1 DEF CoolInv, RowType
    <3>3. /\ failed \in Nat /\ cool \in Nat
          /\ cool > 0 => failed >= Threshold
      BY <2>1, <2>2, <3>2 DEF CoolInv, CooldownEarned
    <3> HIDE DEF failed, cool
    <3>4. /\ after \in [enabled : BOOLEAN, priority : Priorities \cup {Default}, since : Nat,
                        cool : Nat, failures : Nat]
          /\ after.cool > 0 => after.failures >= Threshold
      BY <2>1, <3>2, <3>3
    <3> HIDE DEF after
    <3> QED
      BY <1>0, <2>1, <3>1, <3>4 DEF CoolInv, RowType, CooldownEarned
  <2> QED
    BY <1>1, <1>3, <2>3, <2>4 DEF FinishFetch
<1>4. CASE Elapse
  <2>1. ASSUME NEW s \in Sources
        PROVE  /\ row'[s] \in [enabled : BOOLEAN, priority : Priorities \cup {Default}, since : Nat,
                               cool : Nat, failures : Nat]
               /\ row'[s].cool > 0 => row'[s].failures >= Threshold
    <3>1. row[s] \in [enabled : BOOLEAN, priority : Priorities \cup {Default}, since : Nat,
                      cool : Nat, failures : Nat]
      BY DEF CoolInv, RowType
    <3>2. row'[s] = IF s \in Registered
                    THEN [row[s] EXCEPT !.since = Succ(row[s].since, Interval), !.cool = Pred(row[s].cool)]
                    ELSE row[s]
      BY <1>4 DEF Elapse
    <3>3. Succ(row[s].since, Interval) \in Nat /\ Pred(row[s].cool) \in Nat
          /\ (Pred(row[s].cool) > 0 => row[s].cool > 0)
      BY <3>1, SourceAssumption DEF Succ, Pred
    <3> QED
      BY <3>1, <3>2, <3>3 DEF CoolInv, CooldownEarned
  <2>2. row' = [s \in Sources |-> row'[s]]
    BY <1>4 DEF Elapse
  <2> QED
    BY <1>0, <2>1, <2>2 DEF CoolInv, RowType, CooldownEarned
<1>5. ASSUME NEW o \in Operators, OperatorCall(o) PROVE CoolInv'
  <2>1. ASSUME NEW s \in Sources, CreateSourceREST(o, s) \/ CreateSource(o, s) PROVE CoolInv'
    BY <1>2, <2>1, SourceAssumption DEF CreateSourceREST, CreateSource
  <2>2. ASSUME NEW s \in Sources, SetSourceEnabled(o, s) PROVE CoolInv'
    BY <1>0, <2>2 DEF SetSourceEnabled, CoolInv, RowType, CooldownEarned
  <2>3. ASSUME NEW s \in Sources, PatchSource(o, s) PROVE CoolInv'
    BY <1>0, <2>3 DEF PatchSource, CoolInv, RowType, CooldownEarned
  <2>4. ASSUME NEW s \in Sources, TriggerFetch(o, s) \/ Revalidate(o, s) \/ SeedSource(o, s) PROVE CoolInv'
    BY <1>1, <2>4 DEF TriggerFetch, Revalidate, SeedSource
  <2>5. ASSUME NEW s \in Sources, DeleteSource(o, s) PROVE CoolInv'
    <3>1. row' = [row EXCEPT ![s] = Gone]
      BY <2>5 DEF DeleteSource
    <3>2. /\ Gone.cool = 0
          /\ Gone \in [enabled : BOOLEAN, priority : Priorities \cup {Default}, since : Nat,
                       cool : Nat, failures : Nat]
      BY SourceAssumption DEF Gone, Fresh
    <3> QED
      BY <1>0, <3>1, <3>2 DEF CoolInv, RowType, CooldownEarned
  <2> QED
    BY <1>5, <2>1, <2>2, <2>3, <2>4, <2>5 DEF OperatorCall
<1>6. ASSUME NEW o \in Operators, OperatorStep(o) PROVE CoolInv'
  <2>1. CASE AskFetch(o) \/ UpdateChecked(o) \/ AppendLog(o)
    BY <1>1, <2>1 DEF AskFetch, UpdateChecked, AppendLog, GiveUp
  <2>2. CASE Upsert(o)
    BY <1>1, <1>2, <2>2 DEF Upsert, GiveUp
  <2> QED
    BY <1>6, <2>1, <2>2 DEF OperatorStep
<1>7. ASSUME NEW w \in Workers, StartFetch(w) \/ Request(w) \/ Lose(w) PROVE CoolInv'
  BY <1>1, <1>7 DEF StartFetch, Request, Lose
<1>8. ASSUME NEW p \in Procs, ListDue(p) \/ EnqueueNext(p) PROVE CoolInv'
  BY <1>1, <1>8 DEF ListDue, EnqueueNext
<1>9. ASSUME NEW j \in FetchJobs, Requeue(j) PROVE CoolInv'
  BY <1>1, <1>9 DEF Requeue
<1>10. CASE UNCHANGED sourceVars
  BY <1>1, <1>10 DEF sourceVars
<1> QED
  BY <1>3, <1>4, <1>5, <1>6, <1>7, <1>8, <1>9, <1>10 DEF SourceNext, WorkerStep

\* A source that cools has failed Threshold times since its last success, whatever the
\* order in which fetches, resets and edits of its row come (MarkSourceFetchFailure).
THEOREM CooldownIsEarned == SourceSpec => []CooldownEarned
<1>1. GateInv /\ [SourceNext]_sourceVars => GateInv'
  BY GateStep
<1>2. CoolInv /\ GateInv /\ [SourceNext]_sourceVars => CoolInv'
  BY CoolStep
<1>3. CoolInv => CooldownEarned
  BY DEF CoolInv
<1> QED
  BY <1>1, <1>2, <1>3, GateStart, CoolStart, PTL DEF SourceSpec
-----------------------------------------------------------------------------
(* The places of the registered sources *)

LEMMA RemoveAtRange ==
    ASSUME NEW S, NEW q \in Seq(S), NEW i \in 1..Len(q)
    PROVE  /\ RemoveAt(q, i) \in Seq(S)
           /\ \A j \in 1..Len(q) : j # i => q[j] \in Range(RemoveAt(q, i))
           /\ Range(RemoveAt(q, i)) \subseteq Range(q)
<1> DEFINE r == RemoveAt(q, i)
<1>1. /\ r \in Seq(S) /\ Len(r) = Len(q) - 1
      /\ \A j \in 1..Len(r) : r[j] = IF j < i THEN q[j] ELSE q[j + 1]
  <2> DEFINE a == SubSeq(q, 1, i - 1)
             b == SubSeq(q, i + 1, Len(q))
  <2>1. /\ a \in Seq(S) /\ Len(a) = i - 1
        /\ \A j \in 1..(i - 1) : a[j] = q[j]
    BY SubSeqProperties
  <2>2. /\ b \in Seq(S) /\ Len(b) = Len(q) - i
        /\ \A j \in 1..(Len(q) - i) : b[j] = q[i + j]
    BY SubSeqProperties
  <2> HIDE DEF a, b
  <2>3. /\ a \o b \in Seq(S) /\ Len(a \o b) = Len(a) + Len(b)
        /\ \A j \in 1..(Len(a) + Len(b)) :
              (a \o b)[j] = IF j <= Len(a) THEN a[j] ELSE b[j - Len(a)]
    BY <2>1, <2>2, ConcatProperties
  <2>4. r = a \o b
    BY DEF RemoveAt, a, b
  <2> HIDE DEF r
  <2>5. r \in Seq(S) /\ Len(r) = Len(q) - 1
    <3>1. Len(r) = (i - 1) + (Len(q) - i)
      BY <2>1, <2>2, <2>3, <2>4
    <3>2. Len(q) \in Nat
      OBVIOUS
    <3> QED
      BY <2>3, <2>4, <3>1, <3>2
  <2>6. ASSUME NEW j \in 1..Len(r) PROVE r[j] = IF j < i THEN q[j] ELSE q[j + 1]
    <3>1. CASE j < i
      BY <2>1, <2>2, <2>3, <2>4, <2>5, <3>1
    <3>2. CASE j >= i
      <4>1. r[j] = b[j - (i - 1)]
        BY <2>1, <2>2, <2>3, <2>4, <2>5, <3>2
      <4>2. j - (i - 1) \in 1..(Len(q) - i) /\ i + (j - (i - 1)) = j + 1
        BY <2>5, <3>2
      <4>3. b[j - (i - 1)] = q[i + (j - (i - 1))]
        BY <2>2, <4>2
      <4> QED
        BY <3>2, <4>1, <4>2, <4>3
    <3> QED
      BY <2>5, <3>1, <3>2
  <2> QED
    BY <2>5, <2>6
<1> HIDE DEF r
<1>2. ASSUME NEW j \in 1..Len(q), j # i PROVE q[j] \in Range(r)
  <2>1. CASE j < i
    BY <1>1, <2>1 DEF Range
  <2>2. CASE j > i
    <3>1. j - 1 \in 1..Len(r) /\ r[j - 1] = q[j]
      BY <1>1, <2>2
    <3> QED
      BY <1>1, <3>1 DEF Range
  <2> QED
    BY <1>2, <2>1, <2>2
<1>3. Range(r) \subseteq Range(q)
  BY <1>1 DEF Range
<1> QED
  BY <1>1, <1>2, <1>3 DEF r

LEMMA InsertAtRange ==
    ASSUME NEW S, NEW q \in Seq(S), NEW e \in S, NEW i \in 1..(Len(q) + 1)
    PROVE  /\ InsertAt(q, i, e) \in Seq(S)
           /\ Range(InsertAt(q, i, e)) = Range(q) \cup {e}
<1> DEFINE a == SubSeq(q, 1, i - 1)
           b == SubSeq(q, i, Len(q))
<1>1. /\ a \in Seq(S) /\ Len(a) = i - 1
      /\ \A j \in 1..(i - 1) : a[j] = q[j]
  BY SubSeqProperties
<1>2. /\ b \in Seq(S) /\ Len(b) = Len(q) - i + 1
      /\ \A j \in 1..(Len(q) - i + 1) : b[j] = q[i + j - 1]
  BY SubSeqProperties
<1>3. InsertAt(q, i, e) = a \o <<e>> \o b /\ <<e>> \in Seq(S)
  BY DEF InsertAt
<1> HIDE DEF a, b
<1>4. a \o <<e>> \in Seq(S) /\ a \o <<e>> \o b \in Seq(S)
  <2>1. a \o <<e>> \in Seq(S)
    BY <1>1, <1>3, ConcatProperties
  <2> QED
    BY <1>2, <2>1, ConcatProperties
<1>5. Range(a \o <<e>> \o b) = (Range(a) \cup Range(<<e>>)) \cup Range(b)
  <2>1. Range(a \o <<e>>) = Range(a) \cup Range(<<e>>)
    BY <1>1, <1>3, RangeConcatenation
  <2>2. Range(a \o <<e>> \o b) = Range(a \o <<e>>) \cup Range(b)
    BY <1>2, <1>4, RangeConcatenation
  <2> QED
    BY <2>1, <2>2
<1>6. Range(<<e>>) = {e}
  BY DEF Range
<1>7. Range(a) \cup Range(b) = Range(q)
  <2>1. Range(a) \subseteq Range(q)
    BY <1>1, RangeEquality
  <2>2. Range(b) \subseteq Range(q)
    <3>1. \A j \in 1..(Len(q) - i + 1) : i + j - 1 \in 1..Len(q)
      OBVIOUS
    <3> QED
      BY <1>2, <3>1, RangeEquality
  <2>3. ASSUME NEW j \in 1..Len(q) PROVE q[j] \in Range(a) \cup Range(b)
    <3>1. CASE j < i
      BY <1>1, <3>1, RangeEquality
    <3>2. CASE j >= i
      <4>1. j - i + 1 \in 1..(Len(q) - i + 1) /\ i + (j - i + 1) - 1 = j
        BY <3>2
      <4>2. b[j - i + 1] = q[j]
        BY <1>2, <4>1
      <4> QED
        BY <1>2, <4>1, <4>2, RangeEquality
    <3> QED
      BY <3>1, <3>2
  <2> QED
    BY <2>1, <2>2, <2>3, RangeEquality
<1> QED
  BY <1>3, <1>4, <1>5, <1>6, <1>7

LEMMA PlacesCounted ==
    ASSUME NEW n \in Nat, NEW P \in SUBSET (1..n)
    PROVE  Cardinality(P) \in Nat /\ Cardinality(P) <= n
<1>1. 1 \in Int /\ n \in Int
  OBVIOUS
<1>2. IsFiniteSet(1..n) /\ Cardinality(1..n) = IF 1 > n THEN 0 ELSE n - 1 + 1
  BY <1>1, FS_Interval
<1>3. Cardinality(1..n) = n
  BY <1>2
<1> QED
  BY <1>2, <1>3, FS_Subset, FS_CardinalityType

\* A source that is recorded changes its place only; one that is deleted leaves the rest.
LEMMA PlacesKept ==
    ASSUME order \in Seq(Sources), NEW s \in Registered
    PROVE  /\ \A age : Placed(s, age) \in Seq(Sources) /\ Range(Placed(s, age)) = Range(order)
           /\ RemoveAt(order, PlaceOf(s)) \in Seq(Sources)
           /\ Range(order) \ {s} \subseteq Range(RemoveAt(order, PlaceOf(s)))
<1> DEFINE rest == RemoveAt(order, PlaceOf(s))
<1>1. \E i \in DOMAIN order : order[i] = s
  BY DEF Registered, Range
<1>2. PlaceOf(s) \in 1..Len(order) /\ order[PlaceOf(s)] = s
  BY <1>1 DEF PlaceOf
<1>3. rest \in Seq(Sources) /\ Range(rest) \subseteq Range(order)
  BY <1>2, RemoveAtRange
<1>4. Range(order) \ {s} \subseteq Range(rest)
  <2>1. \A j \in 1..Len(order) : j # PlaceOf(s) => order[j] \in Range(rest)
    BY <1>2, RemoveAtRange
  <2> QED
    BY <1>2, <2>1 DEF Range
<1>5. s \in Sources /\ s \in Range(order)
  BY DEF Registered
<1>6. ASSUME NEW age
      PROVE  Placed(s, age) \in Seq(Sources) /\ Range(Placed(s, age)) = Range(order)
  <2> DEFINE older == Cardinality({i \in DOMAIN rest : row[rest[i]].since >= age})
  <2>1. DOMAIN rest = 1..Len(rest) /\ Len(rest) \in Nat
    BY <1>3
  <2>4. older \in Nat /\ older <= Len(rest)
    BY <2>1, PlacesCounted
  <2>5. Placed(s, age) = InsertAt(rest, older + 1, s)
    BY DEF Placed
  <2> HIDE DEF rest, older
  <2>6. older + 1 \in 1..(Len(rest) + 1)
    BY <2>1, <2>4
  <2>7. /\ InsertAt(rest, older + 1, s) \in Seq(Sources)
        /\ Range(InsertAt(rest, older + 1, s)) = Range(rest) \cup {s}
    BY <1>3, <1>5, <2>6, InsertAtRange
  <2> QED
    BY <1>3, <1>4, <1>5, <2>5, <2>7
<1> QED
  BY <1>3, <1>4, <1>6
-----------------------------------------------------------------------------
(* The validation log *)

Results == {Result(f) : f \in Feeds}
Verdicts == {r.verdict : r \in Results}
Calls == {NoOp} \cup [at : {"fetch"}, src : Sources]
           \cup [at : {"update", "upsert", "log"}, src : Sources, result : Results]

LogType ==
    /\ order \in Seq(Sources) /\ mishaps \in Nat
    /\ op \in [Operators -> Calls]
    /\ checked \in [Sources -> Results \cup {Unknown}]
    /\ logged \in [Sources -> SUBSET Verdicts]

Logging(o) == op[o].at = "log"

\* The verdict of s is in its log, or an operator is about to write it there.
Told(s) ==
    \/ checked[s].verdict \in logged[s] \cup {"UNKNOWN"}
    \/ \E o \in Operators : /\ Logging(o) /\ op[o].src = s
                            /\ op[o].result.verdict = checked[s].verdict

\* Of a source that is not there nothing is left to log.
Unlisted == \A s \in Sources \ Registered : checked[s] = Unknown

LogInv == LogType /\ Unlisted /\ (mishaps = 0 => \A s \in Sources : Told(s))

LEMMA LogStart == SourceInit => LogInv
<1> SUFFICES ASSUME SourceInit PROVE LogInv
  OBVIOUS
<1>1. order \in Seq(Sources)
  <2>1. PICK S \in SUBSET Sources : order \in SetToSeqs(S)
    BY DEF SourceInit
  <2>2. Cardinality(S) \in Nat
    BY SourceAssumption, FS_Subset, FS_CardinalityType
  <2>3. order \in [1..Cardinality(S) -> Sources]
    BY <2>1 DEF SetToSeqs
  <2> QED
    BY <2>2, <2>3
<1>2. LogType
  BY <1>1 DEF SourceInit, LogType, Calls
<1>3. \A s \in Sources : Told(s) /\ checked[s] = Unknown
  BY DEF SourceInit, Told, Unknown
<1> QED
  BY <1>2, <1>3 DEF LogInv, Unlisted

\* Whatever does not touch checks keeps them logged.
LEMMA LogFrame ==
    ASSUME LogInv, UNCHANGED <<op, checked, logged>>,
           order' \in Seq(Sources), Registered \subseteq Registered',
           mishaps' \in {mishaps, mishaps + 1}
    PROVE  LogInv'
<1>1. LogType'
  BY DEF LogInv, LogType
<1>2. mishaps' = 0 => mishaps = 0
  BY DEF LogInv, LogType
<1>3. Unlisted'
  BY DEF LogInv, Unlisted
<1>4. \A s \in Sources : Told(s) => Told(s)'
  BY DEF Told, Logging
<1> QED
  BY <1>1, <1>2, <1>3, <1>4 DEF LogInv

\* An operator that has nothing to log moves: what others are about to log stays told.
LEMMA LogCall ==
    ASSUME LogInv, NEW o \in Operators, ~ Logging(o), \A p \in Operators : p # o => op'[p] = op[p],
           LogType', Unlisted', mishaps' \in {mishaps, mishaps + 1},
           \A s \in Sources : (checked'[s] = checked[s] /\ logged'[s] = logged[s]) \/ Told(s)'
    PROVE  LogInv'
<1>1. mishaps' = 0 => mishaps = 0
  BY DEF LogInv, LogType
<1>2. ASSUME NEW s \in Sources, Told(s), ~ Told(s)' PROVE FALSE
  <2>1. checked'[s] = checked[s] /\ logged'[s] = logged[s]
    BY <1>2
  <2>2. PICK p \in Operators : Logging(p) /\ op[p].src = s /\ op[p].result.verdict = checked[s].verdict
    BY <1>2, <2>1 DEF Told
  <2>3. op'[p] = op[p]
    BY <2>2
  <2> QED
    BY <1>2, <2>1, <2>2, <2>3 DEF Told, Logging
<1> QED
  BY <1>1, <1>2 DEF LogInv

\* ... a statement of a call that failed counts as a mishap.
LEMMA LogGivenUp ==
    ASSUME LogInv, NEW o \in Operators, GiveUp(o)
    PROVE  LogInv'
<1>1. /\ mishaps' = mishaps + 1 /\ op' = [op EXCEPT ![o] = NoOp]
      /\ UNCHANGED <<order, checked, logged>>
  BY DEF GiveUp
<1>2. LogType' /\ mishaps' # 0
  BY <1>1 DEF LogInv, LogType, Calls
<1>3. Unlisted'
  BY <1>1 DEF LogInv, Unlisted, Registered
<1> QED
  BY <1>2, <1>3 DEF LogInv

LEMMA CameRange ==
    ASSUME order \in Seq(Sources), NEW s \in Sources
    PROVE  /\ <<s>> \o order \in Seq(Sources) /\ order \o <<s>> \in Seq(Sources)
           /\ Range(<<s>> \o order) = Range(order) \cup {s}
           /\ Range(order \o <<s>>) = Range(order) \cup {s}
<1>0. <<s>> \in Seq(Sources) /\ Range(<<s>>) = {s}
  BY DEF Range
<1>1. PICK one \in Seq(Sources) : one = <<s>> /\ Range(one) = {s}
  BY <1>0, Zenon
<1>2. one \o order \in Seq(Sources) /\ Range(one \o order) = Range(one) \cup Range(order)
  BY ConcatProperties, RangeConcatenation
<1>3. order \o one \in Seq(Sources) /\ Range(order \o one) = Range(order) \cup Range(one)
  BY ConcatProperties, RangeConcatenation
<1> QED
  BY <1>1, <1>2, <1>3

LEMMA LogStep == LogInv /\ [SourceNext]_sourceVars => LogInv'
<1> SUFFICES ASSUME LogInv, [SourceNext]_sourceVars PROVE LogInv'
  OBVIOUS
<1> USE DEF gate, checks, counts
<1>a. mishaps \in Nat /\ order \in Seq(Sources) /\ LogType
  BY DEF LogInv, LogType
<1>1. ASSUME UNCHANGED <<op, checked, logged, order>>, mishaps' \in {mishaps, mishaps + 1}
      PROVE  LogInv'
  BY <1>a, <1>1, LogFrame DEF Registered
<1>2. CASE Elapse
  BY <1>1, <1>2 DEF Elapse
<1>3. ASSUME NEW p \in Procs, ListDue(p) \/ EnqueueNext(p) PROVE LogInv'
  BY <1>1, <1>3 DEF ListDue, EnqueueNext, Mishap
<1>4. ASSUME NEW w \in Workers, StartFetch(w) \/ Request(w) \/ Lose(w) PROVE LogInv'
  BY <1>1, <1>4 DEF StartFetch, Request, Lose, Mishap
<1>5. ASSUME NEW w \in Workers, FinishFetch(w) PROVE LogInv'
  <2>1. UNCHANGED <<op, checked, logged>> /\ mishaps' \in {mishaps, mishaps + 1}
    BY <1>5 DEF FinishFetch, Mishap
  <2>2. order' = order \/ \E s \in Registered : \E age : order' = Placed(s, age)
    BY <1>5 DEF FinishFetch
  <2>3. order' \in Seq(Sources) /\ Range(order') = Range(order)
    BY <1>a, <2>2, PlacesKept
  <2> QED
    BY <2>1, <2>3, LogFrame DEF Registered
<1>6. ASSUME NEW j \in FetchJobs, Requeue(j) PROVE LogInv'
  BY <1>1, <1>6 DEF Requeue
<1>7. ASSUME NEW o \in Operators, OperatorCall(o) PROVE LogInv'
  <2>1. ASSUME NEW s \in Sources, SetSourceEnabled(o, s) \/ PatchSource(o, s) PROVE LogInv'
    BY <1>1, <2>1 DEF SetSourceEnabled, PatchSource
  <2>2. ASSUME NEW s \in Sources, CreateSourceREST(o, s) PROVE LogInv'
    <3>1. op[o] = NoOp /\ op' = [op EXCEPT ![o] = [at |-> "fetch", src |-> s]]
          /\ UNCHANGED <<checked, logged, mishaps>> /\ order' = <<s>> \o order
      BY <2>2 DEF CreateSourceREST, Insert
    <3>2. LogType' /\ Unlisted'
      BY <1>a, <3>1, CameRange DEF LogInv, LogType, Calls, Unlisted, Registered
    <3>3. ~ Logging(o) /\ \A p \in Operators : p # o => op'[p] = op[p]
      BY <3>1 DEF LogInv, LogType, Logging, NoOp
    <3> QED
      BY <3>1, <3>2, <3>3, LogCall
  <2>3. ASSUME NEW s \in Sources, CreateSource(o, s) PROVE LogInv'
    <3>1. UNCHANGED <<op, checked, logged, mishaps>> /\ order' = <<s>> \o order
      BY <2>3 DEF CreateSource, Insert
    <3> QED
      BY <1>a, <3>1, CameRange, LogFrame DEF Registered
  <2>4. ASSUME NEW s \in Sources, TriggerFetch(o, s) \/ Revalidate(o, s) \/ SeedSource(o, s)
        PROVE  LogInv'
    <3>1. op[o] = NoOp /\ UNCHANGED <<order, checked, logged, mishaps>>
          /\ \E c \in Calls : op' = [op EXCEPT ![o] = c]
      BY <2>4 DEF TriggerFetch, Revalidate, SeedSource, Calls, Results
    <3>2. LogType' /\ Unlisted'
      BY <3>1 DEF LogInv, LogType, Unlisted, Registered
    <3> QED
      BY <3>1, <3>2, LogCall DEF LogInv, LogType, Logging, NoOp
  <2>5. ASSUME NEW s \in Sources, DeleteSource(o, s) PROVE LogInv'
    <3>1. /\ op[o] = NoOp /\ UNCHANGED <<op, mishaps>> /\ s \in Registered
          /\ order' = RemoveAt(order, PlaceOf(s))
          /\ checked' = [checked EXCEPT ![s] = Unknown]
          /\ logged' = [logged EXCEPT ![s] = {}]
      BY <2>5 DEF DeleteSource
    <3>2. order' \in Seq(Sources) /\ Range(order) \ {s} \subseteq Range(order')
      BY <1>a, <3>1, PlacesKept
    <3>3. LogType' /\ Unlisted'
      BY <1>a, <3>1, <3>2 DEF LogInv, LogType, Unlisted, Registered
    <3>4. \A t \in Sources : (checked'[t] = checked[t] /\ logged'[t] = logged[t]) \/ Told(t)'
      BY <3>1 DEF LogInv, LogType, Told, Unknown
    <3> QED
      BY <3>1, <3>3, <3>4, LogCall DEF Logging, NoOp
  <2> QED
    BY <1>7, <2>1, <2>2, <2>3, <2>4, <2>5 DEF OperatorCall
<1>8. ASSUME NEW o \in Operators, OperatorStep(o) PROVE LogInv'
  <2>1. CASE AskFetch(o)
    <3>1. /\ op[o].at = "fetch" /\ UNCHANGED <<order, checked, logged>>
          /\ \E c \in {op[o], NoOp} : op' = [op EXCEPT ![o] = c]
          /\ mishaps' \in {mishaps, mishaps + 1}
      <4>1. op = [op EXCEPT ![o] = op[o]]
        BY DEF LogInv, LogType
      <4> QED
        BY <2>1, <4>1 DEF AskFetch
    <3>2. LogType' /\ Unlisted'
      BY <1>a, <3>1 DEF LogInv, LogType, Calls, Unlisted, Registered
    <3> QED
      BY <3>1, <3>2, LogCall DEF LogInv, LogType, Logging
  <2>3. CASE UpdateChecked(o) /\ ~ GiveUp(o)
    <3>0. PICK s : s = op[o].src
      OBVIOUS
    <3>1. /\ op[o].at = "update" /\ op' = [op EXCEPT ![o].at = "log"]
          /\ UNCHANGED <<order, logged, mishaps>>
          /\ IF s \in Registered THEN checked' = [checked EXCEPT ![s] = op[o].result]
             ELSE UNCHANGED checked
      BY <2>3, <3>0 DEF UpdateChecked, ToLog
    <3>a. op[o] \in [at : {"update", "upsert", "log"}, src : Sources, result : Results]
      BY <3>1 DEF LogInv, LogType, Calls, NoOp
    <3>b. op'[o] = [op[o] EXCEPT !.at = "log"]
      BY <3>1 DEF LogInv, LogType
    <3>2. /\ s \in Sources /\ op[o].result \in Results /\ op'[o] \in Calls
          /\ op'[o].src = s /\ op'[o].result = op[o].result /\ op'[o].at = "log"
      BY <3>0, <3>a, <3>b DEF Calls
    <3>3. LogType' /\ Unlisted'
      BY <3>1, <3>2 DEF LogInv, LogType, Unlisted, Registered
    <3>4. \A t \in Sources : checked'[t] = checked[t] \/ (t = s /\ checked'[t] = op[o].result)
      BY <3>1, <3>2 DEF LogInv, LogType
    <3>5. \A t \in Sources : (checked'[t] = checked[t] /\ logged'[t] = logged[t]) \/ Told(t)'
      BY <3>1, <3>2, <3>4 DEF Told, Logging
    <3> QED
      BY <3>1, <3>3, <3>5, LogCall DEF LogInv, LogType, Logging
  <2>4. CASE Upsert(o) /\ ~ GiveUp(o)
    <3>1. PICK t \in Sources :
            /\ op[o].at = "upsert" /\ op' = [op EXCEPT ![o].src = t, ![o].at = "log"]
            /\ UNCHANGED <<logged, mishaps>>
            /\ (t \in Registered /\ order' = order) \/ order' = order \o <<t>>
            /\ checked' = [checked EXCEPT ![t] = op[o].result]
      <4>1. CASE op[o].src \in Registered
        <5>1. op' = [op EXCEPT ![o].at = "log"] /\ op[o].at = "upsert"
          BY <2>4, <4>1 DEF Upsert, ToLog
        <5>2. op[o] \in [at : {"update", "upsert", "log"}, src : Sources, result : Results]
          BY <5>1 DEF LogInv, LogType, Calls, NoOp
        <5>3. op' = [op EXCEPT ![o].src = op[o].src, ![o].at = "log"]
          BY <5>1, <5>2
        <5> QED
          BY <2>4, <4>1, <5>3 DEF Upsert, ToLog, Registered
      <4>2. CASE op[o].src \notin Registered
        BY <2>4, <4>2 DEF Upsert, Insert
      <4> QED
        BY <4>1, <4>2
    <3>2. /\ op[o].result \in Results /\ op'[o] \in Calls
          /\ op'[o].src = t /\ op'[o].result = op[o].result /\ op'[o].at = "log"
      BY <3>1 DEF LogInv, LogType, Calls, NoOp
    <3>3. order' \in Seq(Sources) /\ Range(order') = Range(order) \cup {t}
      BY <1>a, <3>1, CameRange DEF Registered
    <3>4. LogType' /\ Unlisted'
      BY <3>1, <3>2, <3>3 DEF LogInv, LogType, Unlisted, Registered
    <3>5. \A u \in Sources : checked'[u] = checked[u] \/ (u = t /\ checked'[u] = op[o].result)
      BY <3>1, <3>2 DEF LogInv, LogType
    <3>6. \A u \in Sources : (checked'[u] = checked[u] /\ logged'[u] = logged[u]) \/ Told(u)'
      BY <3>1, <3>2, <3>5 DEF Told, Logging
    <3> QED
      BY <3>1, <3>4, <3>6, LogCall DEF LogInv, LogType, Logging
  <2>5. CASE AppendLog(o) /\ ~ GiveUp(o)
    <3>0. PICK s : s = op[o].src
      OBVIOUS
    <3>1. /\ op[o].at = "log" /\ op' = [op EXCEPT ![o] = NoOp]
          /\ UNCHANGED <<order, checked, mishaps>>
          /\ IF s \in Registered THEN logged' = [logged EXCEPT ![s] = @ \cup {op[o].result.verdict}]
             ELSE UNCHANGED logged
      BY <2>5, <3>0 DEF AppendLog
    <3>2. s \in Sources /\ op[o].result \in Results /\ op[o].result.verdict \in Verdicts
      BY <3>0, <3>1 DEF LogInv, LogType, Calls, NoOp, Verdicts
    <3>3. LogType' /\ Unlisted'
      BY <3>1, <3>2 DEF LogInv, LogType, Calls, Unlisted, Registered
    <3>4. ASSUME NEW t \in Sources, Told(t) PROVE Told(t)'
      <4>1. logged[t] \subseteq logged'[t]
        BY <3>1, <3>2 DEF LogInv, LogType
      <4>2. CASE checked[t].verdict \in logged[t] \cup {"UNKNOWN"}
        BY <3>1, <4>1, <4>2 DEF Told
      <4>3. ASSUME NEW p \in Operators, p # o, Logging(p), op[p].src = t,
                   op[p].result.verdict = checked[t].verdict
            PROVE  Told(t)'
        <5>1. op'[p] = op[p]
          BY <3>1, <4>3 DEF LogInv, LogType
        <5> QED
          BY <3>1, <4>3, <5>1 DEF Told, Logging
      <4>4. CASE t = s /\ s \in Registered /\ op[o].result.verdict = checked[t].verdict
        BY <3>1, <3>2, <4>4 DEF LogInv, LogType, Told
      <4>5. CASE t \notin Registered
        BY <3>1, <4>5 DEF LogInv, Unlisted, Told, Unknown
      <4> QED
        BY <3>0, <3>4, <4>2, <4>3, <4>4, <4>5 DEF Told
    <3> QED
      BY <3>1, <3>3, <3>4 DEF LogInv
  <2> QED
    BY <1>8, <2>1, <2>3, <2>4, <2>5, LogGivenUp DEF OperatorStep
<1>9. CASE UNCHANGED sourceVars
  BY <1>1, <1>9 DEF sourceVars
<1> QED
  BY <1>2, <1>3, <1>4, <1>5, <1>6, <1>7, <1>8, <1>9 DEF SourceNext, WorkerStep

\* While no statement has failed, the verdict of a source's row is in its log or about
\* to be, for any number of operators who check and seed the same sources at once, with
\* deletions and fetches between their statements (RecordValidation, SeedValid,
\* DeleteSource).
THEOREM ChecksAreLogged == SourceSpec => []VerdictLogged
<1>1. LogInv /\ [SourceNext]_sourceVars => LogInv'
  BY LogStep
<1>2. LogInv => VerdictLogged
  BY DEF LogInv, VerdictLogged, Told, Logging, Registered
<1> QED
  BY <1>1, <1>2, LogStart, PTL DEF SourceSpec
-----------------------------------------------------------------------------
(* Sequences without duplicates *)

NoDup(q) == \A i, j \in 1..Len(q) : q[i] = q[j] => i = j

LEMMA ConcatNoDup ==
    ASSUME NEW S, NEW a \in Seq(S), NEW b \in Seq(S), NoDup(a), NoDup(b),
           Range(a) \cap Range(b) = {}
    PROVE  a \o b \in Seq(S) /\ NoDup(a \o b) /\ Range(a \o b) = Range(a) \cup Range(b)
<1> DEFINE c == a \o b
<1>1. /\ Len(c) = Len(a) + Len(b) /\ Len(a) \in Nat /\ Len(b) \in Nat
      /\ \A i \in 1..Len(c) : c[i] = IF i <= Len(a) THEN a[i] ELSE b[i - Len(a)]
  BY ConcatProperties
<1> HIDE DEF c
<1>2. \A i \in 1..Len(a) : a[i] \in Range(a)
  BY RangeEquality
<1>3. \A i \in 1..Len(b) : b[i] \in Range(b)
  BY RangeEquality
<1>8. c \in Seq(S) /\ Range(c) = Range(a) \cup Range(b)
  BY ConcatProperties, RangeConcatenation DEF c
<1> SUFFICES ASSUME NEW i \in 1..Len(c), NEW j \in 1..Len(c), c[i] = c[j] PROVE i = j
  BY <1>8 DEF NoDup, c
<1>4. CASE i <= Len(a) /\ j <= Len(a)
  BY <1>1, <1>4 DEF NoDup
<1>5. CASE i > Len(a) /\ j > Len(a)
  <2>1. i - Len(a) \in 1..Len(b) /\ j - Len(a) \in 1..Len(b)
    BY <1>1, <1>5
  <2>2. b[i - Len(a)] = b[j - Len(a)]
    BY <1>1, <1>5
  <2>3. i - Len(a) = j - Len(a)
    BY <2>1, <2>2 DEF NoDup
  <2> QED
    BY <1>1, <2>3
<1>6. CASE i <= Len(a) /\ j > Len(a)
  <2>1. i \in 1..Len(a) /\ j - Len(a) \in 1..Len(b)
    BY <1>1, <1>6
  <2> QED
    BY <1>1, <1>2, <1>3, <1>6, <2>1
<1>7. CASE i > Len(a) /\ j <= Len(a)
  <2>1. j \in 1..Len(a) /\ i - Len(a) \in 1..Len(b)
    BY <1>1, <1>7
  <2> QED
    BY <1>1, <1>2, <1>3, <1>7, <2>1
<1> QED
  BY <1>1, <1>4, <1>5, <1>6, <1>7

LEMMA SubSeqNoDup ==
    ASSUME NEW S, NEW q \in Seq(S), NEW m \in Int, NEW n \in Int, 1 <= m, n <= Len(q), NoDup(q)
    PROVE  /\ SubSeq(q, m, n) \in Seq(S) /\ NoDup(SubSeq(q, m, n))
           /\ Range(SubSeq(q, m, n)) \subseteq {q[j] : j \in m..n}
<1> DEFINE r == SubSeq(q, m, n)
<1>0. Len(q) \in Nat /\ \A i \in 1..Len(q) : q[i] \in S
  OBVIOUS
<1>1. \A i \in m..n : q[i] \in S
  BY <1>0
<1>2. /\ r \in Seq(S) /\ Len(r) = IF m <= n THEN n - m + 1 ELSE 0
      /\ \A i \in 1..(n - m + 1) : r[i] = q[m + i - 1]
  BY <1>1, SubSeqProperties
<1> HIDE DEF r
<1>3. ASSUME NEW i \in 1..Len(r)
      PROVE  r[i] = q[m + i - 1] /\ m + i - 1 \in 1..Len(q) /\ m + i - 1 \in m..n
  BY <1>0, <1>2
<1>4. ASSUME NEW i \in 1..Len(r), NEW j \in 1..Len(r), r[i] = r[j] PROVE i = j
  <2>1. m + i - 1 = m + j - 1
    BY <1>3, <1>4 DEF NoDup
  <2> QED
    BY <1>2, <2>1
<1>5. Range(r) = {r[i] : i \in 1..Len(r)}
  BY <1>2, RangeEquality
<1>6. NoDup(r)
  BY <1>4 DEF NoDup
<1>7. Range(r) \subseteq {q[j] : j \in m..n}
  BY <1>3, <1>5
<1> QED
  BY <1>2, <1>6, <1>7 DEF r

LEMMA RemoveAtNoDup ==
    ASSUME NEW S, NEW q \in Seq(S), NEW i \in 1..Len(q), NoDup(q)
    PROVE  NoDup(RemoveAt(q, i)) /\ q[i] \notin Range(RemoveAt(q, i))
<1> DEFINE a == SubSeq(q, 1, i - 1)
           b == SubSeq(q, i + 1, Len(q))
<1>1. a \in Seq(S) /\ NoDup(a) /\ Range(a) \subseteq {q[j] : j \in 1..(i - 1)}
  BY SubSeqNoDup
<1>2. b \in Seq(S) /\ NoDup(b) /\ Range(b) \subseteq {q[j] : j \in (i + 1)..Len(q)}
  BY SubSeqNoDup
<1>3. RemoveAt(q, i) = a \o b
  BY DEF RemoveAt
<1> HIDE DEF a, b
<1>4. Range(a) \cap Range(b) = {}
  BY <1>1, <1>2 DEF NoDup
<1>5. Range(a \o b) = Range(a) \cup Range(b)
  BY <1>1, <1>2, <1>4, ConcatNoDup
<1>6. q[i] \notin Range(a) /\ q[i] \notin Range(b)
  BY <1>1, <1>2 DEF NoDup
<1> QED
  BY <1>1, <1>2, <1>3, <1>4, <1>5, <1>6, ConcatNoDup

LEMMA OneNoDup ==
    ASSUME NEW S, NEW e \in S
    PROVE  <<e>> \in Seq(S) /\ NoDup(<<e>>) /\ Range(<<e>>) = {e}
  BY DEF NoDup, Range

LEMMA JoinedNoDup ==
    ASSUME NEW S, NEW q \in Seq(S), NEW e, e \notin Range(q), NoDup(q)
    PROVE  /\ Append(q, e) \in Seq(S \cup {e}) /\ NoDup(Append(q, e))
           /\ Range(Append(q, e)) = Range(q) \cup {e}
           /\ <<e>> \o q \in Seq(S \cup {e}) /\ NoDup(<<e>> \o q)
           /\ Range(<<e>> \o q) = Range(q) \cup {e}
           /\ NoDup(q \o <<e>>)
<1> DEFINE T == S \cup {e}
<1>1. q \in Seq(T)
  BY SeqMonotonic
<1>2. PICK one \in Seq(T) : one = <<e>> /\ NoDup(one) /\ Range(one) = {e}
  BY OneNoDup, Zenon
<1>3. Append(q, e) = q \o one
  BY <1>1, <1>2, AppendIsConcat
<1> HIDE DEF T
<1>6. one \in Seq(T) /\ NoDup(one) /\ Range(one) = {e}
  BY <1>2
<1>7. Range(q) \cap Range(one) = {} /\ Range(one) \cap Range(q) = {}
  BY <1>6
<1>4. q \o one \in Seq(T) /\ NoDup(q \o one) /\ Range(q \o one) = Range(q) \cup Range(one)
  BY <1>1, <1>6, <1>7, ConcatNoDup
<1>5. one \o q \in Seq(T) /\ NoDup(one \o q) /\ Range(one \o q) = Range(one) \cup Range(q)
  BY <1>1, <1>6, <1>7, ConcatNoDup
<1> QED
  BY <1>2, <1>3, <1>4, <1>5, <1>6 DEF T
-----------------------------------------------------------------------------
(* One fetch per sender *)

Kept(w) == run'[w] # Idle => run[w] # Idle /\ Job(w)' = Job(w)

\* A job is queued once, or lost once, or in one worker's hands.
OneFetch ==
    /\ \E S : queue \in Seq(S)
    /\ \A j \in Range(queue) : j = [src |-> j.src, by |-> j.by]
    /\ NoDup(queue) /\ Range(queue) \cap orphans = {}
    /\ \A w \in Workers : run[w] # Idle => Job(w) \notin Range(queue) \cup orphans
    /\ \A v, w \in Workers : run[v] # Idle /\ run[w] # Idle /\ Job(v) = Job(w) => v = w

LEMMA OneFetchStart == SourceInit => OneFetch
<1> SUFFICES ASSUME SourceInit PROVE OneFetch
  OBVIOUS
<1>1. queue \in Seq(FetchJobs) /\ NoDup(queue) /\ Range(queue) = {}
  BY DEF SourceInit, NoDup, Range
<1>2. \A w \in Workers : run[w] = Idle
  BY DEF SourceInit
<1> QED
  BY <1>1, <1>2 DEF OneFetch

LEMMA OneFetchFrame ==
    ASSUME OneFetch, UNCHANGED <<queue, orphans>>, \A w \in Workers : Kept(w)
    PROVE  OneFetch'
  BY DEF OneFetch, Kept

\* A sender that sees no unfinished job and is not sending adds a job of its own.
LEMMA OneFetchSent ==
    ASSUME OneFetch, NEW s, NEW b, BeginSend(s, b), UNCHANGED <<orphans, run>>
    PROVE  OneFetch'
<1>1. PICK j : j = [src |-> s, by |-> b]
  OBVIOUS
<1>2. queue' = Append(queue, j) /\ j.src = s /\ j.by = b
  BY <1>1 DEF BeginSend
<1>3. PICK S : queue \in Seq(S)
  BY DEF OneFetch
<1>4. j \notin Range(queue)
  <2> SUFFICES ASSUME NEW i \in DOMAIN queue, queue[i] = j PROVE FALSE
    BY DEF Range
  <2> QED
    BY <1>2 DEF BeginSend, Sending, Unfinished
<1>5. j \notin orphans /\ \A w \in Workers : run[w] # Idle => Job(w) # j
  BY <1>2 DEF BeginSend, Unfinished, Job
<1>6. NoDup(queue)
  BY DEF OneFetch
<1>7. queue' \in Seq(S \cup {j}) /\ NoDup(Append(queue, j)) /\ Range(queue') = Range(queue) \cup {j}
  BY <1>2, <1>3, <1>4, <1>6, JoinedNoDup
<1>8. NoDup(queue)'
  BY <1>2, <1>7 DEF NoDup
<1> QED
  BY <1>1, <1>2, <1>5, <1>7, <1>8 DEF OneFetch, Job

\* A job leaves the queue: a failed INSERT, or a claim.
LEMMA OneFetchTaken ==
    ASSUME OneFetch, NEW i \in DOMAIN queue, queue' = RemoveAt(queue, i), UNCHANGED orphans,
           \A w \in Workers : Kept(w) \/ (run[w] = Idle /\ Job(w)' = queue[i]
                                          /\ \A v \in Workers : v # w => Kept(v))
    PROVE  OneFetch'
<1>1. PICK S : queue \in Seq(S)
  BY DEF OneFetch
<1>2. i \in 1..Len(queue) /\ NoDup(queue)
  BY <1>1 DEF OneFetch
<1>3. queue' \in Seq(S) /\ Range(queue') \subseteq Range(queue)
  BY <1>1, <1>2, RemoveAtRange
<1>4. NoDup(RemoveAt(queue, i)) /\ queue[i] \notin Range(queue')
  BY <1>1, <1>2, RemoveAtNoDup
<1>5. NoDup(queue)'
  BY <1>4 DEF NoDup
<1>6. queue[i] \in Range(queue)
  BY DEF Range
<1>7. \A w \in Workers : run'[w] # Idle =>
         (run[w] # Idle /\ Job(w)' = Job(w)) \/ Job(w)' = queue[i]
  BY DEF Kept
<1>8. \A w \in Workers : run'[w] # Idle => Job(w)' \notin Range(queue') \cup orphans
  BY <1>3, <1>4, <1>6, <1>7 DEF OneFetch
<1>9. ASSUME NEW v \in Workers, NEW w \in Workers, run'[v] # Idle, run'[w] # Idle,
             Job(v)' = Job(w)', v # w
      PROVE  FALSE
  <2>1. CASE Kept(v) /\ Kept(w)
    BY <1>9, <2>1 DEF Kept, OneFetch
  <2>2. CASE ~ Kept(v)
    <3>1. Job(v)' = queue[i] /\ run[w] # Idle /\ Job(w)' = Job(w)
      BY <1>9, <2>2 DEF Kept
    <3>2. Job(w) \notin Range(queue)
      BY <3>1 DEF OneFetch
    <3> QED
      BY <1>6, <1>9, <3>1, <3>2
  <2>3. CASE ~ Kept(w)
    <3>1. Job(w)' = queue[i] /\ run[v] # Idle /\ Job(v)' = Job(v)
      BY <1>9, <2>3 DEF Kept
    <3>2. Job(v) \notin Range(queue)
      BY <3>1 DEF OneFetch
    <3> QED
      BY <1>6, <1>9, <3>1, <3>2
  <2> QED
    BY <2>1, <2>2, <2>3
<1> QED
  BY <1>3, <1>5, <1>6, <1>8, <1>9 DEF OneFetch

\* EnqueueFetchSource, whatever becomes of it.
LEMMA OneFetchAsked ==
    ASSUME OneFetch, NEW s, NEW b, BeginSend(s, b) \/ EndSend(s, b) \/ SendFails(s, b),
           UNCHANGED <<orphans, run>>
    PROVE  OneFetch'
<1>1. \A w \in Workers : Kept(w)
  BY DEF Kept, Job
<1>2. CASE UNCHANGED queue
  BY <1>1, <1>2, OneFetchFrame
<1>3. CASE \E i \in DOMAIN queue : queue' = RemoveAt(queue, i)
  BY <1>1, <1>3, OneFetchTaken
<1> QED
  BY <1>2, <1>3, OneFetchSent DEF EndSend, SendFails

LEMMA OneFetchStep == OneFetch /\ GateInv /\ [SourceNext]_sourceVars => OneFetch'
<1> SUFFICES ASSUME OneFetch, GateInv, [SourceNext]_sourceVars PROVE OneFetch'
  OBVIOUS
<1> USE DEF jobs
<1>0. run = [w \in Workers |-> run[w]] /\ RunType
  BY DEF GateInv, GateType
<1>1. ASSUME UNCHANGED <<queue, orphans, run>> PROVE OneFetch'
  BY <1>1, OneFetchFrame DEF Kept, Job
<1>2. ASSUME NEW p \in Procs, ListDue(p) \/ EnqueueNext(p) PROVE OneFetch'
  BY <1>1, <1>2, OneFetchAsked DEF ListDue, EnqueueNext
<1>3. ASSUME NEW o \in Operators, OperatorStep(o) PROVE OneFetch'
  BY <1>1, <1>3, OneFetchAsked DEF OperatorStep, AskFetch, UpdateChecked, Upsert, AppendLog
<1>4. ASSUME NEW o \in Operators, OperatorCall(o) PROVE OneFetch'
  BY <1>1, <1>4 DEF OperatorCall, CreateSourceREST, CreateSource, TriggerFetch,
                    SetSourceEnabled, PatchSource, DeleteSource, Revalidate, SeedSource
<1>5. ASSUME NEW w \in Workers, StartFetch(w) PROVE OneFetch'
  <2>1. PICK i \in DOMAIN queue : \E n :
           /\ queue' = RemoveAt(queue, i) /\ run[w] = Idle /\ UNCHANGED orphans
           /\ \/ UNCHANGED run
              \/ run' = [run EXCEPT ![w] = [at |-> "wait", src |-> queue[i].src, by |-> queue[i].by,
                                            age |-> 0, wait |-> n]]
    BY <1>5 DEF StartFetch
  <2>2. CASE UNCHANGED run
    BY <2>1, <2>2, OneFetchTaken DEF Kept, Job
  <2>3. CASE ~ UNCHANGED run
    <3>1. /\ run'[w].src = queue[i].src /\ run'[w].by = queue[i].by
          /\ \A v \in Workers : v # w => Kept(v)
      BY <1>0, <2>1, <2>3 DEF Kept, Job
    <3>2. Job(w)' = queue[i]
      <4>1. queue[i] \in Range(queue)
        BY DEF Range
      <4>2. queue[i] = [src |-> queue[i].src, by |-> queue[i].by]
        BY <4>1 DEF OneFetch
      <4> QED
        BY <3>1, <4>2 DEF Job
    <3>3. \A u \in Workers : Kept(u) \/ (run[u] = Idle /\ Job(u)' = queue[i]
                                         /\ \A v \in Workers : v # u => Kept(v))
      BY <2>1, <3>1, <3>2
    <3> QED
      BY <2>1, <3>3, OneFetchTaken
  <2> QED
    BY <2>2, <2>3
<1>6. ASSUME NEW w \in Workers, Request(w) \/ FinishFetch(w) PROVE OneFetch'
  <2>1. /\ UNCHANGED <<queue, orphans>> /\ run[w] # Idle
        /\ run' = [run EXCEPT ![w].at = "answer"] \/ run' = [run EXCEPT ![w] = Idle]
    BY <1>6 DEF Request, FinishFetch, Answered, Done
  <2>2. \A v \in Workers : Kept(v)
    BY <1>0, <2>1 DEF Kept, Job, RunType
  <2> QED
    BY <2>1, <2>2, OneFetchFrame
<1>7. ASSUME NEW w \in Workers, Lose(w) PROVE OneFetch'
  <2>1. /\ run[w] # Idle /\ orphans' = orphans \cup {Job(w)} /\ run' = [run EXCEPT ![w] = Idle]
        /\ UNCHANGED queue
    BY <1>7 DEF Lose, Done
  <2>2. run'[w] = Idle /\ \A v \in Workers : v # w => run'[v] = run[v] /\ Job(v)' = Job(v)
    BY <1>0, <2>1 DEF Job
  <2> QED
    BY <2>1, <2>2 DEF OneFetch
<1>8. ASSUME NEW j \in FetchJobs, Requeue(j) PROVE OneFetch'
  <2>1. j \in orphans /\ orphans' = orphans \ {j} /\ queue' = <<j>> \o queue /\ UNCHANGED run
    BY <1>8 DEF Requeue
  <2>2. PICK S : queue \in Seq(S)
    BY DEF OneFetch
  <2>3. j \notin Range(queue) /\ NoDup(queue)
    BY <2>1 DEF OneFetch
  <2>4. queue' \in Seq(S \cup {j}) /\ NoDup(<<j>> \o queue) /\ Range(queue') = Range(queue) \cup {j}
    BY <2>1, <2>2, <2>3, JoinedNoDup
  <2>5. NoDup(queue)'
    BY <2>1, <2>4 DEF NoDup
  <2>6. j = [src |-> j.src, by |-> j.by]
    BY DEF FetchJobs
  <2> QED
    BY <2>1, <2>4, <2>5, <2>6 DEF OneFetch, Job
<1>9. CASE Elapse
  <2>1. \A w \in Workers : run'[w] = IF run[w] = Idle THEN Idle
                                     ELSE [run[w] EXCEPT !.age = @ + 1, !.wait = Pred(@)]
    BY <1>9 DEF Elapse
  <2>2. \A w \in Workers : Kept(w)
    BY <1>0, <2>1 DEF Kept, Job, RunType
  <2> QED
    BY <1>9, <2>2, OneFetchFrame DEF Elapse
<1>10. CASE UNCHANGED sourceVars
  BY <1>1, <1>10 DEF sourceVars
<1> QED
  BY <1>2, <1>3, <1>4, <1>5, <1>6, <1>7, <1>8, <1>9, <1>10 DEF SourceNext, WorkerStep

\* A scheduler or an operator has at most one unfinished fetch of a source, whatever its
\* snapshots miss of the INSERTs of others, whatever fails, is lost with its worker, put
\* back by the reaper or deleted meanwhile (EnqueueFetchSource, Queue.Send).
THEOREM FetchesOnePerSender == SourceSpec => []OneFetchPerSender
<1>1. GateInv /\ [SourceNext]_sourceVars => GateInv'
  BY GateStep
<1>2. OneFetch /\ GateInv /\ [SourceNext]_sourceVars => OneFetch'
  BY OneFetchStep
<1>3. OneFetch => OneFetchPerSender
  <2> SUFFICES ASSUME OneFetch PROVE OneFetchPerSender
    OBVIOUS
  <2>1. DOMAIN queue = 1..Len(queue) /\ \A i \in DOMAIN queue : queue[i] \in Range(queue)
    BY DEF OneFetch, Range
  <2> QED
    BY <2>1 DEF OneFetch, OneFetchPerSender, NoDup
<1> QED
  BY <1>1, <1>2, <1>3, GateStart, OneFetchStart, PTL DEF SourceSpec
=============================================================================
