--------------------------- MODULE CollectorProofs ---------------------------
(***************************************************************************)
(* Collector is correct for any sources, intervals, number of manual runs  *)
(* and number of mishaps: proofs.                                          *)
(***************************************************************************)
EXTENDS Collector, FiniteSetTheorems, TLAPS

Outcomes == {"success", "warning", "failure"}

USE ConstantsAssumption DEF Outcomes

Polling == {"fetch", "finish", "stamp"}

\* A caller has a source in hand exactly while it polls it, and an outcome
\* while it records it.
HandOK ==
  \A c \in Callers :
    /\ pc[c] \in Polling <=> cur[c] # None
    /\ pc[c] \in {"finish", "stamp"} => outcome[c] \in Outcomes

\* The sources a caller has still to poll have rested since it took its
\* snapshot; the one in its hand is no longer among them.
TodoOK ==
  \A c \in Callers :
    /\ todo[c] # {} => pc[c] \in Polling \cup {"scan"}
    /\ cur[c] \notin todo[c]
    /\ \A s \in todo[c] : last[s] = "never" \/ age[s] >= Gap(last[s])

\* Nobody but the caller itself finishes the run it has created ...
RowOK ==
  \A c \in Callers :
    pc[c] \in {"fetch", "finish"} /\ cur[c] \in registered => open[cur[c]] >= 1

\* ... or writes a row of its source between the two statements.
LatestOK ==
  \A c \in Callers :
    pc[c] = "stamp" /\ cur[c] \in registered => latest[cur[c]] = outcome[c]

\* A dead process has no goroutines.
DownOK == ~up => \A c \in Callers : pc[c] \in {"none", "end"}

IInv == TypeOK /\ OneCollector /\ HandOK /\ TodoOK /\ RowOK /\ LatestOK /\ DownOK

LEMMA InitIInv == Init => IInv
<1> SUFFICES ASSUME Init PROVE IInv
  OBVIOUS
<1>1. TypeOK
  <2>1. interval \in [Sources -> Nat]
    BY DEF Init
  <2>2. pc \in [Callers -> Inside \cup {"none", "enter", "select", "end"}]
    BY DEF Init
  <2>3. todo \in [Callers -> SUBSET Sources] /\ cancelled \subseteq Callers
    BY DEF Init
  <2>4. /\ cur \in [Callers -> Sources \cup {None}]
        /\ outcome \in [Callers -> {"success", "warning", "failure", None}]
    BY DEF Init
  <2>5. /\ last \in [Sources -> {"never", "success", "failure"}]
        /\ latest \in [Sources -> {"success", "warning", "failure", None}]
    BY DEF Init
  <2>6. /\ age \in [Sources -> Nat] /\ open \in [Sources -> Nat]
        /\ \A s \in Sources : age[s] <= AgeCap
    BY DEF Init
  <2>7. QED
    BY <2>1, <2>2, <2>3, <2>4, <2>5, <2>6 DEF Init, TypeOK
<1>2. OneCollector
  BY DEF Init, OneCollector, Inside
<1>3. HandOK /\ TodoOK
  BY DEF Init, HandOK, TodoOK, Polling
<1>4. RowOK /\ LatestOK /\ DownOK
  BY DEF Init, RowOK, LatestOK, DownOK
<1>5. QED
  BY <1>1, <1>2, <1>3, <1>4 DEF IInv

\* A source that sourceDue lets through has rested.
LEMMA ThresholdGap ==
  ASSUME TypeOK, NEW s \in Sources, MayBeDue(s)
  PROVE  last[s] = "never" \/ age[s] >= Gap(last[s])
<1>1. interval[s] \in Nat
  BY DEF TypeOK
<1>2. age[s] \in Nat
  BY DEF TypeOK
<1>3. Interval(s) \in Nat /\ Interval(s) >= 1
  BY <1>1 DEF Interval, Max2
<1>4. CASE last[s] = "failure"
  BY <1>2, <1>3, <1>4 DEF MayBeDue, Threshold, Gap, Min2
<1>5. CASE last[s] # "failure"
  BY <1>2, <1>3, <1>5 DEF MayBeDue, Threshold, Gap, Min2
<1>6. QED
  BY <1>4, <1>5

LEMMA EnterStep ==
  ASSUME IInv, NEW c \in Callers, Enter(c)
  PROVE  IInv'
<1> USE DEF IInv, Enter, LoseFlag, Return, Goto, config, health, rows, budgets
<1>1. TypeOK'
  BY DEF TypeOK, Inside
<1>2. OneCollector'
  BY DEF TypeOK, OneCollector, Inside
<1>3. HandOK' /\ TodoOK'
  BY DEF TypeOK, HandOK, TodoOK, Polling
<1>4. RowOK' /\ LatestOK' /\ DownOK'
  BY DEF TypeOK, RowOK, LatestOK, DownOK
<1>5. QED
  BY <1>1, <1>2, <1>3, <1>4

LEMMA ListSourcesStep ==
  ASSUME IInv, NEW c \in Callers, ListSources(c)
  PROVE  IInv'
<1> USE DEF IInv, ListSources, ListFailed, StoreError, Goto,
      config, health, rows, budgets
<1>1. TypeOK'
  <2>1. todo' \in [Callers -> SUBSET Sources]
    <3>1. CASE UNCHANGED todo
      BY <3>1 DEF TypeOK
    <3>2. CASE \E due \in SUBSET Pollable : todo' = [todo EXCEPT ![c] = due]
      <4>1. Pollable \subseteq Sources
        BY DEF Pollable, TypeOK
      <4>2. QED
        BY <3>2, <4>1 DEF TypeOK
    <3>3. QED
      BY <3>1, <3>2
  <2>2. QED
    BY <2>1 DEF TypeOK, Inside
<1>2. OneCollector'
  BY DEF TypeOK, OneCollector, Inside
<1>3. HandOK'
  BY DEF TypeOK, HandOK, Polling
<1>4. TodoOK'
  <2>1. todo[c] = {}
    BY DEF TodoOK, Polling
  <2>2. CASE UNCHANGED todo
    BY <2>1, <2>2 DEF TypeOK, TodoOK, Polling
  <2>3. CASE c \notin cancelled /\ pc' = [pc EXCEPT ![c] = "scan"] /\
             \E due \in SUBSET Pollable :
               /\ \A s \in due : MayBeDue(s)
               /\ todo' = [todo EXCEPT ![c] = due]
    <3>1. PICK due \in SUBSET Pollable :
            /\ \A s \in due : MayBeDue(s)
            /\ todo' = [todo EXCEPT ![c] = due]
      BY <2>3
    <3>2. due \subseteq Sources
      BY DEF Pollable, TypeOK
    <3>3. \A s \in due : last[s] = "never" \/ age[s] >= Gap(last[s])
      BY <3>1, <3>2, ThresholdGap
    <3>4. cur[c] = None
      BY DEF HandOK, Polling
    <3>5. cur[c] \notin due
      BY <3>2, <3>4
    <3>6. todo'[c] = due /\ \A d \in Callers : d # c => todo'[d] = todo[d] /\ pc'[d] = pc[d]
      BY <3>1, <2>3 DEF TypeOK
    <3>7. pc'[c] = "scan"
      BY <2>3 DEF TypeOK
    <3>8. QED
      BY <3>3, <3>5, <3>6, <3>7 DEF TodoOK, Polling
  <2>4. QED
    BY <2>2, <2>3
<1>5. RowOK'
  BY DEF TypeOK, OneCollector, HandOK, RowOK, Inside, Polling
<1>6. LatestOK'
  BY DEF TypeOK, OneCollector, HandOK, LatestOK, Inside, Polling
<1>7. DownOK'
  BY DEF TypeOK, DownOK
<1>8. QED
  BY <1>1, <1>2, <1>3, <1>4, <1>5, <1>6, <1>7

LEMMA CreateSourceRunStep ==
  ASSUME IInv, NEW c \in Callers, NEW s \in Sources, CreateSourceRun(c, s)
  PROVE  IInv'
<1> USE DEF IInv, CreateSourceRun, OpenRow, StoreError, Goto,
      config, health, rows, budgets
<1>1. TypeOK'
  BY DEF TypeOK, Inside
<1>2. OneCollector'
  BY DEF TypeOK, OneCollector, Inside
<1>3. HandOK'
  BY DEF TypeOK, HandOK, Polling
<1>4. TodoOK'
  BY DEF TypeOK, HandOK, TodoOK, Polling
<1>5. RowOK'
  BY DEF TypeOK, OneCollector, HandOK, RowOK, Inside, Polling
<1>6. LatestOK'
  BY DEF TypeOK, OneCollector, HandOK, LatestOK, Inside, Polling
<1>7. DownOK'
  BY DEF TypeOK, DownOK
<1>8. QED
  BY <1>1, <1>2, <1>3, <1>4, <1>5, <1>6, <1>7

LEMMA FetchStep ==
  ASSUME IInv, NEW c \in Callers, Fetch(c)
  PROVE  IInv'
<1> USE DEF IInv, Fetch, Fetched, Goto,
      config, health, rows, budgets
<1>1. TypeOK'
  BY DEF TypeOK, Inside
<1>2. OneCollector'
  BY DEF TypeOK, OneCollector, Inside
<1>3. HandOK'
  BY DEF TypeOK, HandOK, Polling
<1>4. TodoOK'
  BY DEF TypeOK, HandOK, TodoOK, Polling
<1>5. RowOK'
  BY DEF TypeOK, OneCollector, HandOK, RowOK, Inside, Polling
<1>6. LatestOK'
  BY DEF TypeOK, OneCollector, HandOK, LatestOK, Inside, Polling
<1>7. DownOK'
  BY DEF TypeOK, DownOK
<1>8. QED
  BY <1>1, <1>2, <1>3, <1>4, <1>5, <1>6, <1>7

LEMMA FinishRowStep ==
  ASSUME IInv, NEW c \in Callers, FinishRow(c)
  PROVE  IInv'
<1> USE DEF IInv, FinishRow, CloseRow, RowFailed, NextSource, StoreError, Goto,
      config, health, rows, budgets
<1>1. TypeOK'
  <2>1. cur[c] # None /\ cur[c] \in Sources /\ outcome[c] \in Outcomes
    BY DEF TypeOK, HandOK, Polling
  <2>2. open' \in [Sources -> Nat]
    <3>1. cur[c] \in registered => open[cur[c]] \in Nat /\ open[cur[c]] - 1 \in Nat
      BY <2>1 DEF TypeOK, RowOK
    <3>2. QED
      BY <2>1, <3>1 DEF TypeOK
  <2>3. latest' \in [Sources -> {"success", "warning", "failure", None}]
    BY <2>1 DEF TypeOK
  <2>4. QED
    BY <2>1, <2>2, <2>3 DEF TypeOK, Inside
<1>2. OneCollector'
  BY DEF TypeOK, OneCollector, Inside
<1>3. HandOK'
  BY DEF TypeOK, HandOK, Polling
<1>4. TodoOK'
  BY DEF TypeOK, HandOK, TodoOK, Polling
<1>5. RowOK'
  BY DEF TypeOK, OneCollector, HandOK, RowOK, Inside, Polling
<1>6. LatestOK'
  BY DEF TypeOK, OneCollector, HandOK, LatestOK, Inside, Polling
<1>7. DownOK'
  BY DEF TypeOK, DownOK
<1>8. QED
  BY <1>1, <1>2, <1>3, <1>4, <1>5, <1>6, <1>7

LEMMA StampStep ==
  ASSUME IInv, NEW c \in Callers, Stamp(c)
  PROVE  IInv'
<1> USE DEF IInv, Stamp, StampSource, NextSource, StoreError, Goto,
      config, health, rows, budgets
<1>1. TypeOK'
  <2>1. cur[c] \in Sources /\ Health(outcome[c]) \in {"success", "failure"}
    BY DEF TypeOK, HandOK, Polling, Health
  <2>2. last' \in [Sources -> {"never", "success", "failure"}]
    BY <2>1 DEF TypeOK
  <2>3. age' \in [Sources -> Nat] /\ \A s \in Sources : age'[s] <= AgeCap
    BY <2>1 DEF TypeOK
  <2>4. QED
    BY <2>2, <2>3 DEF TypeOK, Inside
<1>2. OneCollector'
  BY DEF TypeOK, OneCollector, Inside
<1>3. HandOK'
  BY DEF TypeOK, HandOK, Polling
<1>4. TodoOK'
  <2>1. todo' = todo /\ \A d \in Callers : d # c => todo[d] = {}
    BY DEF OneCollector, TodoOK, Inside, Polling
  <2>2. \A s \in todo[c] : s \in Sources /\ s # cur[c]
    BY DEF TypeOK, TodoOK
  <2>3. \A s \in todo[c] : last'[s] = last[s] /\ age'[s] = age[s]
    BY <2>2 DEF TypeOK
  <2>4. pc'[c] = "scan" /\ cur'[c] = None /\ None \notin todo[c]
    BY DEF TypeOK
  <2>5. \A d \in Callers : d # c => cur'[d] = cur[d]
    BY DEF TypeOK
  <2>6. QED
    BY <2>1, <2>2, <2>3, <2>4, <2>5 DEF TodoOK, Polling
<1>5. RowOK'
  BY DEF TypeOK, OneCollector, HandOK, RowOK, Inside, Polling
<1>6. LatestOK'
  BY DEF TypeOK, OneCollector, HandOK, LatestOK, Inside, Polling
<1>7. DownOK'
  BY DEF TypeOK, DownOK
<1>8. QED
  BY <1>1, <1>2, <1>3, <1>4, <1>5, <1>6, <1>7

LEMMA EndScanStep ==
  ASSUME IInv, NEW c \in Callers, EndScan(c)
  PROVE  IInv'
<1> USE DEF IInv, EndScan, Goto,
      config, health, rows, budgets
<1>1. TypeOK'
  BY DEF TypeOK, Inside
<1>2. OneCollector'
  BY DEF TypeOK, OneCollector, Inside
<1>3. HandOK'
  BY DEF TypeOK, HandOK, Polling
<1>4. TodoOK'
  BY DEF TypeOK, HandOK, TodoOK, Polling
<1>5. RowOK'
  BY DEF TypeOK, OneCollector, HandOK, RowOK, Inside, Polling
<1>6. LatestOK'
  BY DEF TypeOK, OneCollector, HandOK, LatestOK, Inside, Polling
<1>7. DownOK'
  BY DEF TypeOK, DownOK
<1>8. QED
  BY <1>1, <1>2, <1>3, <1>4, <1>5, <1>6, <1>7

LEMMA LeaveStep ==
  ASSUME IInv, NEW c \in Callers, Leave(c)
  PROVE  IInv'
<1> USE DEF IInv, Leave, Return, Goto,
      config, health, rows, budgets
<1>1. TypeOK'
  BY DEF TypeOK, Inside
<1>2. OneCollector'
  BY DEF TypeOK, OneCollector, Inside
<1>3. HandOK'
  BY DEF TypeOK, HandOK, Polling
<1>4. TodoOK'
  BY DEF TypeOK, HandOK, TodoOK, Polling
<1>5. RowOK'
  BY DEF TypeOK, OneCollector, HandOK, RowOK, Inside, Polling
<1>6. LatestOK'
  BY DEF TypeOK, OneCollector, HandOK, LatestOK, Inside, Polling
<1>7. DownOK'
  BY DEF TypeOK, DownOK
<1>8. QED
  BY <1>1, <1>2, <1>3, <1>4, <1>5, <1>6, <1>7

LEMMA LoopStep ==
  ASSUME IInv, LoopTick \/ LoopDone
  PROVE  IInv'
<1> USE DEF IInv, LoopTick, LoopDone, Goto, Callers,
      local, config, health, rows, budgets
<1>1. TypeOK'
  BY DEF TypeOK, Inside
<1>2. OneCollector'
  BY DEF TypeOK, OneCollector, Inside
<1>3. HandOK' /\ TodoOK'
  BY DEF TypeOK, HandOK, TodoOK, Polling
<1>4. RowOK' /\ LatestOK'
  BY DEF TypeOK, HandOK, RowOK, LatestOK, Polling
<1>5. DownOK'
  BY DEF TypeOK, DownOK
<1>6. QED
  BY <1>1, <1>2, <1>3, <1>4, <1>5

LEMMA RequestStep ==
  ASSUME IInv, NEW r \in Requests, RunOnce(r) \/ HandlerReturns(r)
  PROVE  IInv'
<1> USE DEF IInv, RunOnce, HandlerReturns, Goto, Callers,
      local, config, health, rows, budgets
<1>1. TypeOK'
  BY DEF TypeOK, Inside
<1>2. OneCollector'
  BY DEF TypeOK, OneCollector, Inside
<1>3. HandOK' /\ TodoOK'
  BY DEF TypeOK, HandOK, TodoOK, Polling
<1>4. RowOK' /\ LatestOK'
  BY DEF TypeOK, HandOK, RowOK, LatestOK, Polling
<1>5. DownOK'
  BY DEF TypeOK, DownOK
<1>6. QED
  BY <1>1, <1>2, <1>3, <1>4, <1>5

LEMMA ClockTickStep ==
  ASSUME IInv, ClockTick
  PROVE  IInv'
<1> USE DEF IInv, ClockTick, Min2,
      local, config, health, rows, budgets
<1>1. TypeOK'
  BY DEF TypeOK, Inside
<1>2. OneCollector'
  BY DEF TypeOK, OneCollector, Inside
<1>3. HandOK' /\ TodoOK'
  <2>1. \A s \in Sources : age[s] \in Nat /\ age'[s] \in Nat /\ age'[s] >= age[s]
    BY DEF TypeOK
  <2>2. \A s \in Sources : Gap(last[s]) \in Nat
    BY DEF Gap
  <2>3. \A d \in Callers : todo[d] \subseteq Sources
    BY DEF TypeOK
  <2>4. TodoOK'
    BY <2>1, <2>2, <2>3 DEF TodoOK, Polling
  <2>5. QED
    BY <2>4 DEF HandOK, Polling
<1>4. RowOK' /\ LatestOK'
  BY DEF TypeOK, HandOK, RowOK, LatestOK, Polling
<1>5. DownOK'
  BY DEF TypeOK, DownOK
<1>6. QED
  BY <1>1, <1>2, <1>3, <1>4, <1>5

LEMMA EditSourceStep ==
  ASSUME IInv, NEW s \in Sources, EditSource(s)
  PROVE  IInv'
<1> USE DEF IInv, EditSource,
      local, config, health, rows, budgets
<1>1. TypeOK'
  BY DEF TypeOK, Inside
<1>2. OneCollector'
  BY DEF TypeOK, OneCollector, Inside
<1>3. HandOK' /\ TodoOK'
  BY DEF TypeOK, HandOK, TodoOK, Polling
<1>4. RowOK' /\ LatestOK'
  BY DEF TypeOK, HandOK, RowOK, LatestOK, Polling
<1>5. DownOK'
  BY DEF TypeOK, DownOK
<1>6. QED
  BY <1>1, <1>2, <1>3, <1>4, <1>5

LEMMA DeleteSourceStep ==
  ASSUME IInv, NEW s \in Sources, DeleteSource(s)
  PROVE  IInv'
<1> USE DEF IInv, DeleteSource,
      local, config, health, rows, budgets
<1>1. TypeOK'
  BY DEF TypeOK, Inside
<1>2. OneCollector'
  BY DEF TypeOK, OneCollector, Inside
<1>3. HandOK' /\ TodoOK'
  BY DEF TypeOK, HandOK, TodoOK, Polling
<1>4. RowOK' /\ LatestOK'
  BY DEF TypeOK, HandOK, RowOK, LatestOK, Polling
<1>5. DownOK'
  BY DEF TypeOK, DownOK
<1>6. QED
  BY <1>1, <1>2, <1>3, <1>4, <1>5

LEMMA StopStep ==
  ASSUME IInv, Stop
  PROVE  IInv'
<1> USE DEF IInv, Stop, Callers,
      local, config, health, rows, budgets
<1>1. TypeOK'
  BY DEF TypeOK, Inside
<1>2. OneCollector'
  BY DEF TypeOK, OneCollector, Inside
<1>3. HandOK' /\ TodoOK'
  BY DEF TypeOK, HandOK, TodoOK, Polling
<1>4. RowOK' /\ LatestOK'
  BY DEF TypeOK, HandOK, RowOK, LatestOK, Polling
<1>5. DownOK'
  BY DEF TypeOK, DownOK
<1>6. QED
  BY <1>1, <1>2, <1>3, <1>4, <1>5

LEMMA DieStep ==
  ASSUME IInv, Exit \/ Crash
  PROVE  IInv'
<1> USE DEF IInv, Exit, Crash, Die,
      local, config, health, rows, budgets
<1>1. TypeOK'
  <2>1. pc' \in [Callers -> Inside \cup {"none", "enter", "select", "end"}]
    OBVIOUS
  <2>2. /\ todo' \in [Callers -> SUBSET Sources]
        /\ cur' \in [Callers -> Sources \cup {None}]
        /\ outcome' \in [Callers -> {"success", "warning", "failure", None}]
    OBVIOUS
  <2>3. faults' \in Nat /\ stops' \in Nat
    BY DEF TypeOK
  <2>4. QED
    BY <2>1, <2>2, <2>3 DEF TypeOK
<1>2. OneCollector'
  BY DEF TypeOK, OneCollector, Inside
<1>3. HandOK' /\ TodoOK'
  BY DEF TypeOK, HandOK, TodoOK, Polling
<1>4. RowOK' /\ LatestOK'
  BY DEF TypeOK, HandOK, RowOK, LatestOK, Polling
<1>5. DownOK'
  BY DEF TypeOK, DownOK
<1>6. QED
  BY <1>1, <1>2, <1>3, <1>4, <1>5

LEMMA RestartStep ==
  ASSUME IInv, Restart
  PROVE  IInv'
<1> USE DEF IInv, Restart, Goto, Callers,
      local, config, health, rows, budgets
<1>1. TypeOK'
  BY DEF TypeOK, Inside
<1>2. OneCollector'
  <2>1. \A d \in Callers : pc'[d] \in {"none", "end", "enter"}
    BY DEF TypeOK, DownOK
  <2>2. ~running
    BY DEF DownOK, OneCollector, Inside
  <2>3. QED
    BY <2>1, <2>2 DEF OneCollector, Inside
<1>3. HandOK' /\ TodoOK'
  <2>1. \A d \in Callers : pc[d] \in {"none", "end"} /\ pc'[d] \in {"none", "end", "enter"}
    BY DEF TypeOK, DownOK
  <2>2. \A d \in Callers : todo[d] = {}
    BY <2>1 DEF TodoOK, Polling
  <2>3. \A d \in Callers : cur[d] = None
    BY <2>1 DEF HandOK, Polling
  <2>4. \A d \in Callers : todo'[d] = {} /\ cur'[d] = None
    BY <2>2, <2>3
  <2>5. QED
    BY <2>1, <2>4 DEF HandOK, TodoOK, Polling
<1>4. RowOK' /\ LatestOK'
  BY DEF TypeOK, HandOK, RowOK, LatestOK, Polling
<1>5. DownOK'
  BY DEF TypeOK, DownOK
<1>6. QED
  BY <1>1, <1>2, <1>3, <1>4, <1>5

\* A step in which nothing of the state changes keeps the invariant.
LEMMA StutterStep ==
  ASSUME IInv, UNCHANGED vars
  PROVE  IInv'
<1> USE DEF vars, local, config, health, rows, budgets, IInv
<1>1. TypeOK' /\ OneCollector'
  BY DEF TypeOK, OneCollector
<1>2. HandOK' /\ TodoOK'
  BY DEF HandOK, TodoOK
<1>3. RowOK' /\ LatestOK' /\ DownOK'
  BY DEF RowOK, LatestOK, DownOK
<1>4. QED
  BY <1>1, <1>2, <1>3

LEMMA CollectStep ==
  ASSUME IInv, NEW c \in Callers, Collect(c)
  PROVE  IInv'
<1>1. CASE Enter(c)
  BY <1>1, EnterStep
<1>2. CASE ListSources(c)
  BY <1>2, ListSourcesStep
<1>3. CASE \E s \in Sources : CreateSourceRun(c, s)
  BY <1>3, CreateSourceRunStep
<1>4. CASE Fetch(c)
  BY <1>4, FetchStep
<1>5. CASE FinishRow(c)
  BY <1>5, FinishRowStep
<1>6. CASE Stamp(c)
  BY <1>6, StampStep
<1>7. CASE EndScan(c)
  BY <1>7, EndScanStep
<1>8. CASE Leave(c)
  BY <1>8, LeaveStep
<1>9. QED
  BY <1>1, <1>2, <1>3, <1>4, <1>5, <1>6, <1>7, <1>8 DEF Collect

LEMMA NextStep ==
  ASSUME IInv, [Next]_vars
  PROVE  IInv'
<1>1. CASE \E c \in Callers : Collect(c)
  BY <1>1, CollectStep
<1>2. CASE LoopTick \/ LoopDone
  BY <1>2, LoopStep
<1>3. CASE \E r \in Requests : RunOnce(r) \/ HandlerReturns(r)
  BY <1>3, RequestStep
<1>4. CASE ClockTick
  BY <1>4, ClockTickStep
<1>5. CASE \E s \in Sources : EditSource(s) \/ DeleteSource(s)
  BY <1>5, EditSourceStep, DeleteSourceStep
<1>6. CASE Stop
  BY <1>6, StopStep
<1>7. CASE Exit \/ Crash
  BY <1>7, DieStep
<1>8. CASE Restart
  BY <1>8, RestartStep
<1>9. CASE UNCHANGED vars
  BY <1>9, StutterStep
<1>10. QED
  BY <1>1, <1>2, <1>3, <1>4, <1>5, <1>6, <1>7, <1>8, <1>9 DEF Next

\* The strengthening of everything below holds in every reachable state.
THEOREM Inductive == Spec => []IInv
<1>1. Init => IInv
  BY InitIInv
<1>2. IInv /\ [Next]_vars => IInv'
  BY NextStep
<1>3. QED
  BY <1>1, <1>2, PTL DEF Spec

\* Every variable keeps its range; no run is finished that was not created.
THEOREM TypeCorrect == Spec => []TypeOK
<1>1. IInv => TypeOK
  BY DEF IInv
<1>2. QED
  BY <1>1, Inductive, PTL

\* Manager.running admits one collection at a time, through manual runs,
\* failures, crashes and restarts, and is up only while there is one.
THEOREM MutualExclusion == Spec => []OneCollector
<1>1. IInv => OneCollector
  BY DEF IInv
<1>2. QED
  BY <1>1, Inductive, PTL

\* Only CreateSourceRun starts a poll, of a source the caller had still to poll.
LEMMA PollIsCreate ==
  ASSUME TypeOK, Next, NEW s \in Sources, Polls(s)
  PROVE  \E c \in Callers : s \in todo[c]
<1>1. PICK c \in Callers : pc[c] = "scan" /\ pc'[c] = "fetch" /\ cur'[c] = s
  BY DEF Polls
<1>2. CASE \E d \in Callers : Collect(d)
  <2>1. PICK d \in Callers : Collect(d)
    BY <1>2
  <2>2. CASE Enter(d)
    BY <1>1, <2>2 DEF TypeOK, Enter, Return, Goto
  <2>3. CASE ListSources(d)
    BY <1>1, <2>3 DEF TypeOK, ListSources, ListFailed, Goto
  <2>4. CASE \E z \in Sources : CreateSourceRun(d, z)
    BY <1>1, <2>4 DEF TypeOK, CreateSourceRun, Goto
  <2>5. CASE Fetch(d)
    BY <1>1, <2>5 DEF TypeOK, Fetch, Fetched, Goto
  <2>6. CASE FinishRow(d)
    BY <1>1, <2>6 DEF TypeOK, FinishRow, RowFailed, NextSource, Goto
  <2>7. CASE Stamp(d)
    BY <1>1, <2>7 DEF TypeOK, Stamp, NextSource, Goto
  <2>8. CASE EndScan(d)
    BY <1>1, <2>8 DEF TypeOK, EndScan, Goto
  <2>9. CASE Leave(d)
    BY <1>1, <2>9 DEF TypeOK, Leave, Return, Goto
  <2>10. QED
    BY <2>1, <2>2, <2>3, <2>4, <2>5, <2>6, <2>7, <2>8, <2>9 DEF Collect
<1>3. CASE LoopTick \/ LoopDone \/ Restart
  BY <1>1, <1>3 DEF TypeOK, LoopTick, LoopDone, Restart, Goto
<1>4. CASE \E r \in Requests : RunOnce(r) \/ HandlerReturns(r)
  BY <1>1, <1>4 DEF TypeOK, RunOnce, HandlerReturns, Goto, local
<1>5. CASE ClockTick \/ Stop \/ \E z \in Sources : EditSource(z) \/ DeleteSource(z)
  BY <1>1, <1>5 DEF ClockTick, Stop, EditSource, DeleteSource, local
<1>6. CASE Exit \/ Crash
  BY <1>1, <1>6 DEF Exit, Crash, Die
<1>7. QED
  BY <1>2, <1>3, <1>4, <1>5, <1>6 DEF Next

\* No site is asked again before its source has rested.
THEOREM PollsRest == Spec => PollSpacing
<1>1. IInv /\ [Next]_vars => [PollRested]_vars
  <2>1. SUFFICES ASSUME IInv, Next, NEW s \in Sources, Polls(s)
                 PROVE  last[s] = "never" \/ age[s] >= Gap(last[s])
    BY DEF PollRested
  <2>2. PICK c \in Callers : s \in todo[c]
    BY <2>1, PollIsCreate DEF IInv
  <2>3. QED
    BY <2>1, <2>2 DEF IInv, TodoOK
<1>2. QED
  BY <1>1, Inductive, PTL DEF Spec, PollSpacing

\* The health columns never run ahead of the run log.
THEOREM StampsBacked == Spec => StampFollowsRow
<1>1. IInv /\ [Next]_vars => [StampBacked]_vars
  <2>1. SUFFICES ASSUME IInv, Next, NEW s \in registered',
                        last'[s] # last[s] \/ age'[s] < age[s]
                 PROVE  latest[s] # None /\ last'[s] = Health(latest[s])
    BY DEF StampBacked
  <2> USE DEF IInv
  <2>2. s \in Sources
    <3>1. registered' \subseteq Sources
      BY <2>1, NextStep DEF TypeOK
    <3>2. QED
      BY <3>1
  <2>3. CASE \E c \in Callers : Stamp(c)
    <3>1. PICK c \in Callers : Stamp(c)
      BY <2>3
    <3>2. cur[c] = s /\ pc[c] = "stamp" /\ s \in registered /\ StampSource(s, outcome[c])
      BY <2>1, <2>2, <3>1 DEF Stamp, StampSource, TypeOK, health, config
    <3>3. latest[s] = outcome[c] /\ outcome[c] \in Outcomes
      BY <2>1, <3>2 DEF LatestOK, HandOK
    <3>4. QED
      BY <2>1, <2>2, <3>2, <3>3 DEF StampSource, TypeOK
  <2>4. CASE ClockTick
    <3>1. last' = last /\ age'[s] = Min2(age[s] + 1, AgeCap)
      BY <2>2, <2>4 DEF ClockTick
    <3>2. age[s] \in Nat /\ age[s] <= AgeCap
      BY <2>1, <2>2 DEF TypeOK
    <3>3. QED
      BY <2>1, <3>1, <3>2 DEF Min2
  <2>5. CASE \E z \in Sources : DeleteSource(z)
    BY <2>1, <2>2, <2>5 DEF DeleteSource, TypeOK
  <2>6. CASE UNCHANGED health
    <3>1. last'[s] = last[s] /\ age'[s] = age[s] /\ age[s] \in Nat
      BY <2>1, <2>2, <2>6 DEF health, TypeOK
    <3>2. QED
      BY <2>1, <3>1
  <2>7. (\E c \in Callers : Collect(c)) => (\E c \in Callers : Stamp(c)) \/ UNCHANGED health
    BY DEF Collect, Enter, ListSources, CreateSourceRun, Fetch, FinishRow, EndScan, Leave
  <2>8. LoopTick \/ LoopDone \/ Restart \/ Stop \/ Exit \/ Crash => UNCHANGED health
    BY DEF LoopTick, LoopDone, Restart, Stop, Exit, Crash, Die
  <2>9. (\E r \in Requests : RunOnce(r) \/ HandlerReturns(r)) => UNCHANGED health
    BY DEF RunOnce, HandlerReturns
  <2>10. (\E z \in Sources : EditSource(z)) => UNCHANGED health
    BY DEF EditSource
  <2>11. QED
    BY <2>1, <2>3, <2>4, <2>5, <2>6, <2>7, <2>8, <2>9, <2>10 DEF Next
<1>2. QED
  BY <1>1, Inductive, PTL DEF Spec, StampFollowsRow
-----------------------------------------------------------------------------
(* The implementation of PollDuty *)

\* The source being polled is the one in the hand of the caller that has one.
ActiveOK ==
  /\ \A c \in Callers : cur[c] # None => Active = cur[c]
  /\ (\A c \in Callers : cur[c] = None) => Active = None

LEMMA ActiveUnique == IInv => ActiveOK
<1> SUFFICES ASSUME IInv PROVE ActiveOK
  OBVIOUS
<1>1. ASSUME NEW c \in Callers, NEW d \in Callers, cur[c] # None, cur[d] # None
      PROVE  c = d
  BY <1>1 DEF IInv, HandOK, OneCollector, Polling, Inside
<1>2. ASSUME NEW c \in Callers, cur[c] # None
      PROVE  Active = cur[c]
  <2> DEFINE d == CHOOSE e \in Callers : cur[e] # None
  <2>1. d \in Callers /\ cur[d] # None
    BY <1>2
  <2>2. d = c
    BY <1>1, <1>2, <2>1
  <2>3. QED
    BY <1>2, <2>2 DEF Active
<1>3. (\A c \in Callers : cur[c] = None) => Active = None
  BY DEF Active
<1>4. QED
  BY <1>2, <1>3 DEF ActiveOK

LEMMA ActiveUniqueNext == IInv' => ActiveOK'
<1> SUFFICES ASSUME IInv' PROVE ActiveOK'
  OBVIOUS
<1>1. ASSUME NEW c \in Callers, NEW d \in Callers, cur'[c] # None, cur'[d] # None
      PROVE  c = d
  BY <1>1 DEF IInv, HandOK, OneCollector, Polling, Inside
<1>2. ASSUME NEW c \in Callers, cur'[c] # None
      PROVE  Active' = cur'[c]
  <2> DEFINE d == CHOOSE e \in Callers : cur'[e] # None
  <2>1. d \in Callers /\ cur'[d] # None
    BY <1>2
  <2>2. d = c
    BY <1>1, <1>2, <2>1
  <2>3. QED
    BY <1>2, <2>2 DEF Active
<1>3. (\A c \in Callers : cur'[c] = None) => Active' = None
  BY DEF Active
<1>4. QED
  BY <1>2, <1>3 DEF ActiveOK

LEMMA SameActive == cur' = cur => Active' = Active
BY DEF Active

\* A caller that puts its source down leaves nobody with one.
LEMMA PutDown ==
  ASSUME IInv, IInv', NEW c \in Callers, pc[c] \in Polling, NextSource(c)
  PROVE  Active = cur[c] /\ Active # None /\ Active' = None
<1>1. cur[c] # None
  BY DEF IInv, HandOK
<1>2. \A d \in Callers : d # c => cur[d] = None
  BY DEF IInv, HandOK, OneCollector, Polling, Inside
<1>3. \A d \in Callers : cur'[d] = None
  BY <1>2 DEF NextSource, IInv, TypeOK
<1>4. QED
  BY <1>1, <1>3, ActiveUnique, ActiveUniqueNext DEF ActiveOK

\* What one step of a collection is to the duty.
LEMMA CollectDuty ==
  ASSUME IInv, IInv', NEW c \in Callers, Collect(c)
  PROVE  Duty!Next \/ UNCHANGED <<Active, last, age>>
<1>1. CASE \E s \in Sources : CreateSourceRun(c, s)
  <2>1. PICK s \in Sources : CreateSourceRun(c, s)
    BY <1>1
  <2>2. UNCHANGED <<last, age>>
    BY <2>1 DEF CreateSourceRun, health
  <2>3. CASE cur' = cur
    BY <2>2, <2>3, SameActive
  <2>4. CASE cur' = [cur EXCEPT ![c] = s]
    <3>1. \A d \in Callers : cur[d] = None
      BY <2>1 DEF CreateSourceRun, IInv, HandOK, OneCollector, Polling, Inside
    <3>2. Active = None
      BY <3>1, ActiveUnique DEF ActiveOK
    <3>3. s # None /\ cur'[c] = s
      BY <2>4 DEF IInv, TypeOK
    <3>4. Active' = s
      BY <3>3, ActiveUniqueNext DEF ActiveOK
    <3>5. last[s] = "never" \/ age[s] >= Gap(last[s])
      BY <2>1 DEF CreateSourceRun, IInv, TodoOK
    <3>6. Duty!Begin(s)
      BY <2>2, <3>2, <3>4, <3>5 DEF Duty!Begin, Duty!Rested
    <3>7. QED
      BY <3>6 DEF Duty!Next
  <2>5. QED
    BY <2>1, <2>3, <2>4 DEF CreateSourceRun
<1>2. CASE FinishRow(c)
  <2>1. UNCHANGED <<last, age>>
    BY <1>2 DEF FinishRow, health
  <2>2. CASE UNCHANGED cur
    BY <2>1, <2>2, SameActive
  <2>3. CASE NextSource(c)
    <3>1. Active # None /\ Active' = None
      BY <1>2, <2>3, PutDown DEF FinishRow, Polling
    <3>2. QED
      BY <2>1, <3>1 DEF Duty!Next, Duty!Drop
  <2>4. QED
    BY <1>2, <2>2, <2>3 DEF FinishRow, RowFailed
<1>3. CASE Stamp(c)
  <2>1. Active = cur[c] /\ Active # None /\ Active' = None
    BY <1>3, PutDown DEF Stamp, Polling
  <2>2. CASE UNCHANGED health
    BY <2>1, <2>2 DEF Duty!Next, Duty!Drop, health
  <2>3. CASE StampSource(cur[c], outcome[c])
    <3>1. Health(outcome[c]) \in {"success", "failure"}
      BY DEF Health
    <3>2. Duty!Record(Health(outcome[c]))
      BY <2>1, <2>3 DEF Duty!Record, StampSource
    <3>3. QED
      BY <3>1, <3>2 DEF Duty!Next
  <2>4. QED
    BY <1>3, <2>2, <2>3 DEF Stamp
<1>4. CASE Enter(c) \/ ListSources(c) \/ Fetch(c) \/ EndScan(c) \/ Leave(c)
  <2>1. UNCHANGED <<cur, last, age>>
    BY <1>4 DEF Enter, ListSources, Fetch, Fetched, EndScan, Leave, health
  <2>2. QED
    BY <2>1, SameActive
<1>5. QED
  BY <1>1, <1>2, <1>3, <1>4 DEF Collect

\* Whatever callers, users, failures and restarts do, the process keeps its duty
\* to the sites: one poll at a time, none before its source has rested.
THEOREM DutyImplemented == Spec => ImplementsPollDuty
<1>1. Init => Duty!Init
  <2>1. ASSUME Init PROVE Active = None
    BY <2>1 DEF Init, Active
  <2>2. QED
    BY <2>1 DEF Init, Duty!Init
<1>2. IInv /\ IInv' /\ [Next]_vars => [Duty!Next]_(Duty!vars)
  <2> SUFFICES ASSUME IInv, IInv', [Next]_vars
               PROVE  Duty!Next \/ UNCHANGED <<Active, last, age>>
    BY DEF Duty!vars
  <2>1. CASE \E c \in Callers : Collect(c)
    BY <2>1, CollectDuty
  <2>2. CASE ClockTick
    <3>1. Active' = Active /\ last' = last
      BY <2>2, SameActive DEF ClockTick, local
    <3>2. age' \in [Sources -> Nat]
      BY DEF IInv, TypeOK
    <3>3. \A s \in Sources : age'[s] \in {age[s], age[s] + 1}
      <4> TAKE s \in Sources
      <4>1. age[s] \in Nat /\ age[s] <= AgeCap /\ AgeCap \in Nat
        BY DEF IInv, TypeOK
      <4>2. age'[s] = Min2(age[s] + 1, AgeCap)
        BY <2>2 DEF ClockTick
      <4>3. QED
        BY <4>1, <4>2 DEF Min2
    <3>4. Duty!Pass
      BY <3>1, <3>2, <3>3 DEF Duty!Pass
    <3>5. QED
      BY <3>4 DEF Duty!Next
  <2>3. CASE \E s \in Sources : DeleteSource(s)
    <3>1. PICK s \in Sources : DeleteSource(s)
      BY <2>3
    <3>2. Active' = Active
      BY <3>1, SameActive DEF DeleteSource, local
    <3>3. Duty!Forget(s)
      BY <3>1, <3>2 DEF DeleteSource, Duty!Forget
    <3>4. QED
      BY <3>3 DEF Duty!Next
  <2>4. CASE Exit \/ Crash
    <3>1. UNCHANGED <<last, age>> /\ cur' = [c \in Callers |-> None]
      BY <2>4 DEF Exit, Crash, Die, health
    <3>2. Active' = None
      BY <3>1, ActiveUniqueNext DEF ActiveOK
    <3>3. CASE Active = None
      BY <3>1, <3>2, <3>3
    <3>4. CASE Active # None
      BY <3>1, <3>2, <3>4 DEF Duty!Next, Duty!Drop
    <3>5. QED
      BY <3>3, <3>4
  <2>5. CASE \/ LoopTick \/ LoopDone \/ Stop \/ Restart \/ UNCHANGED vars
             \/ \E r \in Requests : RunOnce(r) \/ HandlerReturns(r)
             \/ \E s \in Sources : EditSource(s)
    <3>1. UNCHANGED <<cur, last, age>>
      BY <2>5 DEF LoopTick, LoopDone, Stop, Restart, RunOnce, HandlerReturns, EditSource,
                  vars, local, health
    <3>2. QED
      BY <3>1, SameActive
  <2>6. QED
    BY <2>1, <2>2, <2>3, <2>4, <2>5 DEF Next
<1>3. QED
  BY <1>1, <1>2, Inductive, PTL DEF Spec, ImplementsPollDuty, Duty!Spec
-----------------------------------------------------------------------------
(* Rows left open *)

Writing == {"fetch", "finish"}

\* Somebody whose context is alive is about to finish a run of s.
Live(s) == \E c \in Callers : pc[c] \in Writing /\ cur[c] = s /\ c \notin cancelled

\* The open rows of s that nobody can finish any more: AbandonedRows counts one
\* when its poll is over, but its fate is sealed when the context ends.
Unheld(s) == IF Live(s) THEN open[s] - 1 ELSE open[s]
Doomed == UNION {{s} \X (1..Unheld(s)) : s \in registered}
Started == {r \in Requests : pc[r] # "none"}

AccountOK ==
  /\ IsFiniteSet(Doomed) /\ IsFiniteSet(Started)
  /\ Cardinality(Doomed) <= faults + stops + Cardinality(Ended)
  /\ \A r \in Requests : r \in cancelled => pc[r] # "none"

LEMMA EndedFinite ==
  ASSUME AccountOK
  PROVE  Ended \subseteq Started /\ IsFiniteSet(Ended) /\ Cardinality(Ended) \in Nat
<1>1. Ended \in SUBSET Started
  BY DEF AccountOK, Ended, Started
<1>2. QED
  BY <1>1, FS_Subset, FS_CardinalityType DEF AccountOK

\* What a step does to the account: rows that become doomed, causes that are new.
NoneDoomed == \A s \in registered' : s \in registered /\ Unheld(s)' <= Unheld(s)
OneDoomed ==
  /\ \A s \in registered' : s \in registered /\ Unheld(s)' <= Unheld(s) + 1
  /\ \A s, t \in registered' : Unheld(s)' > Unheld(s) /\ Unheld(t)' > Unheld(t) => s = t

LEMMA UnheldInt == ASSUME TypeOK, NEW s \in registered PROVE Unheld(s) \in Int
BY DEF TypeOK, Unheld

LEMMA UnheldIntNext == ASSUME TypeOK', NEW s \in registered' PROVE Unheld(s)' \in Int
BY DEF TypeOK, Unheld

LEMMA NoneDoomedSubset ==
  ASSUME TypeOK, TypeOK', NoneDoomed
  PROVE  Doomed' \subseteq Doomed
<1>1. ASSUME NEW s \in registered' PROVE {s} \X (1..Unheld(s)') \subseteq {s} \X (1..Unheld(s))
  BY <1>1, UnheldInt, UnheldIntNext DEF NoneDoomed
<1>2. QED
  BY <1>1 DEF Doomed, NoneDoomed

LEMMA OneDoomedSubset ==
  ASSUME TypeOK, TypeOK', OneDoomed
  PROVE  \E x : Doomed' \subseteq Doomed \cup {x}
<1>1. CASE NoneDoomed
  BY <1>1, NoneDoomedSubset
<1>2. CASE ~NoneDoomed
  <2>1. PICK t \in registered' : ~(Unheld(t)' <= Unheld(t))
    BY <1>2 DEF NoneDoomed, OneDoomed
  <2>2. t \in registered /\ Unheld(t) \in Int /\ Unheld(t)' \in Int
    BY <2>1, UnheldInt, UnheldIntNext DEF OneDoomed
  <2>3. Unheld(t)' = Unheld(t) + 1
    BY <2>1, <2>2 DEF OneDoomed
  <2>4. ASSUME NEW s \in registered', s # t
        PROVE  s \in registered /\ {s} \X (1..Unheld(s)') \subseteq {s} \X (1..Unheld(s))
    <3>1. s \in registered /\ Unheld(s) \in Int /\ Unheld(s)' \in Int
      BY UnheldInt, UnheldIntNext DEF OneDoomed
    <3>2. Unheld(s)' <= Unheld(s)
      BY <2>1, <2>2, <2>4, <3>1 DEF OneDoomed
    <3>3. QED
      BY <3>1, <3>2
  <2>5. 1..Unheld(t)' \subseteq (1..Unheld(t)) \cup {Unheld(t)'}
    BY <2>2, <2>3
  <2>6. {t} \X (1..Unheld(t)') \subseteq ({t} \X (1..Unheld(t))) \cup {<<t, Unheld(t)'>>}
    BY <2>5
  <2>7. Doomed' \subseteq Doomed \cup {<<t, Unheld(t)'>>}
    BY <2>2, <2>4, <2>6 DEF Doomed
  <2>8. QED
    BY <2>7
<1>3. QED
  BY <1>1, <1>2

\* Causes are not taken back, and a request is new to them at most one at a time.
Lasting ==
  /\ Ended \subseteq Ended' /\ faults' + stops' >= faults + stops
  /\ \E r : Started' \subseteq Started \cup {r}
  /\ \A r \in Requests : r \in cancelled' => pc'[r] # "none"
NewCause == faults' + stops' > faults + stops \/ \E r \in Requests : r \in Ended' /\ r \notin Ended

LEMMA LastingFinite ==
  ASSUME AccountOK, Lasting
  PROVE  /\ IsFiniteSet(Started') /\ IsFiniteSet(Ended')
         /\ Cardinality(Ended) \in Nat /\ Cardinality(Ended') \in Nat
         /\ Cardinality(Ended) <= Cardinality(Ended')
         /\ Cardinality(Ended) = Cardinality(Ended') => Ended = Ended'
<1>1. PICK r : Started' \subseteq Started \cup {r}
  BY DEF Lasting
<1>2. IsFiniteSet(Started \cup {r})
  BY FS_AddElement DEF AccountOK
<1>3. IsFiniteSet(Started')
  BY <1>1, <1>2, FS_Subset
<1>4. Ended' \subseteq Started'
  BY DEF Lasting, Ended, Started
<1>5. IsFiniteSet(Ended')
  BY <1>3, <1>4, FS_Subset
<1>6. QED
  BY <1>3, <1>5, EndedFinite, FS_Subset, FS_CardinalityType DEF Lasting

LEMMA Account ==
  ASSUME TypeOK, TypeOK', AccountOK, Lasting, NoneDoomed \/ (OneDoomed /\ NewCause)
  PROVE  AccountOK'
<1>1. faults + stops \in Nat /\ faults' + stops' \in Nat /\ faults' + stops' >= faults + stops
  <2>1. faults \in Nat /\ stops \in Nat /\ faults' \in Nat /\ stops' \in Nat
    BY DEF TypeOK
  <2>2. faults' + stops' >= faults + stops
    BY DEF Lasting
  <2>3. faults + stops \in Nat
    BY <2>1
  <2>4. faults' + stops' \in Nat
    <3>1. \A i, j \in Nat : i + j \in Nat
      OBVIOUS
    <3>2. QED
      BY <2>1, <3>1, Zenon
  <2>5. QED
    BY <2>2, <2>3, <2>4
<1>2. IsFiniteSet(Doomed) /\ Cardinality(Doomed) \in Nat
  BY FS_CardinalityType DEF AccountOK
<1>3. CASE NoneDoomed
  <2>1. Doomed' \subseteq Doomed
    BY <1>3, NoneDoomedSubset
  <2>2. IsFiniteSet(Doomed') /\ Cardinality(Doomed') <= Cardinality(Doomed) /\ Cardinality(Doomed') \in Nat
    BY <1>2, <2>1, FS_Subset, FS_CardinalityType
  <2>3. Cardinality(Doomed') <= faults' + stops' + Cardinality(Ended')
    BY <1>1, <1>2, <2>2, LastingFinite DEF AccountOK
  <2>4. QED
    BY <2>2, <2>3, LastingFinite DEF AccountOK, Lasting
<1>4. CASE OneDoomed /\ NewCause
  <2>1. PICK x : Doomed' \subseteq Doomed \cup {x}
    BY <1>4, OneDoomedSubset
  <2>2. IsFiniteSet(Doomed \cup {x}) /\ Cardinality(Doomed \cup {x}) <= Cardinality(Doomed) + 1
    <3>1. /\ IsFiniteSet(Doomed \cup {x})
          /\ Cardinality(Doomed \cup {x}) = IF x \in Doomed THEN Cardinality(Doomed) ELSE Cardinality(Doomed) + 1
      BY <1>2, FS_AddElement
    <3>2. QED
      BY <1>2, <3>1
  <2>3. /\ IsFiniteSet(Doomed') /\ Cardinality(Doomed') <= Cardinality(Doomed \cup {x})
        /\ Cardinality(Doomed') \in Nat /\ Cardinality(Doomed \cup {x}) \in Nat
    BY <2>1, <2>2, FS_Subset, FS_CardinalityType
  <2>4. faults' + stops' + Cardinality(Ended') >= faults + stops + Cardinality(Ended) + 1
    <3>1. CASE faults' + stops' > faults + stops
      BY <1>1, <3>1, LastingFinite
    <3>2. CASE \E r \in Requests : r \in Ended' /\ r \notin Ended
      <4>1. Ended # Ended'
        BY <3>2
      <4>2. QED
        BY <1>1, <4>1, LastingFinite
    <3>3. QED
      BY <1>4, <3>1, <3>2 DEF NewCause
  <2>5. Cardinality(Doomed') <= faults' + stops' + Cardinality(Ended')
    BY <1>1, <1>2, <2>2, <2>3, <2>4, LastingFinite DEF AccountOK
  <2>6. QED
    BY <2>3, <2>5, LastingFinite DEF AccountOK, Lasting
<1>5. QED
  BY <1>3, <1>4

\* Only the caller inside collect has a run in hand.
LEMMA OneWriter ==
  ASSUME IInv, NEW c \in Callers, pc[c] \in Inside
  PROVE  \A d \in Callers : pc[d] \in Writing => d = c
BY DEF IInv, OneCollector, Inside, Writing

\* Steps in which no run is opened, finished or let go.
LEMMA SameHolds ==
  ASSUME TypeOK, TypeOK', UNCHANGED <<open, cancelled>>, registered' \subseteq registered,
         \A d \in Callers : /\ pc[d] \in Writing <=> pc'[d] \in Writing
                            /\ pc[d] \in Writing => cur'[d] = cur[d]
  PROVE  NoneDoomed
<1>1. ASSUME NEW s \in registered' PROVE s \in registered /\ Unheld(s)' <= Unheld(s)
  <2>1. Live(s)' <=> Live(s)
    BY DEF Live
  <2>2. Unheld(s)' = Unheld(s) /\ Unheld(s) \in Int
    BY <2>1, UnheldInt DEF Unheld
  <2>3. QED
    BY <2>2
<1>2. QED
  BY <1>1 DEF NoneDoomed

\* Steps of one caller that leave the other requests and the mishaps alone.
LEMMA CallerLasting ==
  ASSUME IInv, AccountOK, NEW c \in Callers,
         UNCHANGED cancelled, faults' + stops' >= faults + stops,
         pc[c] # "end", pc'[c] # "none",
         \A d \in Callers : d # c => pc'[d] = pc[d]
  PROVE  Lasting
<1>1. Ended \subseteq Ended'
  BY DEF Ended, Callers
<1>2. Started' \subseteq Started \cup {c}
  BY DEF Started, Callers
<1>3. \A r \in Requests : r \in cancelled' => pc'[r] # "none"
  BY DEF AccountOK, Callers
<1>4. QED
  BY <1>1, <1>2, <1>3 DEF Lasting

LEMMA CollectMoves ==
  ASSUME IInv, NEW c \in Callers, Collect(c)
  PROVE  /\ UNCHANGED <<cancelled, registered, stops>>
         /\ faults' + stops' >= faults + stops
         /\ pc[c] \notin {"none", "end"} /\ pc'[c] # "none"
         /\ \A d \in Callers : d # c => pc'[d] = pc[d] /\ cur'[d] = cur[d]
<1> USE DEF IInv, TypeOK, Goto, config, rows, budgets
<1>1. CASE Enter(c)
  BY <1>1 DEF Enter, LoseFlag, Return
<1>2. CASE ListSources(c)
  BY <1>2 DEF ListSources, ListFailed, StoreError
<1>3. CASE \E s \in Sources : CreateSourceRun(c, s)
  BY <1>3 DEF CreateSourceRun, StoreError
<1>4. CASE Fetch(c)
  BY <1>4 DEF Fetch, Fetched
<1>5. CASE FinishRow(c)
  BY <1>5 DEF FinishRow, RowFailed, NextSource, StoreError
<1>6. CASE Stamp(c)
  BY <1>6 DEF Stamp, NextSource, StoreError
<1>7. CASE EndScan(c)
  BY <1>7 DEF EndScan
<1>8. CASE Leave(c)
  BY <1>8 DEF Leave, Return
<1>9. QED
  BY <1>1, <1>2, <1>3, <1>4, <1>5, <1>6, <1>7, <1>8 DEF Collect

\* A row is opened for a poll that begins, unless the answer of the INSERT is lost.
LEMMA CreateDooms ==
  ASSUME IInv, IInv', NEW c \in Callers, NEW s \in Sources, CreateSourceRun(c, s)
  PROVE  NoneDoomed \/ (OneDoomed /\ NewCause)
<1> USE DEF IInv
<1>1. registered' = registered /\ cancelled' = cancelled /\ pc[c] = "scan"
  BY DEF CreateSourceRun, config
<1>2. \A d \in Callers : pc[d] \notin Writing
  BY <1>1, OneWriter DEF Inside, Writing
<1>3. \A t \in registered : ~Live(t) /\ Unheld(t) = open[t] /\ open[t] \in Nat
  BY <1>2 DEF Live, Unheld, TypeOK
<1>4. CASE UNCHANGED <<pc, cur, open>>
  BY <1>1, <1>4, SameHolds
<1>5. CASE /\ c \notin cancelled /\ s \in registered /\ OpenRow(s)
           /\ cur' = [cur EXCEPT ![c] = s] /\ Goto(c, "fetch")
  <2>1. Live(s)'
    BY <1>1, <1>5 DEF Live, Goto, Writing, TypeOK
  <2>2. \A t \in registered : t # s => ~Live(t)'
    BY <1>2, <1>5 DEF Live, Goto, TypeOK
  <2>3. \A t \in registered : Unheld(t)' = Unheld(t)
    BY <1>3, <1>5, <2>1, <2>2 DEF Unheld, OpenRow, TypeOK
  <2>4. QED
    BY <1>1, <1>3, <2>3 DEF NoneDoomed
<1>6. CASE /\ c \notin cancelled /\ s \in registered /\ OpenRow(s)
           /\ StoreError(c) /\ UNCHANGED <<pc, cur>>
  <2>1. \A t \in registered : ~Live(t)'
    BY <1>2, <1>6 DEF Live
  <2>2. \A t \in registered : Unheld(t)' = IF t = s THEN open[t] + 1 ELSE open[t]
    BY <1>6, <2>1 DEF Unheld, OpenRow, TypeOK
  <2>3. OneDoomed
    BY <1>1, <1>3, <2>2 DEF OneDoomed
  <2>4. faults' = faults + 1 /\ stops' = stops
    BY <1>6 DEF StoreError, CreateSourceRun
  <2>5. NewCause
    BY <2>4 DEF NewCause, TypeOK
  <2>6. QED
    BY <2>3, <2>5
<1>7. QED
  BY <1>4, <1>5, <1>6 DEF CreateSourceRun

\* A row that could not be finished costs a mishap, unless its fate was sealed.
LEMMA FinishDooms ==
  ASSUME IInv, IInv', NEW c \in Callers, FinishRow(c)
  PROVE  NoneDoomed \/ (OneDoomed /\ NewCause)
<1> USE DEF IInv
<1>1. registered' = registered /\ cancelled' = cancelled /\ pc[c] = "finish" /\ stops' = stops
  BY DEF FinishRow, config
<1>2. \A d \in Callers : pc[d] \in Writing => d = c
  BY <1>1, OneWriter DEF Inside
<1>3. pc'[c] \notin Writing /\ \A d \in Callers : d # c => pc'[d] = pc[d]
  BY <1>1 DEF FinishRow, RowFailed, NextSource, Goto, Writing, TypeOK
<1>4. \A t \in registered : ~Live(t)'
  BY <1>2, <1>3 DEF Live
<1>5. \A t \in registered : Live(t) <=> (t = cur[c] /\ c \notin cancelled)
  BY <1>1, <1>2 DEF Live, Writing
<1>6. \A t \in registered : open[t] \in Nat /\ open'[t] \in Nat /\ Unheld(t)' = open'[t]
  BY <1>1, <1>4 DEF Unheld, TypeOK
<1>7. CASE c \notin cancelled /\ cur[c] \in registered /\ CloseRow(cur[c], outcome[c])
  <2>1. \A t \in registered : Unheld(t)' = Unheld(t)
    BY <1>5, <1>6, <1>7 DEF Unheld, CloseRow, TypeOK
  <2>2. QED
    BY <1>1, <1>6, <2>1 DEF NoneDoomed
<1>8. CASE UNCHANGED rows /\ (c \in cancelled \/ cur[c] \notin registered)
  <2>1. \A t \in registered : Unheld(t)' = Unheld(t)
    BY <1>5, <1>6, <1>8 DEF Unheld, rows
  <2>2. QED
    BY <1>1, <1>6, <2>1 DEF NoneDoomed
<1>9. CASE UNCHANGED rows /\ c \notin cancelled /\ StoreError(c)
  <2>1. \A t \in registered : Unheld(t) = IF t = cur[c] THEN open[t] - 1 ELSE open[t]
    BY <1>5, <1>9 DEF Unheld
  <2>2. \A t \in registered : Unheld(t)' = open[t]
    BY <1>6, <1>9 DEF rows
  <2>3. OneDoomed
    BY <1>1, <1>6, <2>1, <2>2 DEF OneDoomed
  <2>4. faults' = faults + 1
    BY <1>9 DEF StoreError
  <2>5. NewCause
    BY <1>1, <2>4 DEF NewCause, TypeOK
  <2>6. QED
    BY <2>3, <2>5
<1>10. QED
  BY <1>7, <1>8, <1>9 DEF FinishRow, StoreError

LEMMA CollectAccount ==
  ASSUME IInv, IInv', AccountOK, NEW c \in Callers, Collect(c)
  PROVE  AccountOK'
<1>1. Lasting
  BY CollectMoves, CallerLasting
<1>2. CASE \E s \in Sources : CreateSourceRun(c, s)
  BY <1>1, <1>2, CreateDooms, Account DEF IInv
<1>3. CASE FinishRow(c)
  BY <1>1, <1>3, FinishDooms, Account DEF IInv
<1>4. CASE Enter(c) \/ ListSources(c) \/ Fetch(c) \/ Stamp(c) \/ EndScan(c) \/ Leave(c)
  <2>1. UNCHANGED <<open, cancelled, registered>>
    BY <1>4, CollectMoves DEF Enter, ListSources, Fetch, Stamp, EndScan, Leave, rows
  <2>2. /\ pc[c] \in Writing <=> pc'[c] \in Writing
        /\ pc[c] \in Writing => cur'[c] = cur[c]
    BY <1>4 DEF Enter, LoseFlag, Return, ListSources, ListFailed, Fetch, Fetched, Stamp, NextSource,
                EndScan, Leave, Goto, Writing, IInv, TypeOK
  <2>3. NoneDoomed
    BY <2>1, <2>2, CollectMoves, SameHolds DEF IInv
  <2>4. QED
    BY <1>1, <2>3, Account DEF IInv
<1>5. QED
  BY <1>2, <1>3, <1>4 DEF Collect

LEMMA LoopAccount ==
  ASSUME IInv, IInv', AccountOK, LoopTick \/ LoopDone \/ Restart
  PROVE  AccountOK'
<1>1. UNCHANGED <<open, cancelled, registered, cur, faults, stops>>
  BY DEF LoopTick, LoopDone, Restart, rows, config, budgets
<1>2. \A d \in Callers : d # Loop => pc'[d] = pc[d]
  BY DEF LoopTick, LoopDone, Restart, Goto, IInv, TypeOK
<1>3. \A d \in Callers : pc[d] \in Writing <=> pc'[d] \in Writing
  <2>1. pc[Loop] \notin Writing /\ pc'[Loop] \notin Writing
    BY DEF LoopTick, LoopDone, Restart, Goto, Callers, Writing, IInv, TypeOK, DownOK
  <2>2. QED
    BY <1>2, <2>1
<1>4. NoneDoomed
  BY <1>1, <1>3, SameHolds DEF IInv
<1>5. \A r \in Requests : r \in Callers /\ pc'[r] = pc[r]
  BY <1>2 DEF Callers
<1>6. Started' = Started /\ Ended' = Ended
  BY <1>1, <1>5 DEF Started, Ended
<1>7. faults' + stops' >= faults + stops
  BY <1>1 DEF IInv, TypeOK
<1>8. Lasting
  BY <1>1, <1>5, <1>6, <1>7 DEF Lasting, AccountOK
<1>9. QED
  BY <1>4, <1>8, Account DEF IInv

\* The end of a context seals the fate of the row its collection has in hand.
LEMMA ContextDooms ==
  ASSUME IInv, IInv', NEW c \in Callers,
         cancelled' = cancelled \cup {c}, UNCHANGED <<open, registered, pc, cur>>
  PROVE  OneDoomed
<1> USE DEF IInv
<1>1. \A s \in registered : open[s] \in Nat /\ Unheld(s) \in Int /\ Unheld(s)' \in Int
  BY UnheldInt, UnheldIntNext DEF TypeOK
<1>2. \A s \in registered : s # cur[c] \/ pc[c] \notin Writing => (Live(s)' <=> Live(s))
  BY DEF Live
<1>3. \A s \in registered : Unheld(s)' > Unheld(s) => s = cur[c]
  BY <1>1, <1>2 DEF Unheld
<1>4. \A s \in registered : Unheld(s)' <= Unheld(s) + 1
  BY <1>1 DEF Unheld
<1>5. QED
  BY <1>3, <1>4 DEF OneDoomed

LEMMA RequestAccount ==
  ASSUME IInv, IInv', AccountOK, NEW r \in Requests, RunOnce(r) \/ HandlerReturns(r)
  PROVE  AccountOK'
<1> USE DEF IInv, config, rows, budgets, local
<1>1. r \in Callers
  BY DEF Callers
<1>2. CASE RunOnce(r)
  <2>1. /\ UNCHANGED <<open, cancelled, registered, cur, faults, stops>>
        /\ pc[r] = "none" /\ pc'[r] = "enter"
        /\ \A d \in Callers : d # r => pc'[d] = pc[d]
    BY <1>1, <1>2 DEF RunOnce, Goto, TypeOK
  <2>2. NoneDoomed
    BY <2>1, SameHolds DEF Writing
  <2>3. faults' + stops' >= faults + stops
    BY <2>1 DEF TypeOK
  <2>4. Lasting
    <3>1. pc[r] # "end" /\ pc'[r] # "none" /\ UNCHANGED cancelled
      BY <2>1
    <3>2. QED
      BY <1>1, <2>1, <2>3, <3>1, CallerLasting
  <2>5. QED
    BY <2>2, <2>4, Account
<1>3. CASE HandlerReturns(r)
  <2>1. /\ cancelled' = cancelled \cup {r} /\ r \notin cancelled /\ pc[r] \notin {"none", "end"}
        /\ UNCHANGED <<open, registered, pc, cur, faults, stops>>
    BY <1>3 DEF HandlerReturns
  <2>2. OneDoomed
    BY <1>1, <2>1, ContextDooms
  <2>3. Ended' = Ended \cup {r} /\ r \notin Ended
    BY <2>1 DEF Ended
  <2>4. NewCause
    BY <2>3 DEF NewCause
  <2>5. faults' + stops' >= faults + stops
    BY <2>1 DEF TypeOK
  <2>6. Started' = Started
    BY <2>1 DEF Started
  <2>7. Lasting
    BY <2>1, <2>3, <2>5, <2>6 DEF Lasting, AccountOK
  <2>8. QED
    BY <2>2, <2>4, <2>7, Account
<1>4. QED
  BY <1>2, <1>3

LEMMA UserAccount ==
  ASSUME IInv, IInv', AccountOK, ClockTick \/ \E s \in Sources : EditSource(s) \/ DeleteSource(s)
  PROVE  AccountOK'
<1> USE DEF IInv
<1>1. UNCHANGED <<cancelled, pc, cur, faults, stops>> /\ registered' \subseteq registered
  BY DEF ClockTick, EditSource, DeleteSource, local, config, budgets
<1>2. \A s \in registered' : open'[s] = open[s]
  BY DEF ClockTick, EditSource, DeleteSource, rows, config, TypeOK
<1>3. NoneDoomed
  <2>1. \A s \in registered' : Live(s)' <=> Live(s)
    BY <1>1 DEF Live
  <2>2. \A s \in registered' : Unheld(s)' = Unheld(s)
    BY <1>2, <2>1 DEF Unheld
  <2>3. QED
    BY <1>1, <2>2, UnheldInt DEF NoneDoomed
<1>4. Started' = Started /\ Ended' = Ended
  BY <1>1 DEF Started, Ended
<1>5. faults' + stops' >= faults + stops
  BY <1>1 DEF TypeOK
<1>6. Lasting
  BY <1>1, <1>4, <1>5 DEF Lasting, AccountOK
<1>7. QED
  BY <1>3, <1>6, Account

LEMMA StopAccount ==
  ASSUME IInv, IInv', AccountOK, Stop
  PROVE  AccountOK'
<1> USE DEF IInv
<1>1. /\ cancelled' = cancelled \cup {Loop} /\ Loop \in Callers /\ Loop \notin Requests
      /\ UNCHANGED <<open, registered, pc, cur, faults>> /\ stops' = stops + 1
  BY DEF Stop, local, config, rows, Callers
<1>2. OneDoomed
  BY <1>1, ContextDooms
<1>3. faults' + stops' > faults + stops
  BY <1>1 DEF TypeOK
<1>4. Started' = Started /\ Ended' = Ended
  BY <1>1 DEF Started, Ended
<1>5. \A r \in Requests : r \in cancelled' => pc'[r] # "none"
  BY <1>1 DEF AccountOK
<1>6. Lasting
  <2>1. faults' + stops' >= faults + stops
    BY <1>1 DEF TypeOK
  <2>2. QED
    BY <1>4, <1>5, <2>1 DEF Lasting
<1>7. QED
  BY <1>2, <1>3, <1>6, Account DEF NewCause

\* A process that dies lets go of the one run it had in hand, if any.
LEMMA DieAccount ==
  ASSUME IInv, IInv', AccountOK, Exit \/ Crash
  PROVE  AccountOK'
<1> USE DEF IInv
<1>1. /\ UNCHANGED <<open, registered, faults>> /\ cancelled' = {}
      /\ stops' = stops \/ stops' = stops + 1
  BY DEF Exit, Crash, Die, rows, config, budgets
<1>2. \A d \in Callers : pc'[d] = IF d # Loop /\ pc[d] = "none" THEN "none" ELSE "end"
  BY DEF Exit, Crash, Die
<1>3. \A s \in registered : ~Live(s)'
  BY <1>2 DEF Live, Writing
<1>4. \A s \in registered : /\ open[s] \in Nat /\ Unheld(s)' = open[s]
                            /\ Unheld(s) = IF Live(s) THEN open[s] - 1 ELSE open[s]
  BY <1>1, <1>3 DEF Unheld, TypeOK
<1>5. \A r \in Requests : r \in Callers /\ r # Loop
  BY DEF Callers
<1>6. Started' = Started /\ Ended \subseteq Ended'
  <2>1. Started' = Started
    BY <1>2, <1>5 DEF Started
  <2>2. \A r \in Ended : r \in Requests /\ pc[r] # "none"
    BY DEF Ended, AccountOK
  <2>3. Ended \subseteq Ended'
    BY <1>2, <1>5, <2>2 DEF Ended
  <2>4. QED
    BY <2>1, <2>3
<1>7. Lasting
  <2>1. faults \in Nat /\ stops \in Nat
    BY DEF TypeOK
  <2>2. faults' + stops' >= faults + stops
    BY <1>1, <2>1
  <2>3. QED
    BY <1>1, <1>6, <2>2 DEF Lasting
<1>8. CASE \A s \in registered : ~Live(s)
  <2>1. NoneDoomed
    BY <1>1, <1>4, <1>8 DEF NoneDoomed
  <2>2. QED
    BY <1>7, <2>1, Account
<1>9. CASE ~ \A s \in registered : ~Live(s)
  <2>1. PICK c \in Callers : pc[c] \in Writing /\ c \notin cancelled
    BY <1>9 DEF Live
  <2>2. \A s \in registered : Live(s) => s = cur[c]
    BY <2>1, OneWriter DEF Live, Writing, Inside
  <2>3. OneDoomed
    BY <1>1, <1>4, <2>2 DEF OneDoomed
  <2>4. NewCause
    <3>1. CASE c = Loop
      <4>1. stops' = stops + 1
        BY <2>1, <3>1 DEF Exit, Crash, Die
      <4>2. QED
        BY <1>1, <4>1 DEF NewCause, TypeOK
    <3>2. CASE c # Loop
      <4>1. c \in Requests /\ c \notin Ended /\ c \in Ended'
        BY <1>2, <2>1, <3>2 DEF Ended, Callers, Writing
      <4>2. QED
        BY <4>1 DEF NewCause
    <3>3. QED
      BY <3>1, <3>2
  <2>5. QED
    BY <1>7, <2>3, <2>4, Account
<1>10. QED
  BY <1>8, <1>9

LEMMA StutterAccount ==
  ASSUME AccountOK, UNCHANGED vars
  PROVE  AccountOK'
<1>1. Doomed' = Doomed
  BY DEF vars, local, config, rows, Doomed, Unheld, Live
<1>2. Started' = Started /\ Ended' = Ended
  BY DEF vars, local, Started, Ended
<1>3. UNCHANGED <<pc, cancelled, faults, stops>>
  BY DEF vars, local, budgets
<1>4. QED
  BY <1>1, <1>2, <1>3 DEF AccountOK

LEMMA AccountStep ==
  ASSUME IInv, IInv', AccountOK, [Next]_vars
  PROVE  AccountOK'
<1>1. CASE \E c \in Callers : Collect(c)
  BY <1>1, CollectAccount
<1>2. CASE LoopTick \/ LoopDone \/ Restart
  BY <1>2, LoopAccount
<1>3. CASE \E r \in Requests : RunOnce(r) \/ HandlerReturns(r)
  BY <1>3, RequestAccount
<1>4. CASE ClockTick \/ \E s \in Sources : EditSource(s) \/ DeleteSource(s)
  BY <1>4, UserAccount
<1>5. CASE Stop
  BY <1>5, StopAccount
<1>6. CASE Exit \/ Crash
  BY <1>6, DieAccount
<1>7. CASE UNCHANGED vars
  BY <1>7, StutterAccount
<1>8. QED
  BY <1>1, <1>2, <1>3, <1>4, <1>5, <1>6, <1>7 DEF Next

LEMMA InitAccount == Init => AccountOK
<1> SUFFICES ASSUME Init PROVE AccountOK
  OBVIOUS
<1>1. \A s \in registered : Unheld(s) = 0
  BY DEF Init, Unheld, Live, Writing
<1>2. Doomed = {}
  BY <1>1 DEF Doomed
<1>3. Started = {} /\ Ended = {}
  BY DEF Init, Started, Ended, Callers
<1>4. faults = 0 /\ stops = 0 /\ cancelled = {}
  BY DEF Init
<1>5. Cardinality(Doomed) = 0 /\ Cardinality(Ended) = 0 /\ IsFiniteSet(Doomed) /\ IsFiniteSet(Started)
  BY <1>2, <1>3, FS_EmptySet
<1>6. QED
  BY <1>4, <1>5 DEF AccountOK

\* A row that nobody is writing is nobody's: what AbandonedRows counts is doomed.
LEMMA AbandonedAreDoomed ==
  ASSUME IInv
  PROVE  Abandoned \subseteq Doomed
<1>1. ASSUME NEW s \in registered
      PROVE  {s} \X (1..(open[s] - Cardinality(PollOf(s)))) \subseteq {s} \X (1..Unheld(s))
  <2>1. open[s] \in Nat
    BY DEF IInv, TypeOK
  <2>2. CASE PollOf(s) = {}
    <3>1. ~Live(s)
      BY <2>2 DEF Live, PollOf, Writing
    <3>2. Cardinality(PollOf(s)) = 0
      BY <2>2, FS_EmptySet
    <3>3. QED
      BY <2>1, <3>1, <3>2 DEF Unheld
  <2>3. CASE PollOf(s) # {}
    <3>1. PICK c \in Callers : c \in PollOf(s)
      BY <2>3 DEF PollOf
    <3>2. PollOf(s) = {c}
      BY <3>1 DEF PollOf, IInv, OneCollector, Inside
    <3>3. Cardinality(PollOf(s)) = 1
      BY <3>2, FS_Singleton
    <3>4. Unheld(s) \in Int /\ Unheld(s) >= open[s] - 1
      BY <2>1 DEF Unheld
    <3>5. open[s] - Cardinality(PollOf(s)) <= Unheld(s)
      BY <2>1, <3>3, <3>4
    <3>6. QED
      BY <2>1, <3>3, <3>4, <3>5
  <2>4. QED
    BY <2>2, <2>3
<1>2. QED
  BY <1>1 DEF Abandoned, Doomed

\* Each row that stays 'running' for good is owed to a failed call, a request that
\* ended, a crash or a shutdown of its own, for any number of each.
THEOREM RowsAccounted == Spec => []AbandonedRows
<1>1. Init => IInv /\ AccountOK
  BY InitIInv, InitAccount
<1>2. IInv /\ AccountOK /\ [Next]_vars => IInv' /\ AccountOK'
  BY NextStep, AccountStep
<1>3. IInv /\ AccountOK => AbandonedRows
  <2> SUFFICES ASSUME IInv, AccountOK PROVE AbandonedRows
    OBVIOUS
  <2>1. IsFiniteSet(Doomed) /\ Abandoned \in SUBSET Doomed
    BY AbandonedAreDoomed DEF AccountOK
  <2>2. /\ Cardinality(Abandoned) <= Cardinality(Doomed)
        /\ Cardinality(Abandoned) \in Nat /\ Cardinality(Doomed) \in Nat
    BY <2>1, FS_Subset, FS_CardinalityType
  <2>3. faults \in Nat /\ stops \in Nat /\ Cardinality(Ended) \in Nat
    BY EndedFinite DEF IInv, TypeOK
  <2>4. Cardinality(Doomed) <= faults + stops + Cardinality(Ended)
    BY DEF AccountOK
  <2>5. QED
    BY <2>2, <2>3, <2>4 DEF AbandonedRows
<1>4. QED
  BY <1>1, <1>2, <1>3, PTL DEF Spec

-----------------------------------------------------------------------------
(* A collection ends *)

\* With finitely many sources a caller has a known number of them to poll.
LEMMA TodoFinite ==
  ASSUME IsFiniteSet(Sources), NEW T \in SUBSET Sources
  PROVE  /\ IsFiniteSet(T) /\ Cardinality(T) \in Nat
         /\ Cardinality(Sources) \in Nat /\ Cardinality(T) <= Cardinality(Sources)
<1>1. IsFiniteSet(T) /\ Cardinality(T) <= Cardinality(Sources)
  BY FS_Subset
<1>2. QED
  BY <1>1, FS_CardinalityType

\* The steps of a caller inside collect.
LEMMA OwnSteps ==
  ASSUME IInv, IInv', IsFiniteSet(Sources), NEW c \in Callers, pc[c] \in Inside, Collect(c)
  PROVE  Left(c)' < Left(c)
<1> DEFINE n == Cardinality(todo[c])
           m == Cardinality(todo'[c])
           N == Cardinality(Sources)
<1>1. todo[c] \in SUBSET Sources /\ todo'[c] \in SUBSET Sources
  BY DEF IInv, TypeOK
<1>2. n \in Nat /\ m \in Nat /\ N \in Nat /\ m <= N /\ IsFiniteSet(todo[c])
  BY <1>1, TodoFinite
<1> HIDE DEF n, m, N
<1>3. /\ pc[c] = "list"   => Left(c) = 4 * N + 3
      /\ pc[c] = "scan"   => Left(c) = 4 * n + 2
      /\ pc[c] = "fetch"  => Left(c) = 4 * n + 5
      /\ pc[c] = "finish" => Left(c) = 4 * n + 4
      /\ pc[c] = "stamp"  => Left(c) = 4 * n + 3
      /\ pc[c] = "leave"  => Left(c) = 1
  BY DEF Left, n, N
<1>4. /\ pc'[c] = "scan"   => Left(c)' = 4 * m + 2
      /\ pc'[c] = "fetch"  => Left(c)' = 4 * m + 5
      /\ pc'[c] = "finish" => Left(c)' = 4 * m + 4
      /\ pc'[c] = "stamp"  => Left(c)' = 4 * m + 3
      /\ pc'[c] = "leave"  => Left(c)' = 1
      /\ pc'[c] \in {"select", "end"} => Left(c)' = 0
  BY DEF Left, m
<1>5. pc \in [Callers -> Inside \cup {"none", "enter", "select", "end"}] /\ todo \in [Callers -> SUBSET Sources]
  BY DEF IInv, TypeOK
<1>6. ASSUME Enter(c) PROVE FALSE
  BY <1>6 DEF Enter, Inside
<1>7. CASE ListSources(c)
  <2>1. pc[c] = "list" /\ pc'[c] \in {"scan", "leave"}
    BY <1>5, <1>7 DEF ListSources, ListFailed, Goto
  <2>2. QED
    BY <1>2, <1>3, <1>4, <2>1
<1>8. ASSUME NEW s \in Sources, CreateSourceRun(c, s)
      PROVE  Left(c)' < Left(c)
  <2>1. s \in todo[c] /\ todo'[c] = todo[c] \ {s} /\ pc[c] = "scan" /\ pc'[c] \in {"scan", "fetch"}
    BY <1>5, <1>8 DEF CreateSourceRun, Goto
  <2>2. Cardinality(todo[c] \ {s}) = Cardinality(todo[c]) - 1
    BY <1>2, <2>1, FS_RemoveElement
  <2>3. m = n - 1
    BY <2>1, <2>2 DEF m, n
  <2>4. QED
    BY <1>2, <1>3, <1>4, <2>1, <2>3
<1>9. CASE Fetch(c) \/ FinishRow(c) \/ Stamp(c)
  <2>1. /\ todo'[c] = todo[c]
        /\ \/ pc[c] = "fetch" /\ pc'[c] = "finish"
           \/ pc[c] = "finish" /\ pc'[c] \in {"stamp", "scan"}
           \/ pc[c] = "stamp" /\ pc'[c] = "scan"
    BY <1>5, <1>9 DEF Fetch, Fetched, FinishRow, RowFailed, Stamp, NextSource, Goto
  <2>2. m = n
    BY <2>1 DEF m, n
  <2>3. QED
    BY <1>2, <1>3, <1>4, <2>1, <2>2
<1>10. CASE EndScan(c)
  <2>1. pc[c] = "scan" /\ pc'[c] = "leave"
    BY <1>5, <1>10 DEF EndScan, Goto
  <2>2. QED
    BY <1>2, <1>3, <1>4, <2>1
<1>11. CASE Leave(c)
  <2>1. pc[c] = "leave" /\ pc'[c] \in {"select", "end"}
    BY <1>5, <1>11 DEF Leave, Return, Goto
  <2>2. QED
    BY <1>3, <1>4, <2>1
<1>12. QED
  BY <1>6, <1>7, <1>8, <1>9, <1>10, <1>11 DEF Collect

\* Whatever the others do leaves a collection where it is, or ends it.
LEMMA OtherSteps ==
  ASSUME IInv, IInv', IsFiniteSet(Sources), NEW c \in Callers, pc[c] \in Inside, [Next]_vars, ~Collect(c)
  PROVE  Left(c)' < Left(c) \/ (pc'[c] = pc[c] /\ todo'[c] = todo[c])
<1>0. pc \in [Callers -> Inside \cup {"none", "enter", "select", "end"}] /\ todo \in [Callers -> SUBSET Sources]
  BY DEF IInv, TypeOK
<1>1. CASE \E d \in Callers : Collect(d)
  <2>1. PICK d \in Callers : Collect(d)
    BY <1>1
  <2>2. d # c
    BY <2>1
  <2>3. QED
    BY <1>0, <2>1, <2>2 DEF Collect, Enter, Return, ListSources, ListFailed, CreateSourceRun, Fetch, Fetched,
       FinishRow, RowFailed, Stamp, NextSource, EndScan, Leave, Goto
<1>2. CASE LoopTick \/ LoopDone \/ \E r \in Requests : RunOnce(r)
  BY <1>0, <1>2 DEF LoopTick, LoopDone, RunOnce, Goto, Inside, Callers
<1>3. CASE (\E r \in Requests : HandlerReturns(r)) \/ ClockTick
           \/ (\E s \in Sources : EditSource(s) \/ DeleteSource(s)) \/ Stop \/ UNCHANGED vars
  BY <1>3 DEF HandlerReturns, ClockTick, EditSource, DeleteSource, Stop, vars, local
<1>4. ASSUME Restart PROVE FALSE
  BY <1>4 DEF Restart, IInv, DownOK, Inside
<1>5. CASE Exit \/ Crash
  <2>1. pc'[c] \in {"none", "end"}
    BY <1>5 DEF Exit, Crash, Die
  <2>2. Left(c)' = 0
    BY <2>1 DEF Left
  <2>3. Cardinality(todo[c]) \in Nat /\ Cardinality(Sources) \in Nat
    BY <1>0, TodoFinite
  <2>4. Left(c) \in Nat /\ Left(c) > 0
    <3> DEFINE n == Cardinality(todo[c])
    <3>1. n \in Nat
      BY <2>3
    <3> HIDE DEF n
    <3>2. Left(c) \in {4 * Cardinality(Sources) + 3, 4 * n + 2, 4 * n + 5, 4 * n + 4, 4 * n + 3, 1}
      BY DEF Left, Inside, n
    <3>3. QED
      BY <2>3, <3>1, <3>2
  <2>5. QED
    BY <2>2, <2>4
<1>6. QED
  BY <1>1, <1>2, <1>3, <1>4, <1>5 DEF Next

\* For any finite table of sources, each step of a collection brings its end
\* nearer, whatever fails and whatever the others do: what liveness of the polls
\* needs besides fair scheduling.
THEOREM CollectionsEnd == IsFiniteSet(Sources) /\ Spec => CollectionEnds
<1> SUFFICES ASSUME IsFiniteSet(Sources) PROVE Spec => CollectionEnds
  OBVIOUS
<1>1. IInv /\ IInv' /\ [Next]_vars => Nearer
  BY OwnSteps, OtherSteps DEF Nearer
<1>2. QED
  BY <1>1, Inductive, PTL DEF Spec, CollectionEnds
=============================================================================
