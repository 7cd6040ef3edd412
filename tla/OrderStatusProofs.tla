-------------------------- MODULE OrderStatusProofs --------------------------
(***************************************************************************)
(* OrderStatus is correct for any number of requests, statuses and         *)
(* mishaps, and implements StatusLog: proofs.                              *)
(***************************************************************************)
EXTENDS OrderStatus, FiniteSets, FiniteSetTheorems, TLAPS

Modes   == {"none", "share", "write", "exclusive"}
Values  == Keys \cup Legacy \cup {None}
Answers == {"ok", "error", None}
Changes == [from : Keys \cup {None}, to : Keys]

\* TypeOK in its two halves: the tables, and the requests.
TableTypes ==
  /\ exists \in BOOLEAN
  /\ status \in Legacy
  /\ status_id \in Keys \cup {None}
  /\ history \in Seq(Changes)
  /\ audit \in Nat
  /\ applications \in Nat
  /\ events \in [Types -> Nat]
  /\ told \in [Types -> Nat]

RequestTypes ==
  /\ pc \in [Requests -> Labels]
  /\ lock \in [Requests -> Modes]
  /\ want \in [Requests -> Values]
  /\ read \in [Requests -> Values]
  /\ answer \in [Requests -> Answers]
  /\ mishaps \in Nat

\* The lock that goes with each place in the code.
LockAt(label) ==
  IF label \in {"change", "commit"} THEN "exclusive"
  ELSE IF label = "mark" THEN "share"
  ELSE IF label = "seal" THEN "write"
  ELSE "none"

\* A lock is held where the code holds it; whoever holds one exclusively is
\* alone, and a locked row stays.
LocksOK ==
  /\ \A r \in Requests : lock[r] = LockAt(pc[r])
  /\ \A r, q \in Requests : r # q /\ lock[r] = "exclusive" => lock[q] = "none"
  /\ \A r \in Requests : lock[r] # "none" => exists

\* What a request read and wants, where it goes on from there.
RequestOK(r) ==
  /\ pc[r] = "lock" => want[r] \in Keys
  /\ pc[r] \in {"change", "commit"} =>
       want[r] \in Keys /\ want[r] # status_id /\ read[r] = status_id
  /\ pc[r] = "commit" => want[r] \in Legacy
  /\ pc[r] = "write" => want[r] \in Legacy \cup {None} /\ read[r] \in Legacy

RequestsOK == \A r \in Requests : RequestOK(r)

\* Every committed application has been told at most once, or is about to be.
Tellers == {r \in Requests : pc[r] = "tell"}
TellsOK == IsFiniteSet(Tellers) /\ told["applied"] + Cardinality(Tellers) <= applications

IInv == TypeOK /\ LocksOK /\ RequestsOK /\ HistoryChain /\ TellsOK

LEMMA TypeHalves == TypeOK <=> TableTypes /\ RequestTypes
BY DEF TypeOK, TableTypes, RequestTypes, Modes, Values, Answers, Changes

LEMMA TypeHalvesNext == TypeOK' <=> TableTypes' /\ RequestTypes'
BY DEF TypeOK, TableTypes, RequestTypes, Modes, Values, Answers, Changes

-----------------------------------------------------------------------------
(* What a request's step does to the requests *)

\* Request r goes to label l, with lock m, values w and d, and answer a.
Step(r, l, m, w, d, a) ==
  /\ pc' = [pc EXCEPT ![r] = l]
  /\ lock' = [lock EXCEPT ![r] = m]
  /\ want' = [want EXCEPT ![r] = w]
  /\ read' = [read EXCEPT ![r] = d]
  /\ answer' = [answer EXCEPT ![r] = a]

LEMMA StepTypes ==
  ASSUME RequestTypes, NEW r \in Requests, NEW l \in Labels, NEW m \in Modes,
         NEW w \in Values, NEW d \in Values, NEW a \in Answers,
         Step(r, l, m, w, d, a), mishaps' \in Nat
  PROVE  RequestTypes'
BY DEF Step, RequestTypes

\* A step keeps the locks in order if what it takes is free and what it holds is
\* there; only a request that is alone removes the row.
LEMMA StepLocks ==
  ASSUME RequestTypes, LocksOK, NEW r \in Requests, NEW l, NEW m, NEW w, NEW d, NEW a,
         Step(r, l, m, w, d, a),
         m = LockAt(l),
         m # "none" => exists',
         m # "none" => \A q \in Requests \ {r} : lock[q] # "exclusive",
         m = "exclusive" \/ ~(exists => exists') =>
           \A q \in Requests \ {r} : lock[q] = "none"
  PROVE  LocksOK'
<1>1. \A q \in Requests : pc'[q] = (IF q = r THEN l ELSE pc[q])
                          /\ lock'[q] = (IF q = r THEN m ELSE lock[q])
  BY DEF Step, RequestTypes
<1>2. \A q \in Requests : lock'[q] = LockAt(pc'[q])
  BY <1>1 DEF LocksOK
<1>3. \A p, q \in Requests : p # q /\ lock'[p] = "exclusive" => lock'[q] = "none"
  BY <1>1 DEF LocksOK
<1>4. \A q \in Requests : lock'[q] # "none" => exists'
  BY <1>1 DEF LocksOK
<1>5. QED
  BY <1>2, <1>3, <1>4 DEF LocksOK, LockAt

\* The other requests still know the status: it is the same, or none of them has
\* read it.
LEMMA StepRequests ==
  ASSUME RequestTypes, LocksOK, RequestsOK, NEW r \in Requests, NEW l, NEW m, NEW w, NEW d, NEW a,
         Step(r, l, m, w, d, a),
         status_id' # status_id => \A q \in Requests \ {r} : lock[q] = "none",
         RequestOK(r)'
  PROVE  RequestsOK'
<1>1. SUFFICES ASSUME NEW q \in Requests, q # r PROVE RequestOK(q)'
  BY DEF RequestsOK
<1>2. pc'[q] = pc[q] /\ want'[q] = want[q] /\ read'[q] = read[q]
  BY <1>1 DEF Step, RequestTypes
<1>3. RequestOK(q)
  BY DEF RequestsOK
<1>4. pc[q] \in {"change", "commit"} => status_id' = status_id
  BY <1>1 DEF LocksOK, LockAt
<1>5. QED
  BY <1>2, <1>3, <1>4 DEF RequestOK

LEMMA StepTells ==
  ASSUME RequestTypes, TellsOK, NEW r \in Requests, NEW l, NEW m, NEW w, NEW d, NEW a,
         Step(r, l, m, w, d, a),
         pc[r] # "tell", l # "tell",
         told["applied"] \in Nat, applications \in Nat, applications' \in Nat,
         told'["applied"] = told["applied"], applications <= applications'
  PROVE  TellsOK'
<1>1. Tellers' = Tellers
  <2>1. \A q \in Requests : pc'[q] = IF q = r THEN l ELSE pc[q]
    BY DEF Step, RequestTypes
  <2>2. QED
    BY <2>1 DEF Tellers
<1>2. Cardinality(Tellers) \in Nat
  BY FS_CardinalityType DEF TellsOK
<1>3. QED
  BY <1>1, <1>2 DEF TellsOK

\* A request that answers leaves the locks and the others as they were.
LEMMA AnswerStep ==
  ASSUME IInv, NEW r \in Requests, NEW a \in Answers, Answer(r, a), mishaps' \in Nat,
         (exists' = exists /\ status_id' = status_id) \/ \A q \in Requests \ {r} : lock[q] = "none"
  PROVE  RequestTypes' /\ LocksOK' /\ RequestsOK'
<1>1. Step(r, "end", "none", None, None, a)
  BY DEF Answer, Goto, Hold, Forget, Step
<1>2. RequestTypes /\ LocksOK /\ RequestsOK
  BY TypeHalves DEF IInv
<1>3. RequestTypes'
  BY <1>1, <1>2, StepTypes DEF Labels, Modes, Values, Answers
<1>4. LocksOK'
  <2>1. "none" = LockAt("end")
    BY DEF LockAt
  <2>2. QED
    BY <1>1, <1>2, <2>1, StepLocks
<1>5. RequestOK(r)'
  <2>1. pc'[r] = "end"
    BY <1>1, <1>2 DEF Step, RequestTypes
  <2>2. QED
    BY <2>1 DEF RequestOK
<1>6. RequestsOK'
  BY <1>1, <1>2, <1>5, StepRequests
<1>7. QED
  BY <1>3, <1>4, <1>6

LEMMA AnswerTells ==
  ASSUME IInv, NEW r \in Requests, NEW a \in Answers, Answer(r, a), pc[r] # "tell",
         applications' \in Nat, told'["applied"] = told["applied"], applications <= applications'
  PROVE  TellsOK'
<1>1. Step(r, "end", "none", None, None, a)
  BY DEF Answer, Goto, Hold, Forget, Step
<1>2. RequestTypes /\ TellsOK
  BY TypeHalves DEF IInv
<1>3. told["applied"] \in Nat /\ applications \in Nat
  BY DEF IInv, TypeOK, Types
<1>4. QED
  BY <1>1, <1>2, <1>3, StepTells

\* What is the same in every step that writes no table.
LEMMA SameTables ==
  ASSUME IInv, UNCHANGED <<row, log, trace>>
  PROVE  /\ TableTypes'
         /\ HistoryChain'
         /\ exists' = exists /\ status_id' = status_id
         /\ applications' \in Nat /\ told'["applied"] = told["applied"] /\ applications <= applications'
<1>1. TableTypes /\ HistoryChain
  BY TypeHalves DEF IInv
<1>2. /\ exists' = exists /\ status' = status /\ status_id' = status_id
      /\ history' = history /\ audit' = audit
      /\ applications' = applications /\ events' = events /\ told' = told
  BY DEF row, log, trace
<1>3. TableTypes'
  BY <1>1, <1>2 DEF TableTypes
<1>4. HistoryChain'
  BY <1>1, <1>2 DEF HistoryChain
<1>5. applications \in Nat
  BY <1>1 DEF TableTypes
<1>6. QED
  BY <1>2, <1>3, <1>4, <1>5

\* A request that neither ends nor writes a table.
LEMMA QuietStep ==
  ASSUME IInv, NEW r \in Requests, NEW l \in Labels, NEW m \in Modes,
         NEW w \in Values, NEW d \in Values, NEW a \in Answers,
         Step(r, l, m, w, d, a),
         mishaps' \in Nat,
         UNCHANGED <<row, log, trace>>,
         m = LockAt(l),
         m # "none" => exists,
         m # "none" => \A q \in Requests \ {r} : lock[q] # "exclusive",
         m = "exclusive" => \A q \in Requests \ {r} : lock[q] = "none",
         pc[r] # "tell", l # "tell",
         RequestOK(r)'
  PROVE  IInv'
<1>1. RequestTypes /\ LocksOK /\ RequestsOK /\ TellsOK
  BY TypeHalves DEF IInv
<1>2. /\ TableTypes' /\ HistoryChain' /\ exists' = exists /\ status_id' = status_id
      /\ applications' \in Nat /\ told'["applied"] = told["applied"] /\ applications <= applications'
  BY SameTables
<1>3. RequestTypes'
  BY <1>1, StepTypes
<1>4. LocksOK'
  BY <1>1, <1>2, StepLocks
<1>5. RequestsOK'
  BY <1>1, <1>2, StepRequests
<1>6. TellsOK'
  <2>1. told["applied"] \in Nat /\ applications \in Nat
    BY DEF IInv, TypeOK, Types
  <2>2. QED
    BY <1>1, <1>2, <2>1, StepTells
<1>7. QED
  BY <1>2, <1>3, <1>4, <1>5, <1>6, TypeHalvesNext DEF IInv

\* A request that ends without writing a table.
LEMMA QuietEnd ==
  ASSUME IInv, NEW r \in Requests, NEW a \in Answers, Answer(r, a), mishaps' \in Nat,
         UNCHANGED <<row, log, trace>>, pc[r] # "tell"
  PROVE  IInv'
<1>1. /\ TableTypes' /\ HistoryChain' /\ exists' = exists /\ status_id' = status_id
      /\ applications' \in Nat /\ told'["applied"] = told["applied"] /\ applications <= applications'
  BY SameTables
<1>2. RequestTypes' /\ LocksOK' /\ RequestsOK'
  BY <1>1, AnswerStep
<1>3. TellsOK'
  BY <1>1, AnswerTells
<1>4. QED
  BY <1>1, <1>2, <1>3, TypeHalvesNext DEF IInv

-----------------------------------------------------------------------------
(* The actions *)

LEMMA InitIInv == Init => IInv
<1> SUFFICES ASSUME Init PROVE IInv
  OBVIOUS
<1> USE DEF Init
<1>1. TableTypes
  <2>1. status \in Legacy /\ status_id \in Keys \cup {None}
    BY StatusAssumption
  <2>2. history \in Seq(Changes)
    OBVIOUS
  <2>3. exists \in BOOLEAN
    OBVIOUS
  <2>4. QED
    BY <2>1, <2>2, <2>3 DEF TableTypes
<1>2. RequestTypes
  BY DEF RequestTypes, Labels, Modes, Values, Answers
<1>3. LocksOK
  BY DEF LocksOK, LockAt
<1>4. RequestsOK
  BY DEF RequestsOK, RequestOK
<1>5. HistoryChain
  BY DEF HistoryChain
<1>6. TellsOK
  <2>1. Tellers = {}
    BY DEF Tellers
  <2>2. IsFiniteSet(Tellers) /\ Cardinality(Tellers) = 0
    BY <2>1, FS_EmptySet
  <2>3. QED
    BY <2>2 DEF TellsOK, Types
<1>7. QED
  BY <1>1, <1>2, <1>3, <1>4, <1>5, <1>6, TypeHalves DEF IInv

LEMMA CountsTyped ==
  ASSUME IInv
  PROVE  /\ mishaps \in Nat
         /\ Mishap => mishaps' \in Nat
         /\ UNCHANGED mishaps => mishaps' \in Nat
BY DEF IInv, TypeOK, Mishap

LEMMA RequestTyped ==
  ASSUME IInv, NEW r \in Requests
  PROVE  /\ pc[r] \in Labels /\ lock[r] \in Modes
         /\ want[r] \in Values /\ read[r] \in Values /\ answer[r] \in Answers
         /\ lock[r] = LockAt(pc[r])
         /\ lock = [lock EXCEPT ![r] = lock[r]] /\ want = [want EXCEPT ![r] = want[r]]
         /\ read = [read EXCEPT ![r] = read[r]] /\ answer = [answer EXCEPT ![r] = answer[r]]
BY TypeHalves DEF IInv, RequestTypes, LocksOK

\* The four requests begin.
LEMMA StartIInv ==
  ASSUME IInv, NEW r \in Requests,
         \/ \E key \in Keys : ChangeOrderStatus(r, key)
         \/ \E s \in Legacy \cup {None} : PatchRead(r, s)
         \/ Apply(r)
         \/ Delete(r)
  PROVE  IInv'
<1> USE DEF Goto
<1>1. UNCHANGED <<row, log, trace, mishaps>> /\ pc[r] = "none"
  BY DEF ChangeOrderStatus, PatchRead, Apply, Delete
<1>2. UNCHANGED <<row, log, trace>> /\ mishaps' \in Nat
  BY <1>1, CountsTyped
<1>3. lock[r] = "none" /\ answer[r] \in Answers /\ want[r] \in Values /\ read[r] \in Values
  BY <1>1, RequestTyped DEF LockAt
<1>4. pc \in [Requests -> Labels] /\ want \in [Requests -> Values] /\ read \in [Requests -> Values]
  BY TypeHalves DEF IInv, RequestTypes
<1>5. ASSUME NEW key \in Keys, ChangeOrderStatus(r, key) PROVE IInv'
  <2>1. Step(r, "lock", "none", key, read[r], answer[r])
    BY <1>3, <1>5, RequestTyped DEF ChangeOrderStatus, Step
  <2>2. pc'[r] = "lock" /\ want'[r] = key
    BY <1>4, <1>5 DEF ChangeOrderStatus
  <2>3. RequestOK(r)'
    BY <2>2 DEF RequestOK
  <2>4. QED
    BY <1>1, <1>2, <1>3, <2>1, <2>3, QuietStep DEF LockAt, Labels, Modes, Values
<1>6. ASSUME NEW s \in Legacy \cup {None}, PatchRead(r, s) PROVE IInv'
  <2>1. Step(r, "write", "none", s, status, answer[r])
    BY <1>3, <1>6, RequestTyped DEF PatchRead, Step
  <2>2. pc'[r] = "write" /\ want'[r] = s /\ read'[r] = status
    BY <1>4, <1>6 DEF PatchRead
  <2>3. status \in Legacy
    BY DEF IInv, TypeOK
  <2>4. RequestOK(r)'
    BY <2>2, <2>3 DEF RequestOK
  <2>5. QED
    BY <1>1, <1>2, <1>3, <2>1, <2>3, <2>4, QuietStep DEF LockAt, Labels, Modes, Values
<1>7. ASSUME Apply(r) PROVE IInv'
  <2>1. Step(r, "apply", "none", want[r], read[r], answer[r])
    BY <1>3, <1>7, RequestTyped DEF Apply, Step
  <2>2. pc'[r] = "apply"
    BY <1>4, <1>7 DEF Apply
  <2>3. RequestOK(r)'
    BY <2>2 DEF RequestOK
  <2>4. QED
    BY <1>1, <1>2, <1>3, <2>1, <2>3, QuietStep DEF LockAt, Labels, Modes
<1>8. ASSUME Delete(r) PROVE IInv'
  <2>1. Step(r, "delete", "none", want[r], read[r], answer[r])
    BY <1>3, <1>8, RequestTyped DEF Delete, Step
  <2>2. pc'[r] = "delete"
    BY <1>4, <1>8 DEF Delete
  <2>3. RequestOK(r)'
    BY <2>2 DEF RequestOK
  <2>4. QED
    BY <1>1, <1>2, <1>3, <2>1, <2>3, QuietStep DEF LockAt, Labels, Modes
<1>9. QED
  BY <1>5, <1>6, <1>7, <1>8

LEMMA LockRowIInv ==
  ASSUME IInv, NEW r \in Requests, LockRow(r)
  PROVE  IInv'
<1>1. UNCHANGED <<row, log, trace>> /\ pc[r] = "lock" /\ mishaps' \in Nat
  BY CountsTyped DEF LockRow
<1>2. CASE \E a \in {"ok", "error"} : Answer(r, a)
  BY <1>1, <1>2, QuietEnd DEF Answers
<1>3. CASE /\ Free(r, RowLock) /\ exists /\ ~AlreadySet(r)
           /\ Hold(r, RowLock) /\ read' = [read EXCEPT ![r] = status_id]
           /\ Goto(r, "change") /\ UNCHANGED <<want, answer>>
  <2>1. status_id \in Values
    BY DEF IInv, TypeOK, Values
  <2>2. Step(r, "change", "exclusive", want[r], status_id, answer[r])
    BY <1>3, RequestTyped DEF Step, Hold, Goto, RowLock
  <2>3. \A q \in Requests \ {r} : lock[q] = "none"
    <3>1. \A q \in Requests \ {r} : lock[q] \notin {"share", "write", "exclusive"}
      BY <1>3 DEF Free, Conflicts, RowLock
    <3>2. QED
      BY <3>1, RequestTyped DEF Modes
  <2>4. RequestOK(r)'
    <3>1. pc'[r] = "change" /\ want'[r] = want[r] /\ read'[r] = status_id /\ status_id' = status_id
      BY <1>3, <1>1, TypeHalves DEF IInv, RequestTypes, Goto, row
    <3>2. want[r] \in Keys /\ want[r] # status_id
      BY <1>1, <1>3 DEF IInv, RequestsOK, RequestOK, AlreadySet
    <3>3. QED
      BY <3>1, <3>2 DEF RequestOK
  <2>5. "exclusive" = LockAt("change") /\ "change" \in Labels /\ "exclusive" \in Modes
    BY DEF LockAt, Labels, Modes
  <2>6. want[r] \in Values /\ answer[r] \in Answers
    BY RequestTyped
  <2>7. \A q \in Requests \ {r} : lock[q] # "exclusive"
    BY <2>3
  <2>8. QED
    BY <1>1, <1>3, <2>1, <2>2, <2>3, <2>4, <2>5, <2>6, <2>7, QuietStep
<1>4. QED
  BY <1>2, <1>3 DEF LockRow, Rollback

LEMMA ChangeRowIInv ==
  ASSUME IInv, NEW r \in Requests, ChangeRow(r)
  PROVE  IInv'
<1>1. UNCHANGED <<row, log, trace>> /\ pc[r] = "change" /\ mishaps' \in Nat
  BY CountsTyped DEF ChangeRow
<1>2. CASE Answer(r, "error")
  BY <1>1, <1>2, QuietEnd DEF Answers
<1>3. CASE Admitted(want[r]) /\ Goto(r, "commit") /\ UNCHANGED <<lock, want, read, answer>>
  <2>1. lock[r] = "exclusive"
    BY <1>1, RequestTyped DEF LockAt
  <2>2. Step(r, "commit", "exclusive", want[r], read[r], answer[r])
    BY <1>3, <2>1, RequestTyped DEF Step, Goto
  <2>3. exists /\ \A q \in Requests \ {r} : lock[q] = "none"
    BY <2>1 DEF IInv, LocksOK
  <2>4. RequestOK(r)'
    <3>1. pc'[r] = "commit" /\ want'[r] = want[r] /\ read'[r] = read[r] /\ status_id' = status_id
      BY <1>3, <1>1, TypeHalves DEF IInv, RequestTypes, Goto, row
    <3>2. want[r] \in Keys /\ want[r] # status_id /\ read[r] = status_id
      BY <1>1 DEF IInv, RequestsOK, RequestOK
    <3>3. QED
      BY <1>3, <3>1, <3>2 DEF RequestOK, Admitted
  <2>5. "exclusive" = LockAt("commit") /\ "commit" \in Labels /\ "exclusive" \in Modes
    BY DEF LockAt, Labels, Modes
  <2>6. want[r] \in Values /\ read[r] \in Values /\ answer[r] \in Answers
    BY RequestTyped
  <2>7. \A q \in Requests \ {r} : lock[q] # "exclusive"
    BY <2>3
  <2>8. QED
    BY <1>1, <2>2, <2>3, <2>4, <2>5, <2>6, <2>7, QuietStep
<1>4. QED
  BY <1>2, <1>3 DEF ChangeRow, Rollback

\* An appended entry is the last, and those before it stay.
LEMMA AppendFacts ==
  ASSUME NEW s \in Seq(Changes), NEW e \in Changes
  PROVE  /\ Append(s, e) \in Seq(Changes)
         /\ Len(Append(s, e)) = Len(s) + 1
         /\ Append(s, e)[Len(s) + 1] = e
         /\ \A i \in 1..Len(s) : Append(s, e)[i] = s[i]
         /\ Append(s, e) # <<>>
         /\ Len(s) \in Nat
OBVIOUS

\* The two ways CommitChange ends: the change is in the tables, or it is not and
\* the answer is an error.
LEMMA CommitChangeCases ==
  ASSUME IInv, NEW r \in Requests, CommitChange(r)
  PROVE  /\ \E a \in Answers : Answer(r, a)
         /\ mishaps' \in Nat
         /\ pc[r] = "commit" /\ exists /\ \A q \in Requests \ {r} : lock[q] = "none"
         /\ want[r] \in Keys \cap Legacy /\ want[r] # status_id /\ read[r] = status_id
         /\ UNCHANGED <<exists, trace>>
         /\ \/ /\ history' = Append(history, [from |-> status_id, to |-> want[r]])
               /\ audit' = audit + 1 /\ status_id' = want[r] /\ status' = want[r]
            \/ UNCHANGED <<log, status, status_id>>
<1>1. pc[r] = "commit" /\ UNCHANGED <<exists, trace>> /\ mishaps' \in Nat
  BY CountsTyped DEF CommitChange
<1>2. \E a \in Answers : Answer(r, a)
  BY DEF CommitChange, Answers
<1>3. lock[r] = "exclusive"
  BY <1>1, RequestTyped DEF LockAt
<1>4. exists /\ \A q \in Requests \ {r} : lock[q] = "none"
  BY <1>3 DEF IInv, LocksOK
<1>5. want[r] \in Keys \cap Legacy /\ want[r] # status_id /\ read[r] = status_id
  BY <1>1 DEF IInv, RequestsOK, RequestOK
<1>6. \/ /\ history' = Append(history, [from |-> status_id, to |-> want[r]])
         /\ audit' = audit + 1 /\ status_id' = want[r] /\ status' = want[r]
      \/ UNCHANGED <<log, status, status_id>>
  BY <1>5 DEF CommitChange
<1>7. QED
  BY <1>1, <1>2, <1>4, <1>5, <1>6

LEMMA CommitChangeIInv ==
  ASSUME IInv, NEW r \in Requests, CommitChange(r)
  PROVE  IInv'
<1>1. PICK a \in Answers : Answer(r, a)
  BY CommitChangeCases
<1>2. UNCHANGED <<exists, trace>> /\ pc[r] = "commit" /\ exists
  BY CommitChangeCases
<1>3. RequestTypes' /\ LocksOK' /\ RequestsOK'
  BY <1>1, CommitChangeCases, AnswerStep
<1>4. TellsOK'
  <2>1. applications' = applications /\ told' = told /\ applications \in Nat
    BY <1>2 DEF trace, IInv, TypeOK
  <2>2. QED
    BY <1>1, <1>2, <2>1, AnswerTells
<1>5. TableTypes /\ HistoryChain
  BY TypeHalves DEF IInv
<1>6. applications' = applications /\ events' = events /\ told' = told /\ exists' = exists
  BY <1>2 DEF trace
<1>7. CASE UNCHANGED <<log, status, status_id>>
  <2>1. TableTypes'
    BY <1>5, <1>6, <1>7 DEF TableTypes, log
  <2>2. HistoryChain'
    BY <1>5, <1>6, <1>7 DEF HistoryChain, log
  <2>3. QED
    BY <1>3, <1>4, <2>1, <2>2, TypeHalvesNext DEF IInv
<1>8. CASE /\ history' = Append(history, [from |-> status_id, to |-> want[r]])
           /\ audit' = audit + 1 /\ status_id' = want[r] /\ status' = want[r]
  <2> DEFINE e == [from |-> status_id, to |-> want[r]]
  <2>1. want[r] \in Keys /\ want[r] \in Legacy
    BY CommitChangeCases
  <2>2. e \in Changes
    BY <1>5, <2>1 DEF TableTypes, Changes
  <2>3. history \in Seq(Changes) /\ audit \in Nat
    BY <1>5 DEF TableTypes
  <2> HIDE DEF e
  <2>4. history' = Append(history, e)
    BY <1>8 DEF e
  <2>5. /\ history' \in Seq(Changes) /\ Len(history') = Len(history) + 1
        /\ history'[Len(history) + 1] = e /\ history' # <<>> /\ Len(history) \in Nat
        /\ \A i \in 1..Len(history) : history'[i] = history[i]
    BY <2>2, <2>3, <2>4, AppendFacts
  <2>6. TableTypes'
    BY <1>5, <1>6, <1>8, <2>1, <2>3, <2>5 DEF TableTypes
  <2>7. e.from = status_id /\ e.to = status_id'
    BY <1>8 DEF e
  <2>8. HistoryChain'
    <3>1. \A i \in 1..Len(history') - 1 : history'[i + 1].from = history'[i].to
      <4> SUFFICES ASSUME NEW i \in 1..Len(history) PROVE history'[i + 1].from = history'[i].to
        BY <2>5
      <4>1. CASE i = Len(history)
        <5>1. history # <<>>
          BY <4>1, <2>5, <2>3
        <5>2. history[i].to = status_id
          BY <1>2, <1>5, <4>1, <5>1 DEF HistoryChain
        <5>3. QED
          BY <2>5, <2>7, <4>1, <5>2
      <4>2. CASE i # Len(history)
        <5>1. i \in 1..Len(history) - 1 /\ i + 1 \in 1..Len(history)
          BY <2>5, <4>2
        <5>2. history[i + 1].from = history[i].to
          BY <1>2, <1>5, <5>1 DEF HistoryChain
        <5>3. QED
          BY <2>5, <5>1, <5>2
      <4>3. QED
        BY <4>1, <4>2
    <3>2. history'[Len(history')].to = status_id'
      BY <2>5, <2>7
    <3>3. audit' = Len(history')
      BY <1>2, <1>5, <1>8, <2>5 DEF HistoryChain
    <3>4. QED
      BY <3>1, <3>2, <3>3 DEF HistoryChain
  <2>9. QED
    BY <1>3, <1>4, <2>6, <2>8, TypeHalvesNext DEF IInv
<1>9. QED
  BY <1>7, <1>8, CommitChangeCases

\* A PATCH writes the old status column and nothing that the history is about.
LEMMA PatchWriteIInv ==
  ASSUME IInv, NEW r \in Requests, PatchWrite(r)
  PROVE  IInv'
<1>1. UNCHANGED <<exists, status_id, log, trace>> /\ pc[r] = "write" /\ mishaps' \in Nat
  BY CountsTyped DEF PatchWrite
<1>2. /\ exists' = exists /\ status_id' = status_id /\ history' = history /\ audit' = audit
      /\ applications' = applications /\ events' = events /\ told' = told
  BY <1>1 DEF log, trace
<1>3. status' \in Legacy
  <2>1. status \in Legacy
    BY DEF IInv, TypeOK
  <2>2. want[r] \in Legacy \cup {None} /\ read[r] \in Legacy
    BY <1>1 DEF IInv, RequestsOK, RequestOK
  <2>3. Written(r) \in Legacy
    BY <2>2 DEF Written
  <2>4. QED
    BY <2>1, <2>3 DEF PatchWrite
<1>4. TableTypes /\ HistoryChain /\ applications \in Nat
  BY TypeHalves DEF IInv, TypeOK
<1>5. TableTypes'
  BY <1>2, <1>3, <1>4 DEF TableTypes
<1>6. HistoryChain'
  BY <1>2, <1>4 DEF HistoryChain
<1>7. CASE \E a \in Answers : Answer(r, a)
  <2>1. RequestTypes' /\ LocksOK' /\ RequestsOK'
    BY <1>1, <1>7, AnswerStep
  <2>2. TellsOK'
    BY <1>1, <1>2, <1>4, <1>7, AnswerTells
  <2>3. QED
    BY <1>5, <1>6, <2>1, <2>2, TypeHalvesNext DEF IInv
<1>8. CASE Goto(r, "announce") /\ UNCHANGED <<lock, want, read, answer>>
  <2>1. lock[r] = "none"
    BY <1>1, RequestTyped DEF LockAt
  <2>2. Step(r, "announce", "none", want[r], read[r], answer[r])
    BY <1>8, <2>1, RequestTyped DEF Step, Goto
  <2>3. RequestTypes /\ LocksOK /\ RequestsOK /\ TellsOK
    BY TypeHalves DEF IInv
  <2>4. want[r] \in Values /\ read[r] \in Values /\ answer[r] \in Answers
    BY RequestTyped
  <2>5. RequestTypes'
    BY <1>1, <2>2, <2>3, <2>4, StepTypes DEF Labels, Modes
  <2>6. LocksOK'
    <3>1. "none" = LockAt("announce")
      BY DEF LockAt
    <3>2. QED
      BY <1>2, <2>2, <2>3, <3>1, StepLocks
  <2>7. RequestsOK'
    <3>1. pc'[r] = "announce"
      BY <2>2, <2>3 DEF Step, RequestTypes
    <3>2. RequestOK(r)'
      BY <3>1 DEF RequestOK
    <3>3. QED
      BY <1>2, <2>2, <2>3, <3>2, StepRequests
  <2>8. TellsOK'
    <3>1. told["applied"] \in Nat
      BY <1>4 DEF TableTypes, Types
    <3>2. QED
      BY <1>1, <1>2, <1>4, <2>2, <2>3, <3>1, StepTells
  <2>9. QED
    BY <1>5, <1>6, <2>5, <2>6, <2>7, <2>8, TypeHalvesNext DEF IInv
<1>9. QED
  BY <1>7, <1>8 DEF PatchWrite, Answers

LEMMA CountTyped ==
  ASSUME NEW c \in [Types -> Nat], NEW t \in Types
  PROVE  Count(c, t) \in [Types -> Nat] /\ \A u \in Types : u # t => Count(c, t)[u] = c[u]
BY DEF Count

LEMMA EmitIInv ==
  ASSUME IInv, NEW r \in Requests, EmitStatusChanged(r)
  PROVE  IInv'
<1>1. UNCHANGED <<row, log, applications>> /\ pc[r] = "announce" /\ mishaps' \in Nat /\ Answer(r, "ok")
  BY CountsTyped DEF EmitStatusChanged
<1>2. /\ exists' = exists /\ status' = status /\ status_id' = status_id
      /\ history' = history /\ audit' = audit /\ applications' = applications
  BY <1>1 DEF row, log
<1>3. TableTypes /\ HistoryChain /\ applications \in Nat
  BY TypeHalves DEF IInv, TypeOK
<1>4. events' \in [Types -> Nat] /\ told' \in [Types -> Nat] /\ told'["applied"] = told["applied"]
  <2>1. events \in [Types -> Nat] /\ told \in [Types -> Nat]
    BY <1>3 DEF TableTypes
  <2>2. "status_changed" \in Types /\ "applied" \in Types
    BY DEF Types
  <2>3. told' = Count(told, "status_changed")
        /\ (events' = events \/ events' = Count(events, "status_changed"))
    BY DEF EmitStatusChanged
  <2>4. QED
    BY <2>1, <2>2, <2>3, CountTyped
<1>5. TableTypes'
  BY <1>2, <1>3, <1>4 DEF TableTypes
<1>6. HistoryChain'
  BY <1>2, <1>3 DEF HistoryChain
<1>7. RequestTypes' /\ LocksOK' /\ RequestsOK'
  BY <1>1, <1>2, AnswerStep DEF Answers
<1>8. TellsOK'
  BY <1>1, <1>2, <1>3, <1>4, AnswerTells DEF Answers
<1>9. QED
  BY <1>5, <1>6, <1>7, <1>8, TypeHalvesNext DEF IInv

LEMMA InsertApplicationIInv ==
  ASSUME IInv, NEW r \in Requests, InsertApplication(r)
  PROVE  IInv'
<1>1. UNCHANGED <<row, log, trace>> /\ pc[r] = "apply" /\ mishaps' \in Nat
  BY CountsTyped DEF InsertApplication
<1>2. CASE Answer(r, "error")
  BY <1>1, <1>2, QuietEnd DEF Answers
<1>3. CASE /\ Free(r, "share") /\ exists /\ Hold(r, "share") /\ Goto(r, "mark")
           /\ UNCHANGED <<want, read, answer>>
  <2>1. Step(r, "mark", "share", want[r], read[r], answer[r])
    BY <1>3, RequestTyped DEF Step, Hold, Goto
  <2>2. \A q \in Requests \ {r} : lock[q] # "exclusive"
    BY <1>3 DEF Free, Conflicts
  <2>3. RequestOK(r)'
    <3>1. pc'[r] = "mark"
      BY <1>3, TypeHalves DEF IInv, RequestTypes, Goto
    <3>2. QED
      BY <3>1 DEF RequestOK
  <2>4. "share" = LockAt("mark") /\ "mark" \in Labels /\ "share" \in Modes
    BY DEF LockAt, Labels, Modes
  <2>5. want[r] \in Values /\ read[r] \in Values /\ answer[r] \in Answers
    BY RequestTyped
  <2>6. QED
    BY <1>1, <1>3, <2>1, <2>2, <2>3, <2>4, <2>5, QuietStep
<1>4. QED
  BY <1>2, <1>3 DEF InsertApplication, Rollback

LEMMA MarkAppliedIInv ==
  ASSUME IInv, NEW r \in Requests, MarkApplied(r)
  PROVE  IInv'
<1>1. UNCHANGED <<row, log, trace>> /\ pc[r] = "mark" /\ mishaps' \in Nat
  BY CountsTyped DEF MarkApplied
<1>2. CASE Answer(r, "error")
  BY <1>1, <1>2, QuietEnd DEF Answers
<1>3. CASE /\ Free(r, "write") /\ Hold(r, "write") /\ Goto(r, "seal")
           /\ UNCHANGED <<want, read, answer>>
  <2>1. Step(r, "seal", "write", want[r], read[r], answer[r])
    BY <1>3, RequestTyped DEF Step, Hold, Goto
  <2>2. \A q \in Requests \ {r} : lock[q] # "exclusive"
    BY <1>3 DEF Free, Conflicts
  <2>3. RequestOK(r)'
    <3>1. pc'[r] = "seal"
      BY <1>3, TypeHalves DEF IInv, RequestTypes, Goto
    <3>2. QED
      BY <3>1 DEF RequestOK
  <2>4. "write" = LockAt("seal") /\ "seal" \in Labels /\ "write" \in Modes
    BY DEF LockAt, Labels, Modes
  <2>5. want[r] \in Values /\ read[r] \in Values /\ answer[r] \in Answers
    BY RequestTyped
  <2>6. exists
    <3>1. lock[r] = "share"
      BY <1>1, RequestTyped DEF LockAt
    <3>2. QED
      BY <3>1 DEF IInv, LocksOK
  <2>7. QED
    BY <1>1, <2>1, <2>2, <2>3, <2>4, <2>5, <2>6, QuietStep
<1>4. QED
  BY <1>2, <1>3 DEF MarkApplied, Rollback

\* An application is committed; it is told next, unless its commit seemed to fail.
LEMMA CommitApplyIInv ==
  ASSUME IInv, NEW r \in Requests, CommitApply(r)
  PROVE  IInv'
<1> USE DEF CommitFailed
<1>1. UNCHANGED <<exists, status_id, log, told>> /\ pc[r] = "seal" /\ mishaps' \in Nat
  BY CountsTyped DEF CommitApply
<1>2. /\ exists' = exists /\ status_id' = status_id /\ history' = history /\ audit' = audit
      /\ told' = told
  BY <1>1 DEF log
<1>3. TableTypes /\ HistoryChain /\ applications \in Nat /\ mishaps \in Nat
  BY TypeHalves DEF IInv, TypeOK
<1>4. told \in [Types -> Nat] /\ told["applied"] \in Nat
  BY <1>3 DEF TableTypes, Types
<1>5. TableTypes'
  <2>1. status' \in Legacy
    BY <1>3, StatusAssumption DEF CommitApply, SetApplied, TableTypes
  <2>2. events \in [Types -> Nat] /\ "applied" \in Types
    BY <1>3 DEF TableTypes, Types
  <2>3. events' \in [Types -> Nat]
    BY <2>2, CountTyped DEF CommitApply
  <2>4. applications' \in Nat
    BY <1>3 DEF CommitApply
  <2>5. QED
    BY <1>2, <1>3, <2>1, <2>3, <2>4 DEF TableTypes
<1>6. HistoryChain'
  BY <1>2, <1>3 DEF HistoryChain
<1>7. applications' \in Nat /\ applications <= applications'
  BY <1>3 DEF CommitApply
<1>8. CASE Answer(r, "error")
  <2>1. RequestTypes' /\ LocksOK' /\ RequestsOK'
    BY <1>1, <1>2, <1>8, AnswerStep DEF Answers
  <2>2. TellsOK'
    BY <1>1, <1>2, <1>7, <1>8, AnswerTells DEF Answers
  <2>3. QED
    BY <1>5, <1>6, <2>1, <2>2, TypeHalvesNext DEF IInv
<1>9. CASE Hold(r, "none") /\ Goto(r, "tell") /\ UNCHANGED <<want, read, answer, mishaps>>
  <2>1. Step(r, "tell", "none", want[r], read[r], answer[r])
    BY <1>9, RequestTyped DEF Step, Hold, Goto
  <2>2. RequestTypes /\ LocksOK /\ RequestsOK /\ TellsOK
    BY TypeHalves DEF IInv
  <2>3. want[r] \in Values /\ read[r] \in Values /\ answer[r] \in Answers
    BY RequestTyped
  <2>4. RequestTypes'
    BY <1>1, <2>1, <2>2, <2>3, StepTypes DEF Labels, Modes
  <2>5. LocksOK'
    <3>1. "none" = LockAt("tell")
      BY DEF LockAt
    <3>2. QED
      BY <1>2, <2>1, <2>2, <3>1, StepLocks
  <2>6. pc' = [pc EXCEPT ![r] = "tell"] /\ pc \in [Requests -> Labels]
    BY <1>9, <2>2 DEF Goto, RequestTypes
  <2>7. RequestsOK'
    <3>1. RequestOK(r)'
      BY <2>6 DEF RequestOK
    <3>2. QED
      BY <1>2, <2>1, <2>2, <3>1, StepRequests
  <2>8. TellsOK'
    <3>1. applications' = applications + 1
      BY <1>3, <1>9 DEF CommitApply
    <3>2. Tellers' = Tellers \cup {r} /\ r \notin Tellers
      BY <1>1, <2>6 DEF Tellers
    <3>3. IsFiniteSet(Tellers') /\ Cardinality(Tellers') = Cardinality(Tellers) + 1
      BY <2>2, <3>2, FS_AddElement DEF TellsOK
    <3>4. Cardinality(Tellers) \in Nat
      BY <2>2, FS_CardinalityType DEF TellsOK
    <3>5. QED
      BY <1>2, <1>3, <1>4, <2>2, <3>1, <3>3, <3>4 DEF TellsOK
  <2>9. QED
    BY <1>5, <1>6, <2>4, <2>5, <2>7, <2>8, TypeHalvesNext DEF IInv
<1>10. QED
  BY <1>8, <1>9 DEF CommitApply

LEMMA TellAppliedIInv ==
  ASSUME IInv, NEW r \in Requests, TellApplied(r)
  PROVE  IInv'
<1>1. UNCHANGED <<row, log, applications, events>> /\ pc[r] = "tell" /\ mishaps' \in Nat /\ Answer(r, "ok")
  BY CountsTyped DEF TellApplied
<1>2. /\ exists' = exists /\ status' = status /\ status_id' = status_id
      /\ history' = history /\ audit' = audit
      /\ applications' = applications /\ events' = events
  BY <1>1 DEF row, log
<1>3. TableTypes /\ HistoryChain /\ TellsOK /\ applications \in Nat /\ told \in [Types -> Nat]
  BY TypeHalves DEF IInv, TypeOK
<1>4. told' \in [Types -> Nat] /\ told'["applied"] \in {told["applied"], told["applied"] + 1}
  <2>1. "applied" \in Types
    BY DEF Types
  <2>2. told' = told \/ told' = Count(told, "applied")
    BY DEF TellApplied
  <2>3. Count(told, "applied")["applied"] = told["applied"] + 1
    BY <1>3, <2>1 DEF Count
  <2>4. QED
    BY <1>3, <2>1, <2>2, <2>3, CountTyped
<1>5. TableTypes'
  BY <1>2, <1>3, <1>4 DEF TableTypes
<1>6. HistoryChain'
  BY <1>2, <1>3 DEF HistoryChain
<1>7. RequestTypes' /\ LocksOK' /\ RequestsOK'
  BY <1>1, <1>2, AnswerStep DEF Answers
<1>8. TellsOK'
  <2>1. pc \in [Requests -> Labels] /\ pc' = [pc EXCEPT ![r] = "end"]
    BY <1>1, TypeHalves DEF IInv, RequestTypes, Answer, Goto
  <2>2. Tellers' = Tellers \ {r} /\ r \in Tellers
    BY <1>1, <2>1 DEF Tellers
  <2>3. IsFiniteSet(Tellers') /\ Cardinality(Tellers') = Cardinality(Tellers) - 1
    BY <1>3, <2>2, FS_RemoveElement DEF TellsOK
  <2>4. Cardinality(Tellers) \in Nat
    BY <1>3, FS_CardinalityType DEF TellsOK
  <2>5. told["applied"] \in Nat
    BY <1>3 DEF Types
  <2>6. QED
    BY <1>2, <1>3, <1>4, <2>3, <2>4, <2>5 DEF TellsOK
<1>9. QED
  BY <1>5, <1>6, <1>7, <1>8, TypeHalvesNext DEF IInv

\* A DELETE waits until nobody holds the row.
LEMMA DeleteOrderIInv ==
  ASSUME IInv, NEW r \in Requests, DeleteOrder(r)
  PROVE  IInv'
<1>1. UNCHANGED trace /\ pc[r] = "delete" /\ mishaps' \in Nat /\ \E a \in Answers : Answer(r, a)
  BY CountsTyped DEF DeleteOrder, Answers
<1>2. CASE UNCHANGED <<row, log>>
  <2>1. UNCHANGED <<row, log, trace>>
    BY <1>1, <1>2
  <2>2. QED
    BY <1>1, <2>1, QuietEnd
<1>3. CASE Free(r, "exclusive") /\ RemoveRow
  <2>1. \A q \in Requests \ {r} : lock[q] = "none"
    <3>1. \A q \in Requests \ {r} : lock[q] \notin {"share", "write", "exclusive"}
      BY <1>3 DEF Free, Conflicts
    <3>2. QED
      BY <3>1, RequestTyped DEF Modes
  <2>2. RequestTypes' /\ LocksOK' /\ RequestsOK'
    BY <1>1, <2>1, AnswerStep
  <2>3. TableTypes
    BY TypeHalves DEF IInv
  <2>4. /\ exists' = FALSE /\ status' = status /\ status_id' = None /\ history' = <<>>
        /\ audit' = audit /\ applications' = applications /\ events' = events /\ told' = told
    BY <1>1, <1>3 DEF RemoveRow, trace
  <2>5. TableTypes'
    <3>1. history' \in Seq(Changes)
      BY <2>4
    <3>2. exists' \in BOOLEAN
      BY <2>4
    <3>3. QED
      BY <2>3, <2>4, <3>1, <3>2 DEF TableTypes
  <2>6. HistoryChain'
    BY <2>4 DEF HistoryChain
  <2>7. TellsOK'
    <3>1. applications \in Nat
      BY <2>3 DEF TableTypes
    <3>2. QED
      BY <1>1, <2>4, <3>1, AnswerTells
  <2>8. QED
    BY <2>2, <2>5, <2>6, <2>7, TypeHalvesNext DEF IInv
<1>4. QED
  BY <1>2, <1>3 DEF DeleteOrder

LEMMA CrashIInv ==
  ASSUME IInv, Crash
  PROVE  IInv'
<1>1. UNCHANGED <<row, log, trace>> /\ mishaps' \in Nat
  BY CountsTyped DEF Crash
<1>2. RequestTypes /\ TellsOK
  BY TypeHalves DEF IInv
<1>3. RequestTypes'
  BY <1>1, <1>2 DEF Crash, RequestTypes, Labels, Modes, Values
<1>4. \A r \in Requests : pc'[r] \in {"none", "end"} /\ lock'[r] = "none"
  BY <1>2 DEF Crash
<1>5. LocksOK' /\ RequestsOK'
  BY <1>4 DEF LocksOK, LockAt, RequestsOK, RequestOK
<1>6. /\ TableTypes' /\ HistoryChain'
      /\ applications' \in Nat /\ told'["applied"] = told["applied"] /\ applications <= applications'
  BY <1>1, SameTables
<1>7. TellsOK'
  <2>1. Tellers' = {}
    BY <1>4 DEF Tellers
  <2>2. IsFiniteSet(Tellers') /\ Cardinality(Tellers') = 0
    BY <2>1, FS_EmptySet
  <2>3. Cardinality(Tellers) \in Nat
    BY <1>2, FS_CardinalityType DEF TellsOK
  <2>4. told["applied"] \in Nat /\ applications \in Nat
    BY DEF IInv, TypeOK, Types
  <2>5. QED
    BY <1>2, <1>6, <2>2, <2>3, <2>4 DEF TellsOK
<1>8. QED
  BY <1>3, <1>5, <1>6, <1>7, TypeHalvesNext DEF IInv

LEMMA NextIInv == IInv /\ [Next]_vars => IInv'
<1> SUFFICES ASSUME IInv, [Next]_vars PROVE IInv'
  OBVIOUS
<1>1. CASE Crash
  BY <1>1, CrashIInv
<1>2. ASSUME NEW r \in Requests,
             \/ \E key \in Keys : ChangeOrderStatus(r, key)
             \/ \E s \in Legacy \cup {None} : PatchRead(r, s)
             \/ Apply(r)
             \/ Delete(r)
      PROVE IInv'
  BY <1>2, StartIInv
<1>3. ASSUME NEW r \in Requests, Handle(r) PROVE IInv'
  BY <1>3, LockRowIInv, ChangeRowIInv, CommitChangeIInv, PatchWriteIInv, EmitIInv,
     InsertApplicationIInv, MarkAppliedIInv, CommitApplyIInv, TellAppliedIInv, DeleteOrderIInv
     DEF Handle
<1>4. CASE UNCHANGED vars
  BY <1>4 DEF vars, row, log, trace, IInv, TypeOK, LocksOK, RequestsOK, RequestOK,
              HistoryChain, TellsOK, Tellers
<1>5. QED
  BY <1>1, <1>2, <1>3, <1>4 DEF Next

LEMMA Invariance == Spec => []IInv
BY InitIInv, NextIInv, PTL DEF Spec

-----------------------------------------------------------------------------
(* The theorems *)

\* Every variable keeps its range; above all orders.status keeps its CHECK
\* although order_statuses knows other keys.
THEOREM TypeCorrect == Spec => []TypeOK
<1>1. IInv => TypeOK
  BY DEF IInv
<1>2. QED
  BY <1>1, Invariance, PTL

\* The history of an order is one chain that ends in its status_id, with a line of
\* audit_log for each of its entries.
THEOREM HistoryIsChain == Spec => []HistoryChain
<1>1. IInv => HistoryChain
  BY DEF IInv
<1>2. QED
  BY <1>1, Invariance, PTL

\* Watchers hear of no application that is not committed.
THEOREM ToldIsCommitted == Spec => []TellsCommitted
<1>1. IInv => TellsCommitted
  <2> SUFFICES ASSUME IInv PROVE TellsCommitted
    OBVIOUS
  <2>1. Cardinality(Tellers) \in Nat
    BY FS_CardinalityType DEF IInv, TellsOK
  <2>2. told["applied"] \in Nat /\ applications \in Nat
    BY DEF IInv, TypeOK, Types
  <2>3. QED
    BY <2>1, <2>2 DEF IInv, TellsOK, TellsCommitted
<1>2. QED
  BY <1>1, Invariance, PTL

\* The history and status_id implement StatusLog: every step appends one entry that
\* starts where the last one ended, removes the order with its history, or leaves
\* both alone.
THEOREM LogImplemented == Spec => ImplementsStatusLog
<1>1. Init => Log!Init
  BY StatusAssumption DEF Init, Log!Init
<1>2. IInv /\ [Next]_vars => [Log!Next]_(Log!vars)
  <2> SUFFICES ASSUME IInv, [Next]_vars PROVE Log!Next \/ UNCHANGED <<exists, status_id, history>>
    BY DEF Log!vars
  <2>1. ASSUME NEW r \in Requests, CommitChange(r)
        PROVE Log!Next \/ UNCHANGED <<exists, status_id, history>>
    <3>1. CASE UNCHANGED <<log, status, status_id>>
      BY <2>1, <3>1 DEF CommitChange, log
    <3>2. CASE history' = Append(history, [from |-> status_id, to |-> want[r]]) /\ status_id' = want[r]
      <4>1. exists /\ want[r] \in Keys /\ want[r] # status_id /\ exists' = exists
        BY <2>1, CommitChangeCases
      <4>2. Log!Change(want[r])
        BY <3>2, <4>1 DEF Log!Change
      <4>3. QED
        BY <4>1, <4>2 DEF Log!Next
    <3>3. QED
      BY <2>1, <3>1, <3>2, CommitChangeCases
  <2>2. ASSUME NEW r \in Requests, DeleteOrder(r)
        PROVE Log!Next \/ UNCHANGED <<exists, status_id, history>>
    BY <2>2 DEF DeleteOrder, RemoveRow, Log!Next, Log!Remove, row, log
  <2>3. ASSUME NEW r \in Requests, Handle(r)
        PROVE Log!Next \/ UNCHANGED <<exists, status_id, history>>
    <3>1. UNCHANGED <<exists, status_id, history>> \/ CommitChange(r) \/ DeleteOrder(r)
      BY <2>3 DEF Handle, LockRow, ChangeRow, PatchWrite, EmitStatusChanged, InsertApplication,
                  MarkApplied, CommitApply, TellApplied, row, log
    <3>2. QED
      BY <2>1, <2>2, <3>1
  <2>4. CASE Crash \/ UNCHANGED vars
    BY <2>4 DEF Crash, vars, row, log
  <2>5. ASSUME NEW r \in Requests,
               \/ \E key \in Keys : ChangeOrderStatus(r, key)
               \/ \E s \in Legacy \cup {None} : PatchRead(r, s)
               \/ Apply(r)
               \/ Delete(r)
        PROVE UNCHANGED <<exists, status_id, history>>
    BY <2>5 DEF ChangeOrderStatus, PatchRead, Apply, Delete, row, log
  <2>6. QED
    BY <2>3, <2>4, <2>5 DEF Next
<1>3. QED
  BY <1>1, <1>2, Invariance, PTL DEF Spec, ImplementsStatusLog, Log!Spec

\* What a request asks for and where it then is; who holds a lock and asks for one.
LEMMA AsksAt ==
  ASSUME NEW r \in Requests
  PROVE  /\ Asks(r) \in Modes
         /\ Asks(r) = "exclusive" => pc[r] \in {"lock", "delete"}
         /\ pc[r] \in {"change", "mark"} => Asks(r) = "write"
         /\ pc[r] \in {"commit", "seal"} => Asks(r) = "none"
BY DEF Asks, RowLock, Modes

LEMMA ConflictsOf ==
  /\ Conflicts("none") = {}
  /\ Conflicts("share") = {"exclusive"}
  /\ Conflicts("write") = {"write", "exclusive"}
  /\ Conflicts("exclusive") = {"share", "write", "exclusive"}
BY DEF Conflicts

\* A chain of requests that wait for each other's row lock has two links at most, so
\* that none is ever closed to a circle.
THEOREM NoCircle == Spec => []WaitsEnd
<1>1. ASSUME IInv, NEW r \in Requests, NEW q \in Requests, NEW s \in Requests,
             Waits(r, q), Waits(q, s), NEW t \in Requests
      PROVE  ~Waits(s, t)
  <2>1. /\ \A u \in Requests : lock[u] = LockAt(pc[u])
        /\ \A u, v \in Requests : u # v /\ lock[u] = "exclusive" => lock[v] = "none"
    BY <1>1 DEF IInv, LocksOK
  <2>2. lock[q] # "none" /\ lock[s] # "none"
    BY <1>1, AsksAt, ConflictsOf DEF Waits, Modes
  <2>3. q # s /\ lock[s] \in Conflicts(Asks(q))
    BY <1>1 DEF Waits
  <2>4. lock[q] # "exclusive" /\ lock[s] # "exclusive"
    BY <2>1, <2>2, <2>3
  <2>5. pc[q] = "mark"
    <3>1. pc[q] \in {"change", "commit", "mark", "seal"}
      BY <2>1, <2>2 DEF LockAt
    <3>2. pc[q] \notin {"commit", "seal"}
      BY <2>3, AsksAt, ConflictsOf
    <3>3. pc[q] # "change"
      BY <2>1, <2>4 DEF LockAt
    <3>4. QED
      BY <3>1, <3>2, <3>3
  <2>6. lock[s] = "write"
    <3>1. Asks(q) = "write"
      BY <2>5, AsksAt
    <3>2. QED
      BY <2>3, <2>4, <3>1, ConflictsOf
  <2>7. pc[s] = "seal"
    BY <2>1, <2>6 DEF LockAt
  <2>8. Asks(s) = "none"
    BY <2>7, AsksAt
  <2>9. QED
    BY <2>8, ConflictsOf DEF Waits
<1>2. IInv => WaitsEnd
  BY <1>1 DEF WaitsEnd
<1>3. QED
  BY <1>2, Invariance, PTL
=============================================================================
