----------------------------- MODULE OrderStatus -----------------------------
(***************************************************************************)
(* One order under everything that changes its status or removes it:       *)
(* PATCH /api/orders/{id} (api/orders.go), PATCH /api/orders/{id}/status   *)
(* (Store.ChangeOrderStatus), POST /api/orders/{id}/apply                  *)
(* (Store.ApplyToOrder) and DELETE, which is also what the collector does. *)
(* The row has two statuses, the old column status and the key behind      *)
(* status_id.                                                              *)
(*                                                                         *)
(* Statements run at READ COMMITTED and wait for the row locks of others;  *)
(* what a transaction wrote is kept in its request's pc until it commits.  *)
(* Edits of these tables by hand, in the database grid, are not modelled.  *)
(***************************************************************************)
EXTENDS Integers, Sequences

CONSTANTS
  Keys,         \* order_statuses.key
  Legacy,       \* what the CHECK of orders.status admits, orderStatuses of the API
  Requests,     \* handlers, each of one request
  None,         \* NULL, a body without status, a request without answer
  MaxMishaps    \* bound: failed calls and crashes together

\* The backfill of migration 006.
Backfill(s) ==
  CASE s = "won" -> "offer"
    [] s = "lost" -> "rejected"
    [] OTHER -> s

ASSUME StatusAssumption ==
  /\ {"new", "applied"} \subseteq Legacy
  /\ \A s \in Legacy : Backfill(s) \in Keys
  /\ None \notin Keys \cup Legacy
  /\ MaxMishaps \in Nat

VARIABLES
  exists,       \* the row is in the table
  status,       \* orders.status
  status_id,    \* the key behind orders.status_id
  history,      \* rows of order_status_history of the order
  audit,        \* number of its rows in audit_log
  applications, \* number of its applications
  events,       \* number of its events by type
  told,         \* number of broadcasts by type
  pc, lock,     \* for each request: where it is, the row lock it holds,
  want, read,   \* the status it asks for, the one it read,
  answer,       \* and whether it was answered with success
  mishaps

row   == <<exists, status, status_id>>
log   == <<history, audit>>
trace == <<applications, events, told>>
vars == <<row, log, trace, pc, lock, want, read, answer, mishaps>>

Types == {"applied", "status_changed"}

-----------------------------------------------------------------------------
(* Row locks of PostgreSQL: FOR KEY SHARE (a foreign key), FOR NO KEY UPDATE  *)
(* (an UPDATE) and FOR UPDATE (asked for, or a DELETE).                       *)

Conflicts(mode) ==
  CASE mode = "none" -> {}
    [] mode = "share" -> {"exclusive"}
    [] mode = "write" -> {"write", "exclusive"}
    [] mode = "exclusive" -> {"share", "write", "exclusive"}

Free(r, mode) == \A q \in Requests \ {r} : lock[q] \notin Conflicts(mode)

Hold(r, mode) == lock' = [lock EXCEPT ![r] = mode]
Goto(r, label) == pc' = [pc EXCEPT ![r] = label]

Mishap == mishaps < MaxMishaps /\ mishaps' = mishaps + 1

Forget(r) ==
  /\ want' = [want EXCEPT ![r] = None]
  /\ read' = [read EXCEPT ![r] = None]

\* The handler answers and is done; its locks are gone with its transaction.
Answer(r, a) ==
  /\ Goto(r, "end")
  /\ Hold(r, "none")
  /\ answer' = [answer EXCEPT ![r] = a]
  /\ Forget(r)

\* defer tx.Rollback(ctx).  Variant: forgotten.
RollbackForgotten(r) ==
  /\ Goto(r, "end")
  /\ answer' = [answer EXCEPT ![r] = "error"]
  /\ Forget(r)
  /\ UNCHANGED lock
Rollback(r) == Answer(r, "error")

-----------------------------------------------------------------------------
Init ==
  /\ exists = TRUE
  /\ \/ status = "new" /\ status_id = None
     \/ status \in Legacy /\ status_id = Backfill(status)
  /\ history = <<>>
  /\ audit = 0
  /\ applications = 0
  /\ events = [t \in Types |-> 0]
  /\ told = [t \in Types |-> 0]
  /\ pc = [r \in Requests |-> "none"]
  /\ lock = [r \in Requests |-> "none"]
  /\ want = [r \in Requests |-> None]
  /\ read = [r \in Requests |-> None]
  /\ answer = [r \in Requests |-> None]
  /\ mishaps = 0

-----------------------------------------------------------------------------
(* PATCH /api/orders/{id}/status *)

\* The key is one of order_statuses; Begin.
ChangeOrderStatus(r, key) ==
  /\ pc[r] = "none"
  /\ Goto(r, "lock")
  /\ want' = [want EXCEPT ![r] = key]
  /\ UNCHANGED <<row, log, trace, lock, read, answer, mishaps>>

\* SELECT ... FOR UPDATE.  Variant: without FOR UPDATE.
RowLockNone == "none"
RowLock == "exclusive"

\* The status is the wanted one already: an empty transaction.  Variant: no
\* such return.
AlreadySetNever(r) == FALSE
AlreadySet(r) == status_id = want[r]

LockRow(r) ==
  /\ pc[r] = "lock"
  /\ \/ /\ Free(r, RowLock)
        /\ exists
        /\ IF AlreadySet(r)
             THEN Answer(r, "ok")
             ELSE /\ Hold(r, RowLock)
                  /\ read' = [read EXCEPT ![r] = status_id]
                  /\ Goto(r, "change")
                  /\ UNCHANGED <<want, answer>>
        /\ UNCHANGED mishaps
     \/ Free(r, RowLock) /\ ~exists /\ Rollback(r) /\ UNCHANGED mishaps
     \/ Mishap /\ Rollback(r)
  /\ UNCHANGED <<row, log, trace>>

\* The CHECK of orders.status, never brought up to order_statuses.  Variant:
\* without it.
AdmittedAlways(key) == TRUE
Admitted(key) == key \in Legacy

\* INSERT INTO order_status_history, UPDATE orders, INSERT INTO audit_log.
ChangeRow(r) ==
  /\ pc[r] = "change"
  /\ Free(r, "write")
  /\ \/ /\ Admitted(want[r])
        /\ Goto(r, "commit")
        /\ UNCHANGED <<lock, want, read, answer, mishaps>>
     \/ ~Admitted(want[r]) /\ Rollback(r) /\ UNCHANGED mishaps
     \/ Mishap /\ Rollback(r)
  /\ UNCHANGED <<row, log, trace>>

CommitChange(r) ==
  /\ pc[r] = "commit"
  /\ \/ Answer(r, "ok") /\ UNCHANGED mishaps
     \/ Mishap /\ Answer(r, "error")
  /\ \/ /\ history' = Append(history, [from |-> read[r], to |-> want[r]])
        /\ audit' = audit + 1
        /\ status_id' = want[r]
        /\ status' = want[r]
     \/ /\ answer'[r] = "error"
        /\ UNCHANGED <<log, status, status_id>>
  /\ UNCHANGED <<exists, trace>>

-----------------------------------------------------------------------------
(* PATCH /api/orders/{id} *)

\* GetOrder, and the body laid over the copy.
PatchRead(r, s) ==
  /\ pc[r] = "none"
  /\ exists
  /\ read' = [read EXCEPT ![r] = status]
  /\ want' = [want EXCEPT ![r] = s]
  /\ Goto(r, "write")
  /\ UNCHANGED <<row, log, trace, lock, answer, mishaps>>

\* UpdateOrder writes the copy's status when the body has none.
Written(r) == IF want[r] = None THEN read[r] ELSE want[r]

PatchWrite(r) ==
  /\ pc[r] = "write"
  /\ \/ /\ Free(r, "write")
        /\ exists
        /\ status' = Written(r)
        /\ IF want[r] \notin {None, read[r]}
             THEN Goto(r, "announce") /\ UNCHANGED <<lock, want, read, answer>>
             ELSE Answer(r, "ok")
        /\ UNCHANGED mishaps
     \/ Free(r, "write") /\ ~exists /\ Answer(r, "error") /\ UNCHANGED <<status, mishaps>>
     \/ /\ Mishap
        /\ Answer(r, "error")
        /\ \/ UNCHANGED status
           \/ Free(r, "write") /\ exists /\ status' = Written(r)
  /\ UNCHANGED <<exists, status_id, log, trace>>

Count(counter, type) == [counter EXCEPT ![type] = @ + 1]

\* emitStatusChanged broadcasts also when the event could not be inserted; there
\* is no event for an order that is gone.
EmitStatusChanged(r) ==
  /\ pc[r] = "announce"
  /\ \/ /\ Free(r, "share")
        /\ events' = IF exists THEN Count(events, "status_changed") ELSE events
        /\ UNCHANGED mishaps
     \/ Mishap /\ UNCHANGED events
  /\ told' = Count(told, "status_changed")
  /\ Answer(r, "ok")
  /\ UNCHANGED <<row, log, applications>>

-----------------------------------------------------------------------------
(* POST /api/orders/{id}/apply *)

Apply(r) ==
  /\ pc[r] = "none"
  /\ Goto(r, "apply")
  /\ UNCHANGED <<row, log, trace, lock, want, read, answer, mishaps>>

\* INSERT INTO applications ... SELECT FROM orders: its foreign key locks the row.
InsertApplication(r) ==
  /\ pc[r] = "apply"
  /\ \/ /\ Free(r, "share")
        /\ exists
        /\ Hold(r, "share")
        /\ Goto(r, "mark")
        /\ UNCHANGED <<want, read, answer, mishaps>>
     \/ Free(r, "share") /\ ~exists /\ Rollback(r) /\ UNCHANGED mishaps
     \/ Mishap /\ Rollback(r)
  /\ UNCHANGED <<row, log, trace>>

\* UPDATE orders SET status = 'applied', INSERT INTO events.
MarkApplied(r) ==
  /\ pc[r] = "mark"
  /\ \/ /\ Free(r, "write")
        /\ Hold(r, "write")
        /\ Goto(r, "seal")
        /\ UNCHANGED <<want, read, answer, mishaps>>
     \/ Mishap /\ Rollback(r)
  /\ UNCHANGED <<row, log, trace>>

SetApplied == status' = "applied"

\* An error of Commit is an error of the handler.  Variant: it is only logged.
CommitFailedUnseen(r) == Hold(r, "none") /\ Goto(r, "tell") /\ UNCHANGED <<want, read, answer>>
CommitFailed(r) == Answer(r, "error")

CommitApply(r) ==
  /\ pc[r] = "seal"
  /\ \/ /\ Hold(r, "none")
        /\ Goto(r, "tell")
        /\ UNCHANGED <<want, read, answer, mishaps>>
     \/ Mishap /\ CommitFailed(r)
  /\ \/ /\ applications' = applications + 1
        /\ events' = Count(events, "applied")
        /\ SetApplied
     \/ /\ mishaps' # mishaps
        /\ UNCHANGED <<applications, events, status>>
  /\ UNCHANGED <<exists, status_id, log, told>>

\* GetOrder and the broadcast, which is left out if the order is gone.
TellApplied(r) ==
  /\ pc[r] = "tell"
  /\ \/ told' = (IF exists THEN Count(told, "applied") ELSE told) /\ UNCHANGED mishaps
     \/ Mishap /\ UNCHANGED told
  /\ Answer(r, "ok")
  /\ UNCHANGED <<row, log, applications, events>>

-----------------------------------------------------------------------------
(* DELETE, by the user or by the collector *)

Delete(r) ==
  /\ pc[r] = "none"
  /\ Goto(r, "delete")
  /\ UNCHANGED <<row, log, trace, lock, want, read, answer, mishaps>>

\* The history goes with the order (ON DELETE CASCADE); applications, events and
\* audit_log stay.
RemoveRow ==
  /\ exists' = FALSE
  /\ status_id' = None
  /\ history' = <<>>
  /\ UNCHANGED <<status, audit>>

DeleteOrder(r) ==
  /\ pc[r] = "delete"
  /\ \/ Free(r, "exclusive") /\ exists /\ RemoveRow /\ Answer(r, "ok") /\ UNCHANGED mishaps
     \/ Free(r, "exclusive") /\ ~exists /\ Answer(r, "error") /\ UNCHANGED <<row, log, mishaps>>
     \/ /\ Mishap
        /\ Answer(r, "error")
        /\ \/ UNCHANGED <<row, log>>
           \/ Free(r, "exclusive") /\ exists /\ RemoveRow
  /\ UNCHANGED trace

-----------------------------------------------------------------------------
Handle(r) ==
  \/ LockRow(r) \/ ChangeRow(r) \/ CommitChange(r)
  \/ PatchWrite(r) \/ EmitStatusChanged(r)
  \/ InsertApplication(r) \/ MarkApplied(r) \/ CommitApply(r) \/ TellApplied(r)
  \/ DeleteOrder(r)

\* The process dies: PostgreSQL rolls back what was not committed.
Crash ==
  /\ Mishap
  /\ pc' = [r \in Requests |-> IF pc[r] = "none" THEN "none" ELSE "end"]
  /\ lock' = [r \in Requests |-> "none"]
  /\ want' = [r \in Requests |-> None]
  /\ read' = [r \in Requests |-> None]
  /\ UNCHANGED <<row, log, trace, answer>>

Next ==
  \/ \E r \in Requests :
       \/ \E key \in Keys : ChangeOrderStatus(r, key)
       \/ \E s \in Legacy \cup {None} : PatchRead(r, s)
       \/ Apply(r)
       \/ Delete(r)
       \/ Handle(r)
  \/ Crash

Spec == Init /\ [][Next]_vars

\* Handlers are scheduled, statements return, and PostgreSQL grants a lock that
\* nobody holds.
FairSpec == Spec /\ \A r \in Requests : WF_vars(Handle(r))

-----------------------------------------------------------------------------
(* Properties *)

Labels == {"none", "end", "lock", "change", "commit", "write", "announce",
           "apply", "mark", "seal", "tell", "delete"}

\* Ranges of the variables; orders.status keeps its CHECK.
TypeOK ==
  /\ exists \in BOOLEAN
  /\ status \in Legacy
  /\ status_id \in Keys \cup {None}
  /\ history \in Seq([from : Keys \cup {None}, to : Keys])
  /\ audit \in Nat
  /\ applications \in Nat
  /\ events \in [Types -> Nat]
  /\ told \in [Types -> Nat]
  /\ pc \in [Requests -> Labels]
  /\ lock \in [Requests -> {"none", "share", "write", "exclusive"}]
  /\ want \in [Requests -> Keys \cup Legacy \cup {None}]
  /\ read \in [Requests -> Keys \cup Legacy \cup {None}]
  /\ answer \in [Requests -> {"ok", "error", None}]
  /\ mishaps \in Nat

\* The history of an order is one chain: each change starts from what the change
\* before it ended in, the last one ends in the status the order has, and each
\* left its line in audit_log, whatever handlers ran at once, failed or died.
HistoryChain ==
  exists =>
    /\ \A i \in 1..Len(history) - 1 : history[i + 1].from = history[i].to
    /\ history # <<>> => history[Len(history)].to = status_id
    /\ audit = Len(history)

\* The history and status_id implement StatusLog.
Log == INSTANCE StatusLog WITH present <- exists, current <- status_id, log <- history
ImplementsStatusLog == Log!Spec

\* Watchers are told of no application that is not in the table: not when the COMMIT of
\* ApplyToOrder fails, not when it succeeds and its answer is lost, and not when several
\* apply and delete at once.
TellsCommitted == told["applied"] <= applications

\* The row lock that the next statement of a request asks for.
Asks(r) ==
  CASE pc[r] = "lock" -> RowLock
    [] pc[r] = "delete" -> "exclusive"
    [] pc[r] \in {"change", "write", "mark"} -> "write"
    [] pc[r] \in {"announce", "apply"} -> "share"
    [] OTHER -> "none"

Waits(r, q) == r # q /\ lock[q] \in Conflicts(Asks(r))

\* Whoever waits for one that waits waits in the end for somebody who does not: no
\* circle of any length, although ApplyToOrder takes its lock twice, shared for the
\* foreign key of the application and then for its UPDATE.
WaitsEnd ==
  \A r, q, s \in Requests : Waits(r, q) /\ Waits(q, s) => \A t \in Requests : ~Waits(s, t)

\* No handler waits for ever for a row lock that another one kept.
RequestsEnd == \A r \in Requests : pc[r] # "none" ~> pc[r] = "end"

\* "Synchronises status_id and the legacy status": when ChangeOrderStatus reports
\* success both are what was asked for.
StatusSynced ==
  [][\A r \in Requests :
       (pc[r] \in {"lock", "commit"} /\ answer'[r] = "ok")
         => (status_id' = want[r] /\ status' = want[r])]_vars
=============================================================================
