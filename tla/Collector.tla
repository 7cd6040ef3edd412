------------------------------ MODULE Collector ------------------------------
(***************************************************************************)
(* The scraper Manager's scheduling (internal/scraper/scraper.go): who may *)
(* collect, which sources a collection polls, and what it leaves in        *)
(* source_runs and in the health columns of sources.                       *)
(*                                                                         *)
(* Callers of Manager.collect are the goroutine of Manager.Run (Loop) and  *)
(* one goroutine per POST /api/scraper/run (Requests).  Each has its own   *)
(* context: the process's for Loop, the HTTP request's for a request.      *)
(*                                                                         *)
(* Time is counted in periods of the Run ticker (30 s).  The tables are    *)
(* kept as far as sourceDue and the run log can tell them apart:           *)
(*   last[s], age[s]  the newer of last_success_at and last_failure_at,    *)
(*                    and the periods since it was written                 *)
(*   open[s]          how many source_runs rows of s say 'running'         *)
(*   latest[s]        the outcome of the row of s that finished last       *)
(* What a collection does to the orders of a source is the subject of the  *)
(* module SourceOrders; nothing it does there is read here.                *)
(***************************************************************************)
EXTENDS Integers, FiniteSets

CONSTANTS
  Sources,      \* keys of the table sources
  Fetchers,     \* the sources that sources.Sources() has a FetchFunc for
  Requests,     \* goroutines started by POST /api/scraper/run
  Loop,         \* the goroutine of Manager.Run
  None,         \* no source, no outcome
  Intervals,    \* poll_interval_seconds values, in periods of the ticker
  MaxBackoff,   \* the 30 minutes of sourceDue, in periods of the ticker
  AgeCap,       \* bound: ages saturate here, above every threshold
  MaxMishaps    \* bound: failed store calls, crashes and shutdowns together

Min2(a, b) == IF a < b THEN a ELSE b
Max2(a, b) == IF a > b THEN a ELSE b

ASSUME ConstantsAssumption ==
  /\ Fetchers \subseteq Sources
  /\ Loop \notin Requests
  /\ None \notin Sources \cup {"success", "warning", "failure"}
  /\ Intervals \subseteq Nat
  /\ MaxBackoff \in Nat \ {0}
  /\ AgeCap \in Nat \ {0}
  /\ MaxMishaps \in Nat

Callers == Requests \cup {Loop}

VARIABLES
  up,           \* the process is alive
  running,      \* Manager.running
  ticker,       \* "off" before NewTicker, else whether its channel holds a tick
  pc,           \* where each caller is
  cancelled,    \* callers whose context is done
  todo,         \* due sources the caller's range loop has not reached yet
  cur,          \* the source the caller is polling
  outcome,      \* run.Outcome of that poll
  registered,   \* sources with a row in the table
  enabled,      \* sources.enabled
  interval,     \* sources.poll_interval_seconds
  last, age, open, latest,
  faults,       \* store calls that failed although their context was alive
  stops         \* crashes and shutdowns of the process

local   == <<pc, todo, cur, outcome>>
config  == <<registered, enabled, interval>>
health  == <<last, age>>
rows    == <<open, latest>>
budgets == <<faults, stops>>
vars == <<up, running, ticker, cancelled, local, config, health, rows, budgets>>

(***************************************************************************)
(* sourceDue.  A stamp and a collection's time.Now() that have n ticks     *)
(* between them are more than n - 1 and less than n + 1 periods apart, so  *)
(* the source may be due from n = the threshold on and must be after it.   *)
(***************************************************************************)
Interval(s) == Max2(1, interval[s])

\* Variant: no back-off after a failure.
ThresholdNoBackoff(s) == Interval(s)

Threshold(s) == IF last[s] = "failure"
                  THEN Min2(3 * Interval(s), MaxBackoff)
                  ELSE Interval(s)

\* Variant: LastSuccessAt == nil is asked first and answers for a failed source.
DueUntilSuccess(s) == last[s] \in {"never", "failure"} \/ age[s] >= Threshold(s)

MayBeDue(s) == last[s] = "never" \/ age[s] >= Threshold(s)

\* Variant: a failed source waits for someone to look at it.
DueUnlessFailed(s) == last[s] # "failure" /\ (last[s] = "never" \/ age[s] > Threshold(s))

MustBeDue(s) == last[s] = "never" \/ age[s] > Threshold(s)

\* The sources collect goes on to poll, all decided from one snapshot of the
\* table and one reading of the clock.
Pollable == registered \cap enabled \cap Fetchers

Health(o) == IF o = "failure" THEN "failure" ELSE "success"

Inside == {"list", "scan", "fetch", "finish", "stamp", "leave"}

-----------------------------------------------------------------------------
Init ==
  /\ up = TRUE
  /\ running = FALSE
  /\ ticker = "off"
  /\ pc = [c \in Callers |-> IF c = Loop THEN "enter" ELSE "none"]
  /\ cancelled = {}
  /\ todo = [c \in Callers |-> {}]
  /\ cur = [c \in Callers |-> None]
  /\ outcome = [c \in Callers |-> None]
  /\ registered = Sources
  /\ enabled = Sources
  /\ interval \in [Sources -> Intervals]
  /\ last = [s \in Sources |-> "never"]
  /\ age = [s \in Sources |-> 0]
  /\ open = [s \in Sources |-> 0]
  /\ latest = [s \in Sources |-> None]
  /\ faults = 0
  /\ stops = 0

\* A store call of c fails: its context is done, or the database let it down.
StoreError(c) ==
  \/ c \in cancelled /\ UNCHANGED faults
  \/ c \notin cancelled /\ faults + stops < MaxMishaps /\ faults' = faults + 1

Goto(c, label) == pc' = [pc EXCEPT ![c] = label]

-----------------------------------------------------------------------------
(* collect *)

\* collect returns to its caller: Run creates the ticker after its first one.
Return(c) ==
  /\ Goto(c, IF c = Loop THEN "select" ELSE "end")
  /\ ticker' = IF c = Loop /\ ticker = "off" THEN "empty" ELSE ticker

\* The loser of the CompareAndSwap returns before the defer.  Variant: after it.
LoseFlagAfterDefer == running' = FALSE
LoseFlag == UNCHANGED running

\* running.CompareAndSwap(false, true)
Enter(c) ==
  /\ pc[c] = "enter"
  /\ \/ /\ ~running
        /\ running' = TRUE
        /\ Goto(c, "list")
        /\ UNCHANGED ticker
     \/ /\ running
        /\ Return(c)
        /\ LoseFlag
  /\ UNCHANGED <<up, cancelled, todo, cur, outcome, config, health, rows, budgets>>

\* An early return of collect runs its defer.
ListFailed(c) == Goto(c, "leave") /\ UNCHANGED ticker

\* ListSources, then now := time.Now(): from here on the loop works on copies.
ListSources(c) ==
  /\ pc[c] = "list"
  /\ \/ /\ c \notin cancelled
        /\ \E due \in SUBSET Pollable :
             /\ {s \in Pollable : MustBeDue(s)} \subseteq due
             /\ \A s \in due : MayBeDue(s)
             /\ todo' = [todo EXCEPT ![c] = due]
        /\ Goto(c, "scan")
        /\ UNCHANGED <<ticker, faults>>
     \/ /\ StoreError(c)
        /\ ListFailed(c)
        /\ UNCHANGED todo
  /\ UNCHANGED <<up, running, cancelled, cur, outcome, config, health, rows, stops>>

\* INSERT INTO source_runs: outcome DEFAULT 'running'.  Variant: no default.
OpenRowUnmarked(s) == UNCHANGED open
OpenRow(s) == open' = [open EXCEPT ![s] = @ + 1]

\* CreateSourceRun for the next due source; on an error the source is skipped.
\* An INSERT whose answer is lost may or may not have been committed, and one
\* for a source deleted meanwhile breaks its foreign key.
CreateSourceRun(c, s) ==
  /\ pc[c] = "scan"
  /\ s \in todo[c]
  /\ todo' = [todo EXCEPT ![c] = @ \ {s}]
  /\ \/ /\ c \notin cancelled
        /\ s \in registered
        /\ OpenRow(s)
        /\ cur' = [cur EXCEPT ![c] = s]
        /\ Goto(c, "fetch")
        /\ UNCHANGED faults
     \/ /\ \/ StoreError(c)
           \/ c \notin cancelled /\ s \notin registered /\ UNCHANGED faults
        /\ \/ UNCHANGED open
           \/ /\ c \notin cancelled
              /\ s \in registered
              /\ OpenRow(s)
        /\ UNCHANGED <<pc, cur>>
  /\ UNCHANGED <<up, running, ticker, cancelled, outcome, config, health, latest, stops>>

\* The range loop goes on after this source, whatever became of its run.
NextSource(c) ==
  /\ Goto(c, "scan")
  /\ cur' = [cur EXCEPT ![c] = None]
  /\ outcome' = [outcome EXCEPT ![c] = None]

\* A run is finished whatever the fetch gave.  Variant: not after a failure.
FinishSuccessOnly(c, o) ==
  IF o = "failure"
    THEN NextSource(c)
    ELSE Goto(c, "finish") /\ outcome' = [outcome EXCEPT ![c] = o] /\ UNCHANGED cur
Fetched(c, o) ==
  /\ Goto(c, "finish")
  /\ outcome' = [outcome EXCEPT ![c] = o]
  /\ UNCHANGED cur

\* fetch(ctx), at most 20 s; a dead context makes it fail.
Fetch(c) ==
  /\ pc[c] = "fetch"
  /\ \E o \in {"success", "warning", "failure"} :
       /\ c \in cancelled => o = "failure"
       /\ Fetched(c, o)
  /\ UNCHANGED <<up, running, ticker, cancelled, todo, config, health, rows, budgets>>

CloseRow(s, o) ==
  /\ open' = [open EXCEPT ![s] = @ - 1]
  /\ latest' = [latest EXCEPT ![s] = o]

\* An error of the first statement ends FinishSourceRun.
RowFailed(c) == NextSource(c)

\* First statement of FinishSourceRun, UPDATE source_runs ... RETURNING.  After
\* an error, or if the row is gone, sources is not touched.
FinishRow(c) ==
  /\ pc[c] = "finish"
  /\ \/ /\ c \notin cancelled
        /\ cur[c] \in registered
        /\ CloseRow(cur[c], outcome[c])
        /\ Goto(c, "stamp")
        /\ UNCHANGED <<cur, outcome, faults>>
     \/ /\ \/ StoreError(c)
           \/ c \notin cancelled /\ cur[c] \notin registered /\ UNCHANGED faults
        /\ \/ UNCHANGED rows
           \/ /\ c \notin cancelled
              /\ cur[c] \in registered
              /\ CloseRow(cur[c], outcome[c])
        /\ RowFailed(c)
  /\ UNCHANGED <<up, running, ticker, cancelled, todo, config, health, stops>>

StampSource(s, o) ==
  /\ last' = [last EXCEPT ![s] = Health(o)]
  /\ age' = [age EXCEPT ![s] = 0]

\* Second statement, UPDATE sources: a separate one, outside any transaction.
Stamp(c) ==
  /\ pc[c] = "stamp"
  /\ \/ /\ c \notin cancelled
        /\ cur[c] \in registered
        /\ StampSource(cur[c], outcome[c])
        /\ UNCHANGED faults
     \/ /\ c \notin cancelled
        /\ cur[c] \notin registered
        /\ UNCHANGED <<health, faults>>
     \/ /\ StoreError(c)
        /\ \/ UNCHANGED health
           \/ /\ c \notin cancelled
              /\ cur[c] \in registered
              /\ StampSource(cur[c], outcome[c])
  /\ NextSource(c)
  /\ UNCHANGED <<up, running, ticker, cancelled, todo, config, rows, stops>>

\* No due source is left.
EndScan(c) ==
  /\ pc[c] = "scan"
  /\ todo[c] = {}
  /\ Goto(c, "leave")
  /\ UNCHANGED <<up, running, ticker, cancelled, todo, cur, outcome, config, health, rows, budgets>>

\* defer running.Store(false)
Leave(c) ==
  /\ pc[c] = "leave"
  /\ running' = FALSE
  /\ Return(c)
  /\ UNCHANGED <<up, cancelled, todo, cur, outcome, config, health, rows, budgets>>

Collect(c) ==
  \/ Enter(c)
  \/ ListSources(c)
  \/ \E s \in Sources : CreateSourceRun(c, s)
  \/ Fetch(c)
  \/ FinishRow(c)
  \/ Stamp(c)
  \/ EndScan(c)
  \/ Leave(c)

-----------------------------------------------------------------------------
(* The callers and the environment *)

\* Run's select: a pending tick starts a collection, a done context ends Run.
LoopTick ==
  /\ pc[Loop] = "select"
  /\ ticker = "full"
  /\ ticker' = "empty"
  /\ Goto(Loop, "enter")
  /\ UNCHANGED <<up, running, cancelled, todo, cur, outcome, config, health, rows, budgets>>

LoopDone ==
  /\ pc[Loop] = "select"
  /\ Loop \in cancelled
  /\ Goto(Loop, "end")
  /\ UNCHANGED <<up, running, ticker, cancelled, todo, cur, outcome, config, health, rows, budgets>>

\* POST /api/scraper/run: go m.collect(r.Context()).  The server takes requests until
\* Shutdown has closed its listener, also after a Stop.
RunOnce(r) ==
  /\ up
  /\ pc[r] = "none"
  /\ Goto(r, "enter")
  /\ UNCHANGED <<up, running, ticker, cancelled, todo, cur, outcome, config, health, rows, budgets>>

\* HandleScraperRun returns and net/http cancels the request's context.
HandlerReturns(r) ==
  /\ pc[r] \notin {"none", "end"}
  /\ r \notin cancelled
  /\ cancelled' = cancelled \cup {r}
  /\ UNCHANGED <<up, running, ticker, local, config, health, rows, budgets>>

\* A period of the ticker passes; the channel holds one tick, others are dropped.
ClockTick ==
  /\ age' = [s \in Sources |-> Min2(age[s] + 1, AgeCap)]
  /\ ticker' = IF ticker = "empty" THEN "full" ELSE ticker
  /\ UNCHANGED <<up, running, cancelled, local, config, last, rows, budgets>>

\* The user changes a source (grid PATCH on the table sources).
EditSource(s) ==
  /\ s \in registered
  /\ \E on \in BOOLEAN, i \in Intervals :
       /\ enabled' = IF on THEN enabled \cup {s} ELSE enabled \ {s}
       /\ interval' = [interval EXCEPT ![s] = i]
  /\ UNCHANGED <<up, running, ticker, cancelled, local, registered, health, rows, budgets>>

\* The user deletes it (grid DELETE): its runs go with it, ON DELETE CASCADE.
DeleteSource(s) ==
  /\ s \in registered
  /\ registered' = registered \ {s}
  /\ enabled' = enabled \ {s}
  /\ last' = [last EXCEPT ![s] = "never"]
  /\ age' = [age EXCEPT ![s] = 0]
  /\ open' = [open EXCEPT ![s] = 0]
  /\ latest' = [latest EXCEPT ![s] = None]
  /\ UNCHANGED <<up, running, ticker, cancelled, local, interval, budgets>>

\* SIGTERM, or ListenAndServe fails: the process's context is done.
Stop ==
  /\ up
  /\ Loop \notin cancelled
  /\ faults + stops < MaxMishaps
  /\ stops' = stops + 1
  /\ cancelled' = cancelled \cup {Loop}
  /\ UNCHANGED <<up, running, ticker, local, config, health, rows, faults>>

\* Every goroutine dies where it is; only the database survives.
Die ==
  /\ up' = FALSE
  /\ running' = FALSE
  /\ ticker' = "off"
  /\ pc' = [c \in Callers |-> IF c # Loop /\ pc[c] = "none" THEN "none" ELSE "end"]
  /\ cancelled' = {}
  /\ todo' = [c \in Callers |-> {}]
  /\ cur' = [c \in Callers |-> None]
  /\ outcome' = [c \in Callers |-> None]
  /\ UNCHANGED <<config, health, rows>>

\* main returns after a Stop without waiting for a collection under way.
Exit == up /\ Loop \in cancelled /\ Die /\ UNCHANGED budgets

Crash == up /\ faults + stops < MaxMishaps /\ stops' = stops + 1 /\ Die /\ UNCHANGED faults

\* main again: go manager.Run(ctx).
Restart ==
  /\ ~up
  /\ up' = TRUE
  /\ Goto(Loop, "enter")
  /\ UNCHANGED <<running, ticker, cancelled, todo, cur, outcome, config, health, rows, budgets>>

Next ==
  \/ \E c \in Callers : Collect(c)
  \/ LoopTick
  \/ LoopDone
  \/ \E r \in Requests : RunOnce(r) \/ HandlerReturns(r)
  \/ ClockTick
  \/ \E s \in Sources : EditSource(s) \/ DeleteSource(s)
  \/ Stop
  \/ Exit
  \/ Crash
  \/ Restart

Spec == Init /\ [][Next]_vars

\* Goroutines are scheduled, statements and fetches return (the HTTP client
\* gives up after 20 s), handlers return and time passes.  Nothing makes the
\* user act, a store call fail, or the process stop or start again.
Fairness ==
  /\ \A c \in Callers : WF_vars(Collect(c))
  /\ WF_vars(LoopTick)
  /\ \A r \in Requests : WF_vars(HandlerReturns(r))
  /\ WF_vars(ClockTick)

FairSpec == Spec /\ Fairness

-----------------------------------------------------------------------------
(* Properties *)

PollOf(s) == {c \in Callers : pc[c] \in {"fetch", "finish"} /\ cur[c] = s}

\* s is polled by this step: a run is created and the fetch is next.
Polls(s) == \E c \in Callers : pc[c] = "scan" /\ pc'[c] = "fetch" /\ cur'[c] = s

\* Ranges of the variables; the number of open rows of a source is never
\* negative, so no run is finished that was not created.
TypeOK ==
  /\ up \in BOOLEAN
  /\ running \in BOOLEAN
  /\ ticker \in {"off", "empty", "full"}
  /\ pc \in [Callers -> Inside \cup {"none", "enter", "select", "end"}]
  /\ cancelled \subseteq Callers
  /\ todo \in [Callers -> SUBSET Sources]
  /\ cur \in [Callers -> Sources \cup {None}]
  /\ outcome \in [Callers -> {"success", "warning", "failure", None}]
  /\ registered \subseteq Sources
  /\ enabled \subseteq registered
  /\ interval \in [Sources -> Nat]
  /\ last \in [Sources -> {"never", "success", "failure"}]
  /\ age \in [Sources -> Nat]
  /\ \A s \in Sources : age[s] <= AgeCap
  /\ open \in [Sources -> Nat]
  /\ latest \in [Sources -> {"success", "warning", "failure", None}]
  /\ faults \in Nat
  /\ stops \in Nat

\* The ticker and the manual runs never collect at the same time, and the flag
\* is up exactly while someone collects: collect is never entered twice and the
\* flag is never left behind by a collection that failed or whose process died.
OneCollector ==
  /\ \A c, d \in Callers : pc[c] \in Inside /\ pc[d] \in Inside => c = d
  /\ running <=> \E c \in Callers : pc[c] \in Inside

\* No source is polled again within a period of its last recorded success, nor
\* within the back-off of three periods of its last recorded failure, although
\* collections decide from a snapshot that is old by the time they use it.
Gap(kind) == IF kind = "failure" THEN Min2(3, MaxBackoff) ELSE 1

PollRested ==
  \A s \in Sources : Polls(s) => last[s] = "never" \/ age[s] >= Gap(last[s])

PollSpacing == [][PollRested]_vars

\* The health columns of a source are only written after the row of the run
\* they report: the run log never lags behind the badge the user sees, not even
\* when the process dies or the database fails between the two statements.
StampBacked ==
  \A s \in registered' :
    (last'[s] # last[s] \/ age'[s] < age[s])
      => (latest[s] # None /\ last'[s] = Health(latest[s]))

StampFollowsRow == [][StampBacked]_vars

\* The scheduling implements PollDuty: the poll under way is that of whoever is
\* inside collect.
Active == IF \E c \in Callers : cur[c] # None
            THEN cur[CHOOSE c \in Callers : cur[c] # None]
            ELSE None

Duty == INSTANCE PollDuty WITH active <- Active
ImplementsPollDuty == Duty!Spec

\* A row is left 'running' for good only by something that went wrong, and each
\* failed call, ended request or death of the process leaves at most one: the rows
\* that nobody is about to finish, each known by its source and a number.
Abandoned == UNION {{s} \X (1..(open[s] - Cardinality(PollOf(s)))) : s \in registered}
Ended == {r \in Requests : r \in cancelled \/ pc[r] = "end"}

AbandonedRows == Cardinality(Abandoned) <= faults + stops + Cardinality(Ended)

\* The statements and fetches a collection has left at most: four for each source
\* it has still to poll, and the rest of the one in its hand.
Left(c) ==
  LET n == 4 * Cardinality(todo[c]) IN
  CASE pc[c] = "list"   -> 4 * Cardinality(Sources) + 3
    [] pc[c] = "scan"   -> n + 2
    [] pc[c] = "fetch"  -> n + 5
    [] pc[c] = "finish" -> n + 4
    [] pc[c] = "stamp"  -> n + 3
    [] pc[c] = "leave"  -> 1
    [] OTHER            -> 0

\* A collection ends, and with it the flag falls, after at most 4 N + 3 steps of
\* its own: no error, edit, deletion or tick sends it back or gives it more to do.
Nearer ==
  \A c \in Callers :
    pc[c] \in Inside => Left(c)' < Left(c) \/ (pc'[c] = pc[c] /\ todo'[c] = todo[c])

CollectionEnds == [][Nearer]_vars

\* A source that stays registered, enabled and with a fetcher is polled again
\* and again as long as the process stays up: no tick dropped while a manual run
\* held the flag, no snapshot and no lost outcome puts it off for ever.
EverySourcePolled ==
  \A s \in Fetchers :
    <>[](up /\ Loop \notin cancelled /\ s \in registered /\ s \in enabled)
      => []<><<Polls(s)>>_vars
=============================================================================
