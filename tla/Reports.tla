-------------------------------- MODULE Reports --------------------------------
(***************************************************************************)
(* What the page /reports asks for.  A writer is one POST                  *)
(* /api/runs/{id}/report, a reader one GET /api/reports/{id}/download, an  *)
(* asker one GET of the summary of a period; the user also deletes reports *)
(* and runs through the grid.                                              *)
(*                                                                         *)
(* A report is named by the writer that made it, and so is what it wrote   *)
(* into the file: the text of a report, its tables and charts, are left    *)
(* out.  A file is named by its run and by local time to the second, which *)
(* two writers may share and which is set back once a year.                *)
(***************************************************************************)
EXTENDS Integers, Sequences

CONSTANTS
  Writers, Readers, Askers,
  Runs,           \* ids of search_runs
  Seconds,        \* what the clock of a file name may show
  Orders,
  Branched,       \* the orders that have a branch
  Span,           \* length of the default period (30 days in the code)
  MaxNow,         \* bound: the last moment
  None,
  MaxMishaps      \* bound: failed calls and crashes

ASSUME ReportsAssumption ==
  /\ Span \in Nat \ {0} /\ MaxNow \in Nat /\ MaxMishaps \in Nat
  /\ Branched \subseteq Orders
  /\ Writers \cap (Readers \cup Askers) = {} /\ Readers \cap Askers = {}
  /\ None \notin Int \cup Writers \cup Seconds /\ \A S \in SUBSET Writers : S # None

VARIABLES
  runs,           \* table search_runs
  reports,        \* table reports: the writers whose row is there
  log,            \* table report_downloads: reader and report
  files,          \* directory data/reports: the writers whose bytes a file has, or None
  second,
  pc,             \* where each request is
  name,           \* of a writer: run and second; of a reader: the report it asked for
  got,            \* of a reader: what it was sent
  first,          \* of an order: first_seen_at, or None
  committed,      \* orders whose INSERT is committed
  gone,           \* orders deleted since
  now,
  period,         \* of an asker: the period it asked for, and what was in the table then
  counted,        \* of an asker: the orders behind each part of its answer so far
  cut,            \* of an asker: the parts an error ended early
  mishaps

tables == <<runs, reports, log, files>>
orders == <<first, committed, gone, now>>
askers == <<period, counted, cut>>
vars == <<tables, second, pc, name, got, orders, askers, mishaps>>

Requests == Writers \cup Readers \cup Askers
Names == Runs \X Seconds
Moments == -2 * Span .. MaxNow
Sections == <<"total", "branch", "source", "status", "daily">>

Init ==
  /\ runs = Runs /\ reports = {} /\ log = {}
  /\ files = [n \in Names |-> None] /\ second \in Seconds
  /\ pc = [q \in Requests |-> "idle"]
  /\ name = [q \in Writers \cup Readers |-> None] /\ got = [q \in Readers |-> None]
  /\ first \in [Orders -> {None} \cup -2 * Span .. 0]
  /\ committed = {o \in Orders : first[o] # None} /\ gone = {} /\ now = 0
  /\ period = [q \in Askers |-> None]
  /\ counted = [q \in Askers |-> <<>>] /\ cut = [q \in Askers |-> {}]
  /\ mishaps = 0

Goto(q, step) == pc' = [pc EXCEPT ![q] = step]
Mishap == mishaps < MaxMishaps /\ mishaps' = mishaps + 1

-----------------------------------------------------------------------------
(* A report on a run *)

\* GetPDFRunReport looks the run up: none, and the answer is 404.
AskReport(w) ==
  /\ pc[w] = "idle"
  /\ \E r \in Runs :
       IF r \in runs THEN Goto(w, "read") /\ name' = [name EXCEPT ![w] = <<r, None>>]
                     ELSE Goto(w, "end") /\ UNCHANGED name
  /\ UNCHANGED <<tables, second, got, orders, askers, mishaps>>

\* Its other statements, whatever has become of the run; the PDF; the file's name.
Render(w) ==
  /\ pc[w] = "read"
  /\ Goto(w, "open")
  /\ name' = [name EXCEPT ![w] = <<@[1], second>>]
  /\ UNCHANGED <<tables, second, got, orders, askers, mishaps>>

\* os.WriteFile creates the file, or cuts off what it had.
OpenFile(w) ==
  /\ pc[w] = "open"
  /\ Goto(w, "write")
  /\ files' = [files EXCEPT ![name[w]] = {}]
  /\ UNCHANGED <<runs, reports, log, second, name, got, orders, askers, mishaps>>

\* Variant: the error of os.WriteFile is not looked at.
WriteFileUnchecked(w) ==
  /\ pc[w] = "write"
  /\ Goto(w, "insert")
  /\ \E kept \in {{}, files[name[w]]}, written \in {{}, {w}} :
       files' = [files EXCEPT ![name[w]] = kept \cup written]
  /\ UNCHANGED <<runs, reports, log, second, name, got, orders, askers, mishaps>>

\* A longer text that came first keeps its end.
WriteFile(w) ==
  /\ pc[w] = "write"
  /\ Goto(w, "insert")
  /\ \E kept \in {{}, files[name[w]]} : files' = [files EXCEPT ![name[w]] = kept \cup {w}]
  /\ UNCHANGED <<runs, reports, log, second, name, got, orders, askers, mishaps>>

\* The row refers to its run: without it the INSERT is refused.
Inserted(w) == IF name[w][1] \in runs THEN reports \cup {w} ELSE reports

InsertReport(w) ==
  /\ pc[w] = "insert"
  /\ Goto(w, "end")
  /\ reports' = Inserted(w)
  /\ UNCHANGED <<runs, log, files, second, name, got, orders, askers, mishaps>>

\* An error of the database, the disk or the connection: the answer is 500.  The row may
\* have been inserted all the same.
WriterFails(w) ==
  /\ pc[w] \in {"read", "open", "write", "insert"} /\ Mishap
  /\ Goto(w, "end")
  /\ reports' \in IF pc[w] = "insert" THEN {reports, Inserted(w)} ELSE {reports}
  /\ UNCHANGED <<runs, log, files, second, name, got, orders, askers>>

-----------------------------------------------------------------------------
(* Downloads, the grid, the clock *)

\* GetReport: 404 without a row.
AskDownload(d) ==
  /\ pc[d] = "idle"
  /\ \E w \in Writers :
       IF w \in reports THEN Goto(d, "log") /\ name' = [name EXCEPT ![d] = w]
                        ELSE Goto(d, "end") /\ UNCHANGED name
  /\ UNCHANGED <<tables, second, got, orders, askers, mishaps>>

\* The row of report_downloads refers to the report; an error is of no consequence.
LogReportDownload(d) ==
  /\ pc[d] = "log"
  /\ Goto(d, "serve")
  /\ \/ name[d] \in reports /\ log' = log \cup {<<d, name[d]>>} /\ UNCHANGED mishaps
     \/ name[d] \notin reports /\ UNCHANGED <<log, mishaps>>
     \/ Mishap /\ UNCHANGED log
  /\ UNCHANGED <<runs, reports, files, second, name, got, orders, askers>>

ServeFile(d) ==
  /\ pc[d] = "serve"
  /\ Goto(d, "served")
  /\ got' = [got EXCEPT ![d] = files[name[name[d]]]]
  /\ UNCHANGED <<tables, second, name, orders, askers, mishaps>>

\* Variants: report_downloads without ON DELETE CASCADE; the files go with the rows.
DropReportsOnly(dropped) ==
  /\ reports' = reports \ dropped
  /\ UNCHANGED <<log, files, second, pc, name, got, orders, askers, mishaps>>

DropReportsAndFiles(dropped) ==
  /\ reports' = reports \ dropped /\ log' = {l \in log : l[2] \notin dropped}
  /\ files' = [n \in Names |-> IF \E w \in dropped : n = name[w] THEN None ELSE files[n]]
  /\ UNCHANGED <<second, pc, name, got, orders, askers, mishaps>>

\* DELETE /api/grid/reports/{id} and /api/grid/search_runs/{id}.  The file stays.
DropReports(dropped) ==
  /\ reports' = reports \ dropped /\ log' = {l \in log : l[2] \notin dropped}
  /\ UNCHANGED <<files, second, pc, name, got, orders, askers, mishaps>>

DeleteReport == \E w \in reports : DropReports({w}) /\ UNCHANGED runs

DeleteRun ==
  \E r \in runs : runs' = runs \ {r} /\ DropReports({w \in reports : name[w][1] = r})

Clock ==
  /\ second' \in Seconds \ {second}
  /\ UNCHANGED <<tables, pc, name, got, orders, askers, mishaps>>

Crash ==
  /\ Mishap
  /\ pc' = [q \in Requests |-> IF pc[q] \in {"idle", "served"} THEN pc[q] ELSE "end"]
  /\ UNCHANGED <<tables, second, name, got, orders, askers>>

-----------------------------------------------------------------------------
(* The summary of a period *)

\* UpsertListing inserts an order.  first_seen_at DEFAULT now() is the beginning of the
\* transaction ...
OpenInsert ==
  /\ \E o \in Orders : first[o] = None /\ first' = [first EXCEPT ![o] = now]
  /\ UNCHANGED <<tables, second, pc, name, got, committed, gone, now, askers, mishaps>>

\* ... and others see the row from its commit on, if there is one.
CommitInsert ==
  /\ \E o \in Orders \ committed : first[o] # None /\ committed' = committed \cup {o}
  /\ UNCHANGED <<tables, second, pc, name, got, first, gone, now, askers, mishaps>>

\* Archived, or deleted by the user.
Leave ==
  /\ \E o \in committed \ gone : gone' = gone \cup {o}
  /\ UNCHANGED <<tables, second, pc, name, got, first, committed, now, askers, mishaps>>

\* HandleReport: the last Span until now, or two dates, the second of them included.  It
\* is a moment of its own: what is first seen from here on is not before now'.
AskSummary(s) ==
  /\ pc[s] = "idle" /\ now < MaxNow
  /\ now' = now + 1 /\ Goto(s, "count")
  /\ \E from \in -Span..now', to \in -Span..now' + 1 :
       /\ to = now' => from = now' - Span
       /\ period' = [period EXCEPT ![s] = [from |-> from, to |-> to, seen |-> committed]]
  /\ UNCHANGED <<tables, second, name, got, first, committed, gone, counted, cut, mishaps>>

\* ReportSummary for the period, then for the one of the same length before it.
Window(p, i) == IF i <= Len(Sections) THEN [from |-> p.from, to |-> p.to]
                ELSE [from |-> p.from - (p.to - p.from), to |-> p.from]

Section(i) == Sections[IF i <= Len(Sections) THEN i ELSE i - Len(Sections)]

\* Variant: the end of a period belongs to it.
WithinClosed(w) == {o \in committed \ gone : w.from <= first[o] /\ first[o] <= w.to}
Within(w) == {o \in committed \ gone : w.from <= first[o] /\ first[o] < w.to}

\* What the next statement finds, and the part of the answer it makes of it.
NextPart(s) == Len(counted[s]) + 1
Found(s) == Within(Window(period[s], NextPart(s))) \cap
              (IF Section(NextPart(s)) = "branch" THEN Branched ELSE Orders)
AddPart(s, part) ==
  /\ pc[s] = "count"
  /\ counted' = [counted EXCEPT ![s] = Append(@, part)]
  /\ Goto(s, IF NextPart(s) = 2 * Len(Sections) THEN "end" ELSE "count")
  /\ UNCHANGED <<tables, second, name, got, orders, period>>

CountSection(s) == AddPart(s, Found(s)) /\ UNCHANGED <<cut, mishaps>>

\* An error ends the rows of a section and nobody asks rows.Err(): some of its groups are
\* missing and the answer goes on.  The total is one row, and its errors are looked at.
CountShort(s) ==
  /\ pc[s] = "count" /\ Mishap
  /\ Section(NextPart(s)) # "total"
  /\ \E part \in SUBSET Found(s) : AddPart(s, part)
  /\ cut' = [cut EXCEPT ![s] = @ \cup {NextPart(s)}]

\* QueryRow, Query or Scan returns an error: 500, or an answer without the period before.
CountFails(s) ==
  /\ pc[s] = "count" /\ Mishap
  /\ Goto(s, "end")
  /\ UNCHANGED <<tables, second, name, got, orders, askers>>

-----------------------------------------------------------------------------
Write(w) == AskReport(w) \/ Render(w) \/ OpenFile(w) \/ WriteFile(w) \/ InsertReport(w)
Read(d) == AskDownload(d) \/ LogReportDownload(d) \/ ServeFile(d)
Ask(s) == AskSummary(s) \/ CountSection(s) \/ CountShort(s)

\* The two parts share nothing but the budget of mishaps and a crash.
FilesNext ==
  \/ \E w \in Writers : Write(w) \/ WriterFails(w)
  \/ \E d \in Readers : Read(d)
  \/ DeleteReport \/ DeleteRun \/ Clock \/ Crash

SummaryNext ==
  \/ \E s \in Askers : Ask(s) \/ CountFails(s)
  \/ OpenInsert \/ CommitInsert \/ Leave \/ Crash

Next == FilesNext \/ SummaryNext

Spec == Init /\ [][Next]_vars

-----------------------------------------------------------------------------
(* Properties *)

\* Types.  A download is logged for a report that exists.
TypeOK ==
  /\ runs \subseteq Runs /\ reports \subseteq Writers
  /\ log \subseteq Readers \X reports
  /\ files \in [Names -> {None} \cup SUBSET Writers]
  /\ second \in Seconds
  /\ pc \in [Requests -> {"idle", "read", "open", "write", "insert", "log", "serve",
                          "served", "count", "end"}]
  /\ name \in [Writers \cup Readers -> {None} \cup (Runs \X (Seconds \cup {None})) \cup Writers]
  /\ got \in [Readers -> {None} \cup SUBSET Writers]
  /\ first \in [Orders -> {None} \cup Moments] /\ now \in Moments
  /\ gone \subseteq committed /\ committed \subseteq {o \in Orders : first[o] # None}
  /\ period \in [Askers -> {None} \cup [from : Int, to : Int, seen : SUBSET Orders]]
  /\ counted \in [Askers -> Seq(SUBSET Orders)] /\ cut \in [Askers -> SUBSET (1 .. 2 * Len(Sections))]
  /\ mishaps \in 0..MaxMishaps

Opened(w) == pc[w] \in {"write", "insert", "end"} /\ name[w] \in Names
Shares(x, w) == x # w /\ Opened(x) /\ name[x] = name[w]

\* HandleRunReportCreate writes the file before the row, and nothing in the code removes a
\* file: a report in the table always has one, whatever failed, crashed or was deleted, and
\* it is the report's own, whole and of its run, unless another POST for the same run got
\* the same second.
RowHasItsFile ==
  \A w \in reports :
    /\ files[name[w]] # None
    /\ files[name[w]] = {w} \/ \E x \in Writers : Shares(x, w)

\* The same of a download: its row may be deleted and its file rewritten between GetReport
\* and ServeFile.
DownloadIsTheReport ==
  \A d \in Readers : pc[d] = "served" =>
    got[d] = {name[d]} \/ \E x \in Writers : Shares(x, name[d])

\* The ten statements of a summary are ten snapshots, between which orders come and go and
\* whose errors are partly ignored.  What adds up all the same: the two periods meet and do
\* not overlap, so that no order is counted in both; and an order that a later part of a
\* period has and an earlier one has not is of that period, and its INSERT was not committed
\* when the summary was asked for, unless the earlier part was cut short by an error.
SummaryAddsUp ==
  \A s \in Askers : \A i, j \in 1..Len(counted[s]) : i < j =>
    IF i <= Len(Sections) /\ Len(Sections) < j
      THEN counted[s][i] \cap counted[s][j] = {}
      ELSE \A o \in counted[s][j] \ counted[s][i] :
             /\ first[o] < period[s].to
             /\ Section(i) = "branch" \/ i \in cut[s] \/ o \notin period[s].seen
=============================================================================
