----------------------------- MODULE ReportsProofs -----------------------------
(***************************************************************************)
(* A report has its own file, a download is the report, and a summary adds *)
(* up, for any requests, runs, orders and failures: proofs.                *)
(***************************************************************************)
EXTENDS Reports, TLAPS

USE ReportsAssumption

Progress == {"idle", "read", "open", "write", "insert", "log", "serve", "served", "count", "end"}

-----------------------------------------------------------------------------
(* The inductive invariant: the files *)

WriterOK ==
  \A w \in Writers :
    /\ pc[w] \in {"idle", "read", "open", "write", "insert", "end"}
    /\ pc[w] = "read" => \E r \in Runs : name[w] = <<r, None>>
    /\ pc[w] \in {"open", "write", "insert"} => name[w] \in Names
    /\ w \in reports => pc[w] = "end" /\ name[w] \in Names

ReaderOK ==
  \A d \in Readers :
    /\ pc[d] \in {"idle", "log", "serve", "served", "end"}
    /\ pc[d] \in {"log", "serve", "served"} => name[d] \in Writers /\ pc[name[d]] = "end"

\* A report whose row is there, will be, or has been read by a download.
Sure(w) ==
  \/ w \in reports \/ pc[w] = "insert"
  \/ \E d \in Readers : pc[d] \in {"log", "serve"} /\ name[d] = w

Shared(w) == \E x \in Writers : Shares(x, w)

\* Its file is there and its own, or shared with one that got the same name.
FileOK ==
  \A w \in Writers :
    /\ Sure(w) => /\ pc[w] \in {"insert", "end"} /\ name[w] \in Names
                  /\ files[name[w]] # None
                  /\ files[name[w]] = {w} \/ Shared(w)
    /\ pc[w] = "write" => files[name[w]] # None /\ (files[name[w]] = {} \/ Shared(w))

-----------------------------------------------------------------------------
(* The inductive invariant: the summaries *)

AskerOK ==
  \A s \in Askers :
    /\ pc[s] \in {"idle", "count", "end"}
    /\ pc[s] = "idle" => counted[s] = <<>>
    /\ Len(counted[s]) <= 2 * Len(Sections)
    /\ pc[s] = "count" => Len(counted[s]) < 2 * Len(Sections)
    /\ pc[s] # "idle" /\ (pc[s] = "count" \/ counted[s] # <<>>) =>
         period[s] \in [from : Int, to : Int, seen : SUBSET Orders] /\ period[s].seen \subseteq committed

InWindow(o, w) == first[o] # None /\ w.from <= first[o] /\ first[o] < w.to

\* A part of a summary has nothing from outside its period.
InsideOK ==
  \A s \in Askers : \A i \in 1..Len(counted[s]) : \A o \in counted[s][i] : InWindow(o, Window(period[s], i))

\* What a whole part misses is gone, or was not in the table when the summary was asked for.
MissedOK ==
  \A s \in Askers : \A i \in 1..Len(counted[s]) : Section(i) # "branch" /\ i \notin cut[s] =>
    \A o \in committed \ gone :
      InWindow(o, Window(period[s], i)) /\ o \notin counted[s][i] => o \notin period[s].seen

IInv == TypeOK /\ WriterOK /\ ReaderOK /\ FileOK /\ DownloadIsTheReport
        /\ AskerOK /\ InsideOK /\ MissedOK /\ SummaryAddsUp

-----------------------------------------------------------------------------
(* Whose step a step is *)

FileSteps(w) == Write(w) \/ WriterFails(w)
AskSteps(s) == Ask(s) \/ CountFails(s)

LEMMA WriterMoves ==
  ASSUME TypeOK, NEW w \in Writers, FileSteps(w)
  PROVE  /\ \E x : pc' = [pc EXCEPT ![w] = x]
         /\ \E y : name' = [name EXCEPT ![w] = y] \/ name' = name
         /\ UNCHANGED <<runs, log, second, got, orders, askers>>
<1>1. CASE AskReport(w)
  BY <1>1 DEF AskReport, Goto, tables
<1>2. CASE Render(w)
  BY <1>2 DEF Render, Goto, tables
<1>3. CASE OpenFile(w)
  BY <1>3 DEF OpenFile, Goto
<1>4. CASE WriteFile(w)
  BY <1>4 DEF WriteFile, Goto
<1>5. CASE InsertReport(w)
  BY <1>5 DEF InsertReport, Goto
<1>6. CASE WriterFails(w)
  BY <1>6 DEF WriterFails, Goto
<1> QED
  BY <1>1, <1>2, <1>3, <1>4, <1>5, <1>6 DEF FileSteps, Write

LEMMA ReaderMoves ==
  ASSUME TypeOK, NEW d \in Readers, Read(d)
  PROVE  /\ \E x : pc' = [pc EXCEPT ![d] = x]
         /\ \E y : name' = [name EXCEPT ![d] = y] \/ name' = name
         /\ \E y : got' = [got EXCEPT ![d] = y] \/ got' = got
         /\ UNCHANGED <<runs, reports, files, second, orders, askers>>
<1>1. CASE AskDownload(d)
  BY <1>1 DEF AskDownload, Goto, tables
<1>2. CASE LogReportDownload(d)
  BY <1>2 DEF LogReportDownload, Goto
<1>3. CASE ServeFile(d)
  BY <1>3 DEF ServeFile, Goto, tables
<1> QED
  BY <1>1, <1>2, <1>3 DEF Read

LEMMA AskerMoves ==
  ASSUME TypeOK, NEW s \in Askers, AskSteps(s)
  PROVE  /\ \E x : pc' = [pc EXCEPT ![s] = x]
         /\ \E y : period' = [period EXCEPT ![s] = y] \/ period' = period
         /\ \E y : counted' = [counted EXCEPT ![s] = y] \/ counted' = counted
         /\ \E y : cut' = [cut EXCEPT ![s] = y] \/ cut' = cut
         /\ UNCHANGED <<tables, second, name, got, first, committed, gone>>
<1>1. CASE AskSummary(s)
  BY <1>1 DEF AskSummary, Goto, tables
<1>2. CASE CountSection(s)
  BY <1>2 DEF CountSection, AddPart, Goto, tables, orders
<1>3. CASE CountShort(s)
  BY <1>3 DEF CountShort, AddPart, Goto, tables, orders
<1>4. CASE CountFails(s)
  BY <1>4 DEF CountFails, Goto, tables, orders, askers
<1> QED
  BY <1>1, <1>2, <1>3, <1>4 DEF AskSteps, Ask

Crashed(q) == pc'[q] = IF pc[q] \in {"idle", "served"} THEN pc[q] ELSE "end"

LEMMA GridMoves ==
  ASSUME DeleteReport \/ DeleteRun
  PROVE  /\ reports' \subseteq reports
         /\ log' \subseteq log /\ \A l \in log' : l[2] \in reports => l[2] \in reports'
         /\ runs' \subseteq runs
         /\ UNCHANGED <<files, second, pc, name, got, orders, askers, mishaps>>
<1>1. CASE DeleteReport
  <2>1. PICK w \in reports : DropReports({w}) /\ UNCHANGED runs
    BY <1>1 DEF DeleteReport
  <2> QED
    BY <2>1 DEF DropReports
<1>2. CASE DeleteRun
  <2>1. PICK r \in runs : runs' = runs \ {r} /\ DropReports({w \in reports : name[w][1] = r})
    BY <1>2 DEF DeleteRun
  <2> QED
    BY <2>1 DEF DropReports
<1> QED
  BY <1>1, <1>2

LEMMA Steps ==
  ASSUME [Next]_vars
  PROVE  \/ \E w \in Writers : FileSteps(w)
         \/ \E d \in Readers : Read(d)
         \/ \E s \in Askers : AskSteps(s)
         \/ DeleteReport \/ DeleteRun \/ Clock \/ Crash \/ OpenInsert \/ CommitInsert \/ Leave \/ UNCHANGED vars
  BY DEF Next, FilesNext, SummaryNext, FileSteps, AskSteps

\* A writer's place and name are its own.
LEMMA WriterAlone ==
  ASSUME TypeOK, [Next]_vars, NEW w \in Writers
  PROVE  \/ FileSteps(w)
         \/ pc'[w] = pc[w] /\ name'[w] = name[w]
         \/ Crashed(w) /\ UNCHANGED <<tables, name, got, orders, askers>>
<1>0. /\ \A q \in Requests : \A x : pc' = [pc EXCEPT ![q] = x] /\ w # q => pc'[w] = pc[w]
      /\ \A q \in Requests : \A x : name' = [name EXCEPT ![q] = x] /\ w # q => name'[w] = name[w]
      /\ w \in Requests
  BY DEF TypeOK, Requests
<1>1. ASSUME NEW x \in Writers, FileSteps(x), x # w PROVE pc'[w] = pc[w] /\ name'[w] = name[w]
  BY <1>0, <1>1, WriterMoves DEF Requests
<1>2. ASSUME NEW d \in Readers, Read(d) PROVE pc'[w] = pc[w] /\ name'[w] = name[w]
  BY <1>0, <1>2, ReaderMoves DEF Requests
<1>3. ASSUME NEW s \in Askers, AskSteps(s) PROVE pc'[w] = pc[w] /\ name'[w] = name[w]
  BY <1>0, <1>3, AskerMoves DEF Requests
<1>4. CASE DeleteReport \/ DeleteRun
  BY <1>4, GridMoves
<1>5. CASE Clock \/ OpenInsert \/ CommitInsert \/ Leave \/ UNCHANGED vars
  BY <1>5 DEF Clock, OpenInsert, CommitInsert, Leave, vars
<1>6. CASE Crash
  BY <1>0, <1>6 DEF Crash, Crashed
<1> QED
  BY <1>1, <1>2, <1>3, <1>4, <1>5, <1>6, Steps

\* So are a reader's place, name and answer.
LEMMA ReaderAlone ==
  ASSUME TypeOK, [Next]_vars, NEW d \in Readers
  PROVE  \/ Read(d)
         \/ pc'[d] = pc[d] /\ name'[d] = name[d] /\ got'[d] = got[d]
         \/ Crashed(d) /\ UNCHANGED <<tables, name, got, orders, askers>>
<1>0. /\ \A q \in Requests : \A x : pc' = [pc EXCEPT ![q] = x] /\ d # q => pc'[d] = pc[d]
      /\ \A q \in Requests : \A x : name' = [name EXCEPT ![q] = x] /\ d # q => name'[d] = name[d]
      /\ \A q \in Requests : \A x : got' = [got EXCEPT ![q] = x] /\ d # q => got'[d] = got[d]
      /\ d \in Requests
  BY DEF TypeOK, Requests
<1>1. ASSUME NEW x \in Writers, FileSteps(x) PROVE pc'[d] = pc[d] /\ name'[d] = name[d] /\ got'[d] = got[d]
  BY <1>0, <1>1, WriterMoves DEF Requests
<1>2. ASSUME NEW x \in Readers, Read(x), x # d PROVE pc'[d] = pc[d] /\ name'[d] = name[d] /\ got'[d] = got[d]
  BY <1>0, <1>2, ReaderMoves DEF Requests
<1>3. ASSUME NEW s \in Askers, AskSteps(s) PROVE pc'[d] = pc[d] /\ name'[d] = name[d] /\ got'[d] = got[d]
  BY <1>0, <1>3, AskerMoves DEF Requests
<1>4. CASE DeleteReport \/ DeleteRun
  BY <1>4, GridMoves
<1>5. CASE Clock \/ OpenInsert \/ CommitInsert \/ Leave \/ UNCHANGED vars
  BY <1>5 DEF Clock, OpenInsert, CommitInsert, Leave, vars
<1>6. CASE Crash
  BY <1>0, <1>6 DEF Crash, Crashed
<1> QED
  BY <1>1, <1>2, <1>3, <1>4, <1>5, <1>6, Steps

\* And an asker's place, period and counts.
Same(s) == pc'[s] = pc[s] /\ period'[s] = period[s] /\ counted'[s] = counted[s] /\ cut'[s] = cut[s]

LEMMA AskerAlone ==
  ASSUME TypeOK, [Next]_vars, NEW s \in Askers
  PROVE  \/ AskSteps(s)
         \/ Same(s)
         \/ Crashed(s) /\ UNCHANGED <<tables, name, got, orders, askers>>
<1>0. /\ \A q \in Requests : \A x : pc' = [pc EXCEPT ![q] = x] /\ s # q => pc'[s] = pc[s]
      /\ \A q \in Requests : \A x : period' = [period EXCEPT ![q] = x] /\ s # q => period'[s] = period[s]
      /\ \A q \in Requests : \A x : counted' = [counted EXCEPT ![q] = x] /\ s # q => counted'[s] = counted[s]
      /\ \A q \in Requests : \A x : cut' = [cut EXCEPT ![q] = x] /\ s # q => cut'[s] = cut[s]
      /\ s \in Requests
  BY DEF TypeOK, Requests
<1>1. ASSUME NEW x \in Writers, FileSteps(x) PROVE Same(s)
  BY <1>0, <1>1, WriterMoves DEF Requests, askers, Same
<1>2. ASSUME NEW x \in Readers, Read(x) PROVE Same(s)
  BY <1>0, <1>2, ReaderMoves DEF Requests, askers, Same
<1>3. ASSUME NEW x \in Askers, AskSteps(x), x # s PROVE Same(s)
  BY <1>0, <1>3, AskerMoves DEF Requests, Same
<1>4. CASE DeleteReport \/ DeleteRun
  BY <1>4, GridMoves DEF askers, Same
<1>5. CASE Clock \/ OpenInsert \/ CommitInsert \/ Leave \/ UNCHANGED vars
  BY <1>5 DEF Clock, OpenInsert, CommitInsert, Leave, vars, askers, Same
<1>6. CASE Crash
  BY <1>0, <1>6 DEF Crash, Crashed
<1> QED
  BY <1>1, <1>2, <1>3, <1>4, <1>5, <1>6, Steps

-----------------------------------------------------------------------------
(* Types *)

NameTypes == {None} \cup (Runs \X (Seconds \cup {None})) \cup Writers

LEMMA NamesTyped == Names \subseteq NameTypes
  BY DEF Names, NameTypes

\* What a step of a writer does.
AskReportAt(w) ==
  /\ pc[w] = "idle" /\ files' = files /\ reports' = reports /\ mishaps' = mishaps
  /\ \/ pc'[w] = "read" /\ \E r \in Runs : name'[w] = <<r, None>>
     \/ pc'[w] = "end" /\ name'[w] = name[w]

RenderAt(w) ==
  /\ pc[w] = "read" /\ files' = files /\ reports' = reports /\ mishaps' = mishaps
  /\ pc'[w] = "open" /\ name'[w] \in Names

OpenFileAt(w) ==
  /\ pc[w] = "open" /\ pc'[w] = "write" /\ name'[w] = name[w]
  /\ reports' = reports /\ mishaps' = mishaps
  /\ files' = [files EXCEPT ![name[w]] = {}]

WriteFileAt(w) ==
  /\ pc[w] = "write" /\ pc'[w] = "insert" /\ name'[w] = name[w]
  /\ reports' = reports /\ mishaps' = mishaps
  /\ \E kept \in {{}, files[name[w]]} : files' = [files EXCEPT ![name[w]] = kept \cup {w}]

EndAt(w) ==
  /\ pc[w] \notin {"idle", "end"} /\ pc'[w] = "end" /\ name'[w] = name[w] /\ files' = files
  /\ mishaps' \in {mishaps, mishaps + 1} /\ (mishaps' # mishaps => mishaps < MaxMishaps)
  /\ reports' = reports \/ (pc[w] = "insert" /\ reports' = reports \cup {w})

LEMMA WriterDoes ==
  ASSUME TypeOK, WriterOK, NEW w \in Writers, FileSteps(w)
  PROVE  AskReportAt(w) \/ RenderAt(w) \/ OpenFileAt(w) \/ WriteFileAt(w) \/ EndAt(w)
<1>0. w \in DOMAIN pc /\ w \in DOMAIN name
  BY DEF TypeOK, Requests
<1>1. CASE AskReport(w)
  <2>1. PICK r \in Runs :
          IF r \in runs THEN Goto(w, "read") /\ name' = [name EXCEPT ![w] = <<r, None>>]
                        ELSE Goto(w, "end") /\ UNCHANGED name
    BY <1>1 DEF AskReport
  <2>2. pc[w] = "idle" /\ files' = files /\ reports' = reports /\ mishaps' = mishaps
    BY <1>1 DEF AskReport, tables
  <2>3. CASE r \in runs
    BY <1>0, <2>1, <2>2, <2>3 DEF Goto, TypeOK, AskReportAt
  <2>4. CASE r \notin runs
    BY <1>0, <2>1, <2>2, <2>4 DEF Goto, TypeOK, AskReportAt
  <2> QED
    BY <2>3, <2>4
<1>2. CASE Render(w)
  <2>1. PICK r \in Runs : name[w] = <<r, None>>
    BY <1>2 DEF Render, WriterOK
  <2>2. name' = [name EXCEPT ![w] = <<name[w][1], second>>]
    BY <1>2 DEF Render
  <2>3. name'[w] = <<r, second>>
    BY <1>0, <2>1, <2>2 DEF TypeOK
  <2>4. name'[w] \in Names
    BY <2>3 DEF Names, TypeOK
  <2> QED
    BY <1>0, <1>2, <2>4 DEF Render, Goto, tables, TypeOK, RenderAt
<1>3. CASE OpenFile(w)
  BY <1>0, <1>3 DEF OpenFile, Goto, TypeOK, OpenFileAt
<1>4. CASE WriteFile(w)
  BY <1>0, <1>4 DEF WriteFile, Goto, TypeOK, WriteFileAt
<1>5. CASE InsertReport(w)
  BY <1>0, <1>5 DEF InsertReport, Inserted, Goto, TypeOK, EndAt
<1>6. CASE WriterFails(w)
  BY <1>0, <1>6 DEF WriterFails, Inserted, Mishap, Goto, TypeOK, EndAt
<1> QED
  BY <1>1, <1>2, <1>3, <1>4, <1>5, <1>6 DEF FileSteps, Write

\* What a step of a reader does.
AskDownloadAt(d) ==
  /\ pc[d] = "idle" /\ log' = log /\ got' = got /\ mishaps' = mishaps
  /\ \/ pc'[d] = "log" /\ name'[d] \in reports
     \/ pc'[d] = "end" /\ name'[d] = name[d]

LogAt(d) ==
  /\ pc[d] = "log" /\ pc'[d] = "serve" /\ name'[d] = name[d] /\ got' = got
  /\ log' = log \/ (name[d] \in reports /\ log' = log \cup {<<d, name[d]>>})
  /\ mishaps' \in {mishaps, mishaps + 1} /\ (mishaps' # mishaps => mishaps < MaxMishaps)

ServeAt(d) ==
  /\ pc[d] = "serve" /\ pc'[d] = "served" /\ name'[d] = name[d] /\ log' = log /\ mishaps' = mishaps
  /\ got' = [got EXCEPT ![d] = files[name[name[d]]]]

LEMMA ReaderDoes ==
  ASSUME TypeOK, NEW d \in Readers, Read(d)
  PROVE  AskDownloadAt(d) \/ LogAt(d) \/ ServeAt(d)
<1>0. d \in DOMAIN pc /\ d \in DOMAIN name
  BY DEF TypeOK, Requests
<1>1. CASE AskDownload(d)
  <2>1. PICK w \in Writers :
          IF w \in reports THEN Goto(d, "log") /\ name' = [name EXCEPT ![d] = w]
                           ELSE Goto(d, "end") /\ UNCHANGED name
    BY <1>1 DEF AskDownload
  <2>2. pc[d] = "idle" /\ log' = log /\ got' = got /\ mishaps' = mishaps
    BY <1>1 DEF AskDownload, tables
  <2>3. CASE w \in reports
    BY <1>0, <2>1, <2>2, <2>3 DEF Goto, TypeOK, AskDownloadAt
  <2>4. CASE w \notin reports
    BY <1>0, <2>1, <2>2, <2>4 DEF Goto, TypeOK, AskDownloadAt
  <2> QED
    BY <2>3, <2>4
<1>2. CASE LogReportDownload(d)
  BY <1>0, <1>2 DEF LogReportDownload, Mishap, Goto, TypeOK, LogAt
<1>3. CASE ServeFile(d)
  BY <1>0, <1>3 DEF ServeFile, Goto, TypeOK, tables, ServeAt
<1> QED
  BY <1>1, <1>2, <1>3 DEF Read

\* What a step of an asker does.
AskSummaryAt(s) ==
  /\ pc[s] = "idle" /\ pc'[s] = "count" /\ now < MaxNow /\ now' = now + 1
  /\ counted' = counted /\ cut' = cut /\ mishaps' = mishaps
  /\ \E from \in Int, to \in Int :
       period' = [period EXCEPT ![s] = [from |-> from, to |-> to, seen |-> committed]]

CountAt(s) ==
  /\ pc[s] = "count" /\ now' = now /\ period' = period
  /\ mishaps' \in {mishaps, mishaps + 1} /\ (mishaps' # mishaps => mishaps < MaxMishaps)
  /\ pc'[s] = IF Len(counted[s]) + 1 = 2 * Len(Sections) THEN "end" ELSE "count"
  /\ \E part \in SUBSET Found(s) :
       /\ counted' = [counted EXCEPT ![s] = Append(counted[s], part)]
       /\ \/ part = Found(s) /\ cut' = cut
          \/ cut' = [cut EXCEPT ![s] = cut[s] \cup {NextPart(s)}]

CountFailsAt(s) ==
  /\ pc[s] = "count" /\ pc'[s] = "end" /\ now' = now /\ period' = period /\ counted' = counted /\ cut' = cut
  /\ mishaps < MaxMishaps /\ mishaps' = mishaps + 1

LEMMA AskerDoes ==
  ASSUME TypeOK, NEW s \in Askers, AskSteps(s)
  PROVE  AskSummaryAt(s) \/ CountAt(s) \/ CountFailsAt(s)
<1>0. s \in DOMAIN pc /\ now \in Int
  BY DEF TypeOK, Requests, Moments
<1>1. CASE AskSummary(s)
  <2>1. /\ pc[s] = "idle" /\ pc'[s] = "count" /\ now < MaxNow /\ now' = now + 1
        /\ counted' = counted /\ cut' = cut /\ mishaps' = mishaps
    BY <1>0, <1>1 DEF AskSummary, Goto, TypeOK
  <2>2. \E from \in -Span..now', to \in -Span..now' + 1 :
          period' = [period EXCEPT ![s] = [from |-> from, to |-> to, seen |-> committed]]
    BY <1>1 DEF AskSummary
  <2>3. -Span..now' \subseteq Int /\ -Span..now' + 1 \subseteq Int
    OBVIOUS
  <2> QED
    BY <2>1, <2>2, <2>3 DEF AskSummaryAt
<1>2. CASE CountSection(s)
  BY <1>0, <1>2 DEF CountSection, AddPart, NextPart, Goto, TypeOK, orders, CountAt
<1>3. CASE CountShort(s)
  BY <1>0, <1>3 DEF CountShort, AddPart, NextPart, Mishap, Goto, TypeOK, orders, CountAt
<1>4. CASE CountFails(s)
  BY <1>0, <1>4 DEF CountFails, Mishap, Goto, TypeOK, orders, askers, CountFailsAt
<1> QED
  BY <1>1, <1>2, <1>3, <1>4 DEF AskSteps, Ask

LEMMA PcNext == ASSUME TypeOK, WriterOK, [Next]_vars PROVE pc' \in [Requests -> Progress]
<1>0. pc \in [Requests -> Progress]
  BY DEF TypeOK, Progress
<1>a. ASSUME NEW q \in Requests, NEW x, pc' = [pc EXCEPT ![q] = x], pc'[q] \in Progress
      PROVE  pc' \in [Requests -> Progress]
  BY <1>0, <1>a
<1>1. ASSUME NEW w \in Writers, FileSteps(w) PROVE pc'[w] \in Progress
  BY <1>1, WriterDoes DEF AskReportAt, RenderAt, OpenFileAt, WriteFileAt, EndAt, Progress
<1>2. ASSUME NEW d \in Readers, Read(d) PROVE pc'[d] \in Progress
  BY <1>2, ReaderDoes DEF AskDownloadAt, LogAt, ServeAt, Progress
<1>3. ASSUME NEW s \in Askers, AskSteps(s) PROVE pc'[s] \in Progress
  BY <1>3, AskerDoes DEF AskSummaryAt, CountAt, CountFailsAt, Progress
<1>4. CASE Crash
  BY <1>0, <1>4 DEF Crash, Progress
<1>5. CASE DeleteReport \/ DeleteRun
  BY <1>0, <1>5, GridMoves
<1>6. CASE Clock \/ OpenInsert \/ CommitInsert \/ Leave \/ UNCHANGED vars
  BY <1>0, <1>6 DEF Clock, OpenInsert, CommitInsert, Leave, vars
<1>7. ASSUME NEW w \in Writers, FileSteps(w) PROVE pc' \in [Requests -> Progress]
  BY <1>a, <1>1, <1>7, WriterMoves DEF Requests
<1>8. ASSUME NEW d \in Readers, Read(d) PROVE pc' \in [Requests -> Progress]
  BY <1>a, <1>2, <1>8, ReaderMoves DEF Requests
<1>9. ASSUME NEW s \in Askers, AskSteps(s) PROVE pc' \in [Requests -> Progress]
  BY <1>a, <1>3, <1>9, AskerMoves DEF Requests
<1> QED
  BY <1>4, <1>5, <1>6, <1>7, <1>8, <1>9, Steps

LEMMA NameNext == ASSUME TypeOK, WriterOK, [Next]_vars PROVE name' \in [Writers \cup Readers -> NameTypes]
<1>0. name \in [Writers \cup Readers -> NameTypes] /\ reports \subseteq Writers
  BY DEF TypeOK, NameTypes
<1>1. ASSUME NEW w \in Writers, FileSteps(w) PROVE name'[w] \in NameTypes
  <2>1. name[w] \in NameTypes
    BY <1>0
  <2>2. ASSUME NEW r \in Runs PROVE <<r, None>> \in NameTypes
    BY DEF NameTypes
  <2>3. CASE AskReportAt(w)
    BY <2>1, <2>2, <2>3 DEF AskReportAt
  <2>4. CASE RenderAt(w)
    BY <2>4, NamesTyped DEF RenderAt
  <2>5. CASE OpenFileAt(w) \/ WriteFileAt(w) \/ EndAt(w)
    BY <2>1, <2>5 DEF OpenFileAt, WriteFileAt, EndAt
  <2> QED
    BY <1>1, <2>3, <2>4, <2>5, WriterDoes
<1>2. ASSUME NEW d \in Readers, Read(d) PROVE name'[d] \in NameTypes
  BY <1>0, <1>2, ReaderDoes DEF AskDownloadAt, LogAt, ServeAt, NameTypes
<1>3. ASSUME NEW s \in Askers, AskSteps(s) PROVE name' = name
  BY <1>3, AskerMoves
<1>4. CASE DeleteReport \/ DeleteRun
  BY <1>0, <1>4, GridMoves
<1>5. CASE Clock \/ OpenInsert \/ CommitInsert \/ Leave \/ Crash \/ UNCHANGED vars
  BY <1>0, <1>5 DEF Clock, OpenInsert, CommitInsert, Leave, Crash, vars
<1>6. ASSUME NEW w \in Writers, FileSteps(w) PROVE name' \in [Writers \cup Readers -> NameTypes]
  BY <1>0, <1>1, <1>6, WriterMoves
<1>7. ASSUME NEW d \in Readers, Read(d) PROVE name' \in [Writers \cup Readers -> NameTypes]
  BY <1>0, <1>2, <1>7, ReaderMoves
<1> QED
  BY <1>0, <1>3, <1>4, <1>5, <1>6, <1>7, Steps

LEMMA FilesNextTyped ==
  ASSUME TypeOK, WriterOK, FileOK, [Next]_vars
  PROVE  files' \in [Names -> {None} \cup SUBSET Writers] /\ runs' \subseteq Runs /\ second' \in Seconds
<1>0. /\ files \in [Names -> {None} \cup SUBSET Writers] /\ runs \subseteq Runs /\ second \in Seconds
      /\ {} \in SUBSET Writers
  BY DEF TypeOK
<1>1. ASSUME NEW w \in Writers, FileSteps(w) PROVE files' \in [Names -> {None} \cup SUBSET Writers]
  <2>1. CASE OpenFileAt(w)
    BY <1>0, <2>1 DEF OpenFileAt
  <2>2. CASE WriteFileAt(w)
    <3>1. PICK kept \in {{}, files[name[w]]} : files' = [files EXCEPT ![name[w]] = kept \cup {w}]
      BY <2>2 DEF WriteFileAt
    <3>2. name[w] \in Names
      BY <2>2 DEF WriteFileAt, WriterOK
    <3>3. files[name[w]] # None
      BY <2>2 DEF WriteFileAt, FileOK
    <3>4. kept \cup {w} \in SUBSET Writers
      BY <1>0, <3>1, <3>2, <3>3
    <3> QED
      BY <1>0, <3>1, <3>2, <3>4
  <2>3. CASE files' = files
    BY <1>0, <2>3
  <2> QED
    BY <1>1, <2>1, <2>2, <2>3, WriterDoes DEF AskReportAt, RenderAt, EndAt
<1>2. ASSUME NEW w \in Writers, FileSteps(w) PROVE UNCHANGED <<runs, second>>
  BY <1>2, WriterMoves
<1>3. ASSUME NEW d \in Readers, Read(d) PROVE UNCHANGED <<runs, files, second>>
  BY <1>3, ReaderMoves
<1>4. ASSUME NEW s \in Askers, AskSteps(s) PROVE UNCHANGED <<runs, files, second>>
  BY <1>4, AskerMoves DEF tables
<1>5. CASE DeleteReport \/ DeleteRun
  BY <1>0, <1>5, GridMoves
<1>6. CASE Clock
  BY <1>0, <1>6 DEF Clock, tables
<1>7. CASE OpenInsert \/ CommitInsert \/ Leave \/ Crash \/ UNCHANGED vars
  BY <1>0, <1>7 DEF OpenInsert, CommitInsert, Leave, Crash, vars, tables
<1> QED
  BY <1>0, <1>1, <1>2, <1>3, <1>4, <1>5, <1>6, <1>7, Steps

LEMMA ReportsNextTyped ==
  ASSUME TypeOK, WriterOK, [Next]_vars PROVE reports' \subseteq Writers /\ log' \subseteq Readers \X reports'
<1>0. reports \subseteq Writers /\ log \subseteq Readers \X reports
  BY DEF TypeOK
<1>1. ASSUME NEW w \in Writers, FileSteps(w) PROVE log' = log /\ (reports' = reports \/ reports' = reports \cup {w})
  BY <1>1, WriterDoes, WriterMoves DEF AskReportAt, RenderAt, OpenFileAt, WriteFileAt, EndAt
<1>2. ASSUME NEW d \in Readers, Read(d)
      PROVE  reports' = reports /\ (log' = log \/ (name[d] \in reports /\ log' = log \cup {<<d, name[d]>>}))
  BY <1>2, ReaderDoes, ReaderMoves DEF AskDownloadAt, LogAt, ServeAt
<1>3. ASSUME NEW s \in Askers, AskSteps(s) PROVE UNCHANGED <<reports, log>>
  BY <1>3, AskerMoves DEF tables
<1>4. CASE DeleteReport \/ DeleteRun
  <2>1. /\ reports' \subseteq reports /\ log' \subseteq log
        /\ \A l \in log' : l[2] \in reports => l[2] \in reports'
    BY <1>4, GridMoves
  <2> QED
    BY <1>0, <2>1
<1>5. CASE Clock \/ OpenInsert \/ CommitInsert \/ Leave \/ Crash \/ UNCHANGED vars
  BY <1>0, <1>5 DEF Clock, OpenInsert, CommitInsert, Leave, Crash, vars, tables
<1> QED
  BY <1>0, <1>1, <1>2, <1>3, <1>4, <1>5, Steps

LEMMA GotNext ==
  ASSUME TypeOK, WriterOK, ReaderOK, FileOK, [Next]_vars PROVE got' \in [Readers -> {None} \cup SUBSET Writers]
<1>0. got \in [Readers -> {None} \cup SUBSET Writers] /\ files \in [Names -> {None} \cup SUBSET Writers]
  BY DEF TypeOK
<1>1. ASSUME NEW w \in Writers, FileSteps(w) PROVE got' = got
  BY <1>1, WriterMoves
<1>2. ASSUME NEW d \in Readers, Read(d) PROVE got' \in [Readers -> {None} \cup SUBSET Writers]
  <2>1. CASE ServeAt(d)
    <3>1. name[d] \in Writers /\ name[name[d]] \in Names
      BY <2>1 DEF ServeAt, ReaderOK, FileOK, Sure
    <3> QED
      BY <1>0, <2>1, <3>1 DEF ServeAt
  <2> QED
    BY <1>0, <1>2, <2>1, ReaderDoes DEF AskDownloadAt, LogAt
<1>3. ASSUME NEW s \in Askers, AskSteps(s) PROVE got' = got
  BY <1>3, AskerMoves
<1>4. CASE DeleteReport \/ DeleteRun
  BY <1>0, <1>4, GridMoves
<1>5. CASE Clock \/ OpenInsert \/ CommitInsert \/ Leave \/ Crash \/ UNCHANGED vars
  BY <1>0, <1>5 DEF Clock, OpenInsert, CommitInsert, Leave, Crash, vars
<1> QED
  BY <1>0, <1>1, <1>2, <1>3, <1>4, <1>5, Steps

LEMMA Parts ==
  /\ Len(Sections) = 5
  /\ \A i \in 1..10 : Section(i) = IF i <= 5 THEN Sections[i] ELSE Sections[i - 5]
  /\ \A i \in 1..10 : Section(i) = "branch" <=> i \in {2, 7}
<1>1. Len(Sections) = 5
  BY DEF Sections
<1>2. \A i \in 1..10 : Section(i) = IF i <= 5 THEN Sections[i] ELSE Sections[i - 5]
  BY <1>1 DEF Section
<1>3. \A k \in 1..5 : Sections[k] = "branch" <=> k = 2
  BY DEF Sections
<1> QED
  BY <1>1, <1>2, <1>3

\* Orders, periods and counts.
LEMMA SummaryTyped ==
  ASSUME TypeOK, AskerOK, [Next]_vars
  PROVE  /\ first' \in [Orders -> {None} \cup Moments] /\ now' \in Moments
         /\ gone' \subseteq committed' /\ committed' \subseteq {o \in Orders : first'[o] # None}
         /\ period' \in [Askers -> {None} \cup [from : Int, to : Int, seen : SUBSET Orders]]
         /\ counted' \in [Askers -> Seq(SUBSET Orders)]
         /\ cut' \in [Askers -> SUBSET (1 .. 2 * Len(Sections))]
<1> DEFINE T == /\ first \in [Orders -> {None} \cup Moments] /\ now \in Moments
                /\ gone \subseteq committed /\ committed \subseteq {o \in Orders : first[o] # None}
                /\ period \in [Askers -> {None} \cup [from : Int, to : Int, seen : SUBSET Orders]]
                /\ counted \in [Askers -> Seq(SUBSET Orders)]
                /\ cut \in [Askers -> SUBSET (1 .. 2 * Len(Sections))]
<1>0. T
  BY DEF TypeOK
<1>1. ASSUME UNCHANGED orders, UNCHANGED askers PROVE T'
  BY <1>0, <1>1 DEF orders, askers
<1>2. ASSUME NEW w \in Writers, FileSteps(w) PROVE T'
  BY <1>1, <1>2, WriterMoves
<1>3. ASSUME NEW d \in Readers, Read(d) PROVE T'
  BY <1>1, <1>3, ReaderMoves
<1>4. CASE DeleteReport \/ DeleteRun
  BY <1>1, <1>4, GridMoves
<1>5. CASE Clock \/ Crash \/ UNCHANGED vars
  BY <1>1, <1>5 DEF Clock, Crash, vars
<1>6. CASE OpenInsert
  BY <1>0, <1>6 DEF OpenInsert, askers
<1>7. CASE CommitInsert \/ Leave
  BY <1>0, <1>7 DEF CommitInsert, Leave, askers
<1>8. ASSUME NEW s \in Askers, AskSteps(s) PROVE T'
  <2>0. first' = first /\ committed' = committed /\ gone' = gone
    BY <1>8, AskerMoves
  <2>1. CASE AskSummaryAt(s)
    <3>1. now' \in Moments /\ committed \in SUBSET Orders
      BY <1>0, <2>1 DEF AskSummaryAt, Moments
    <3> QED
      BY <1>0, <2>0, <2>1, <3>1 DEF AskSummaryAt
  <2>2. CASE CountAt(s)
    <3>1. PICK part \in SUBSET Found(s) :
                      /\ counted' = [counted EXCEPT ![s] = Append(counted[s], part)]
                      /\ cut' = cut \/ cut' = [cut EXCEPT ![s] = cut[s] \cup {NextPart(s)}]
      BY <2>2 DEF CountAt
    <3>2. part \in SUBSET Orders
      BY <1>0, <3>1 DEF Found, Within
    <3>3. Append(counted[s], part) \in Seq(SUBSET Orders)
      BY <1>0, <3>2
    <3>4. NextPart(s) \in 1 .. 2 * Len(Sections)
      <4>1. Len(counted[s]) \in Nat /\ Len(counted[s]) < 2 * Len(Sections) /\ Len(Sections) = 5
        BY <1>0, <2>2, Parts DEF AskerOK, CountAt
      <4> QED
        BY <4>1 DEF NextPart
    <3>5. cut' \in [Askers -> SUBSET (1 .. 2 * Len(Sections))]
      <4> DEFINE D == 1 .. 2 * Len(Sections)
      <4>1. NextPart(s) \in D /\ cut \in [Askers -> SUBSET D]
        BY <1>0, <3>4
      <4> HIDE DEF D
      <4>2. cut[s] \cup {NextPart(s)} \in SUBSET D
        BY <4>1
      <4>3. cut' \in [Askers -> SUBSET D]
        BY <3>1, <4>1, <4>2
      <4> QED
        BY <4>3 DEF D
    <3>6. counted' \in [Askers -> Seq(SUBSET Orders)]
      BY <1>0, <3>1, <3>3
    <3>7. period' = period /\ now' = now
      BY <2>2 DEF CountAt
    <3> QED
      BY <1>0, <2>0, <3>5, <3>6, <3>7
  <2>3. CASE CountFailsAt(s)
    BY <1>0, <2>0, <2>3 DEF CountFailsAt
  <2> QED
    BY <1>8, <2>1, <2>2, <2>3, AskerDoes
<1> QED
  BY <1>2, <1>3, <1>4, <1>5, <1>6, <1>7, <1>8, Steps

LEMMA MishapsNext == ASSUME TypeOK, WriterOK, [Next]_vars PROVE mishaps' \in 0..MaxMishaps
<1>0. mishaps \in 0..MaxMishaps
  BY DEF TypeOK
<1> DEFINE M == mishaps' \in {mishaps, mishaps + 1} /\ (mishaps' # mishaps => mishaps < MaxMishaps)
<1>1. ASSUME NEW w \in Writers, FileSteps(w) PROVE M
  BY <1>1, WriterDoes DEF AskReportAt, RenderAt, OpenFileAt, WriteFileAt, EndAt
<1>2. ASSUME NEW d \in Readers, Read(d) PROVE M
  BY <1>2, ReaderDoes DEF AskDownloadAt, LogAt, ServeAt
<1>3. ASSUME NEW s \in Askers, AskSteps(s) PROVE M
  BY <1>3, AskerDoes DEF AskSummaryAt, CountAt, CountFailsAt
<1>4. ASSUME DeleteReport \/ DeleteRun PROVE M
  BY <1>4, GridMoves
<1>5. ASSUME Clock \/ OpenInsert \/ CommitInsert \/ Leave \/ Crash \/ UNCHANGED vars PROVE M
  BY <1>5 DEF Clock, OpenInsert, CommitInsert, Leave, Crash, Mishap, vars
<1>6. M
  BY <1>1, <1>2, <1>3, <1>4, <1>5, Steps
<1> QED
  BY <1>0, <1>6

LEMMA TypeNext == ASSUME TypeOK, WriterOK, ReaderOK, FileOK, AskerOK, [Next]_vars PROVE TypeOK'
  BY PcNext, NameNext, FilesNextTyped, ReportsNextTyped, GotNext, SummaryTyped, MishapsNext
     DEF TypeOK, Progress, NameTypes

-----------------------------------------------------------------------------
(* The files *)

LEMMA WriterNext == ASSUME TypeOK, WriterOK, [Next]_vars PROVE WriterOK'
<1> SUFFICES ASSUME NEW w \in Writers
             PROVE  /\ pc'[w] \in {"idle", "read", "open", "write", "insert", "end"}
                    /\ pc'[w] = "read" => \E r \in Runs : name'[w] = <<r, None>>
                    /\ pc'[w] \in {"open", "write", "insert"} => name'[w] \in Names
                    /\ w \in reports' => pc'[w] = "end" /\ name'[w] \in Names
  BY DEF WriterOK, Names
<1>0. /\ pc[w] \in {"idle", "read", "open", "write", "insert", "end"}
      /\ pc[w] = "read" => \E r \in Runs : name[w] = <<r, None>>
      /\ pc[w] \in {"open", "write", "insert"} => name[w] \in Names
      /\ w \in reports => pc[w] = "end" /\ name[w] \in Names
  BY DEF WriterOK
<1>1. CASE FileSteps(w)
  BY <1>0, <1>1, WriterDoes DEF AskReportAt, RenderAt, OpenFileAt, WriteFileAt, EndAt
<1>2. ASSUME ~FileSteps(w) PROVE w \in reports' => w \in reports
  <2>1. ASSUME NEW x \in Writers, FileSteps(x), x # w PROVE w \in reports' => w \in reports
    BY <2>1, WriterDoes DEF AskReportAt, RenderAt, OpenFileAt, WriteFileAt, EndAt
  <2>2. ASSUME NEW d \in Readers, Read(d) PROVE reports' = reports
    BY <2>2, ReaderMoves
  <2>3. ASSUME NEW s \in Askers, AskSteps(s) PROVE reports' = reports
    BY <2>3, AskerMoves DEF tables
  <2>4. ASSUME DeleteReport \/ DeleteRun PROVE reports' \subseteq reports
    BY <2>4, GridMoves
  <2>5. ASSUME Clock \/ OpenInsert \/ CommitInsert \/ Leave \/ Crash \/ UNCHANGED vars PROVE reports' = reports
    BY <2>5 DEF Clock, OpenInsert, CommitInsert, Leave, Crash, vars, tables
  <2> QED
    BY <1>2, <2>1, <2>2, <2>3, <2>4, <2>5, Steps
<1>3. CASE pc'[w] = pc[w] /\ name'[w] = name[w] /\ ~FileSteps(w)
  BY <1>0, <1>2, <1>3
<1>4. CASE Crashed(w) /\ UNCHANGED <<tables, name>>
  BY <1>0, <1>4 DEF Crashed, tables
<1> QED
  BY <1>1, <1>3, <1>4, WriterAlone

\* A writer that has opened its file keeps its name.
LEMMA NameKept ==
  ASSUME TypeOK, WriterOK, [Next]_vars, NEW w \in Writers, pc[w] \in {"open", "write", "insert", "end"}
  PROVE  /\ name'[w] = name[w] /\ pc'[w] \in {"open", "write", "insert", "end"}
         /\ pc[w] # "open" => pc'[w] # "open"
         /\ pc[w] = "end" => pc'[w] = "end"
         /\ pc[w] = "insert" => pc'[w] \in {"insert", "end"}
<1>1. CASE FileSteps(w)
  BY <1>1, WriterDoes DEF AskReportAt, RenderAt, OpenFileAt, WriteFileAt, EndAt
<1>2. CASE Crashed(w) /\ name' = name
  BY <1>2 DEF Crashed
<1> QED
  BY <1>1, <1>2, WriterAlone

LEMMA ReaderNext == ASSUME TypeOK, WriterOK, ReaderOK, [Next]_vars PROVE ReaderOK'
<1> SUFFICES ASSUME NEW d \in Readers
             PROVE  /\ pc'[d] \in {"idle", "log", "serve", "served", "end"}
                    /\ pc'[d] \in {"log", "serve", "served"} =>
                         \E w \in Writers : name'[d] = w /\ pc[w] = "end"
  BY NameKept DEF ReaderOK
<1>0. /\ pc[d] \in {"idle", "log", "serve", "served", "end"}
      /\ pc[d] \in {"log", "serve", "served"} => name[d] \in Writers /\ pc[name[d]] = "end"
      /\ reports \subseteq Writers
  BY DEF ReaderOK, TypeOK
<1>1. CASE Read(d)
  BY <1>0, <1>1, ReaderDoes DEF AskDownloadAt, LogAt, ServeAt, WriterOK
<1>2. CASE Crashed(d) /\ name' = name
  BY <1>0, <1>2 DEF Crashed
<1> QED
  BY <1>0, <1>1, <1>2, ReaderAlone

LEMMA SharedStays ==
  ASSUME TypeOK, WriterOK, [Next]_vars, NEW w \in Writers, pc[w] \in {"open", "write", "insert", "end"}, Shared(w)
  PROVE  Shared(w)'
<1>1. PICK x \in Writers : Shares(x, w)
  BY DEF Shared
<1>2. name'[w] = name[w] /\ name'[x] = name[x] /\ pc'[x] \in {"write", "insert", "end"} /\ name[x] \in Names
  BY <1>1, NameKept DEF Shares, Opened
<1>3. x # w /\ name[x] = name[w]
  BY <1>1 DEF Shares
<1>4. Shares(x, w)'
  BY <1>2, <1>3 DEF Shares, Opened, Names
<1> QED
  BY <1>4 DEF Shared

\* A file is written by the two steps of a writer that has its name.
LEMMA FileChanges ==
  ASSUME TypeOK, WriterOK, FileOK, [Next]_vars, NEW n \in Names, files'[n] # files[n]
  PROVE  \E x \in Writers :
           /\ FileSteps(x) /\ name[x] = n /\ name'[x] = n /\ pc'[x] \in {"write", "insert"}
           /\ files'[n] # None
           /\ \/ OpenFileAt(x) /\ files'[n] = {}
              \/ WriteFileAt(x) /\ files'[n] \in {{x}, files[n] \cup {x}}
<1>1. ASSUME NEW x \in Writers, FileSteps(x)
      PROVE  /\ FileSteps(x) /\ name[x] = n /\ name'[x] = n /\ pc'[x] \in {"write", "insert"}
             /\ files'[n] # None
             /\ \/ OpenFileAt(x) /\ files'[n] = {}
                \/ WriteFileAt(x) /\ files'[n] \in {{x}, files[n] \cup {x}}
  <2>0. files \in [Names -> {None} \cup SUBSET Writers] /\ {} \in SUBSET Writers
    BY DEF TypeOK
  <2>1. CASE OpenFileAt(x)
    BY <1>1, <2>0, <2>1 DEF OpenFileAt
  <2>2. CASE WriteFileAt(x)
    <3>1. PICK kept \in {{}, files[name[x]]} : files' = [files EXCEPT ![name[x]] = kept \cup {x}]
      BY <2>2 DEF WriteFileAt
    <3>2. n = name[x] /\ files'[n] = kept \cup {x} /\ files[n] # None
      BY <2>0, <2>2, <3>1 DEF WriteFileAt, WriterOK, FileOK
    <3>3. kept \cup {x} \in SUBSET Writers
      BY <2>0, <3>1, <3>2
    <3>4. kept \cup {x} # None
      BY <3>3
    <3> QED
      BY <1>1, <2>2, <3>1, <3>2, <3>4 DEF WriteFileAt
  <2>3. CASE files' = files
    BY <2>3
  <2> QED
    BY <1>1, <2>1, <2>2, <2>3, WriterDoes DEF AskReportAt, RenderAt, EndAt
<1>2. ASSUME NEW d \in Readers, Read(d) PROVE FALSE
  BY <1>2, ReaderMoves
<1>3. ASSUME NEW s \in Askers, AskSteps(s) PROVE FALSE
  BY <1>3, AskerMoves DEF tables
<1>4. ASSUME DeleteReport \/ DeleteRun PROVE FALSE
  BY <1>4, GridMoves
<1>5. ASSUME Clock \/ OpenInsert \/ CommitInsert \/ Leave \/ Crash \/ UNCHANGED vars PROVE FALSE
  BY <1>5 DEF Clock, OpenInsert, CommitInsert, Leave, Crash, vars, tables
<1> QED
  BY <1>1, <1>2, <1>3, <1>4, <1>5, Steps

\* Whoever else writes into a file shares it.
LEMMA Sharing ==
  ASSUME TypeOK, WriterOK, FileOK, [Next]_vars, NEW w \in Writers, pc[w] \in {"write", "insert", "end"},
         name[w] \in Names, files'[name[w]] # files[name[w]], ~WriteFileAt(w)
  PROVE  files'[name[w]] # None /\ Shared(w)'
<1>1. PICK x \in Writers :
        /\ FileSteps(x) /\ name[x] = name[w] /\ name'[x] = name[w] /\ pc'[x] \in {"write", "insert"}
        /\ files'[name[w]] # None
        /\ OpenFileAt(x) \/ WriteFileAt(x)
  BY FileChanges
<1>2. x # w
  BY <1>1 DEF OpenFileAt
<1>3. name'[w] = name[w]
  BY NameKept
<1>4. Shares(x, w)'
  BY <1>1, <1>2, <1>3 DEF Shares, Opened, Names
<1> QED
  BY <1>1, <1>4 DEF Shared

\* How a report comes to be one to rely on.
LEMMA SureComes ==
  ASSUME TypeOK, WriterOK, [Next]_vars, NEW w \in Writers, Sure(w)'
  PROVE  Sure(w) \/ WriteFileAt(w)
<1>1. CASE w \in reports'
  <2>1. ASSUME NEW x \in Writers, FileSteps(x) PROVE w \in reports \/ pc[w] = "insert"
    BY <1>1, <2>1, WriterDoes DEF AskReportAt, RenderAt, OpenFileAt, WriteFileAt, EndAt
  <2>2. ASSUME NEW d \in Readers, Read(d) PROVE reports' = reports
    BY <2>2, ReaderMoves
  <2>3. ASSUME NEW s \in Askers, AskSteps(s) PROVE reports' = reports
    BY <2>3, AskerMoves DEF tables
  <2>4. ASSUME DeleteReport \/ DeleteRun PROVE reports' \subseteq reports
    BY <2>4, GridMoves
  <2>5. ASSUME Clock \/ OpenInsert \/ CommitInsert \/ Leave \/ Crash \/ UNCHANGED vars PROVE reports' = reports
    BY <2>5 DEF Clock, OpenInsert, CommitInsert, Leave, Crash, vars, tables
  <2> QED
    BY <1>1, <2>1, <2>2, <2>3, <2>4, <2>5, Steps DEF Sure
<1>2. CASE pc'[w] = "insert"
  <2>1. CASE FileSteps(w)
    BY <1>2, <2>1, WriterDoes DEF AskReportAt, RenderAt, OpenFileAt, WriteFileAt, EndAt
  <2>2. CASE pc'[w] = pc[w]
    BY <1>2, <2>2 DEF Sure
  <2>3. CASE Crashed(w)
    BY <1>2, <2>3 DEF Crashed, WriterOK
  <2> QED
    BY <2>1, <2>2, <2>3, WriterAlone
<1>3. ASSUME NEW d \in Readers, pc'[d] \in {"log", "serve"}, name'[d] = w PROVE Sure(w)
  <2>1. CASE Read(d)
    BY <1>3, <2>1, ReaderDoes DEF AskDownloadAt, LogAt, ServeAt, Sure
  <2>2. CASE pc'[d] = pc[d] /\ name'[d] = name[d]
    BY <1>3, <2>2 DEF Sure
  <2>3. CASE Crashed(d) /\ name' = name
    BY <1>3, <2>3 DEF Crashed, Sure
  <2> QED
    BY <2>1, <2>2, <2>3, ReaderAlone
<1> QED
  BY <1>1, <1>2, <1>3 DEF Sure

LEMMA FileNext == ASSUME TypeOK, WriterOK, FileOK, [Next]_vars PROVE FileOK'
<1> DEFINE Whole(w) == /\ pc[w] \in {"insert", "end"} /\ name[w] \in Names
                       /\ files[name[w]] # None
                       /\ files[name[w]] = {w} \/ Shared(w)
           Empty(w) == files[name[w]] # None /\ (files[name[w]] = {} \/ Shared(w))
<1>1. ASSUME NEW w \in Writers, Sure(w)' PROVE Whole(w)'
  <2>1. CASE Sure(w)
    <3>1. /\ pc[w] \in {"insert", "end"} /\ name[w] \in Names
          /\ files[name[w]] # None
          /\ files[name[w]] = {w} \/ Shared(w)
      BY <2>1 DEF FileOK
    <3>2. name'[w] = name[w] /\ pc'[w] \in {"insert", "end"}
      BY <3>1, NameKept
    <3>3. CASE files'[name[w]] = files[name[w]]
      BY <3>1, <3>2, <3>3, SharedStays DEF Names
    <3>4. CASE files'[name[w]] # files[name[w]]
      <4>1. ~WriteFileAt(w)
        BY <3>1 DEF WriteFileAt
      <4> QED
        BY <3>1, <3>2, <3>4, <4>1, Sharing DEF Names
    <3> QED
      BY <3>3, <3>4
  <2>2. CASE WriteFileAt(w)
    <3>1. pc[w] = "write" /\ pc'[w] = "insert" /\ name'[w] = name[w] /\ name[w] \in Names
      BY <2>2 DEF WriteFileAt, WriterOK
    <3>2. files[name[w]] # None /\ (files[name[w]] = {} \/ Shared(w))
      BY <3>1 DEF FileOK
    <3>3. PICK kept \in {{}, files[name[w]]} : files' = [files EXCEPT ![name[w]] = kept \cup {w}]
      BY <2>2 DEF WriteFileAt
    <3>4. files'[name[w]] = kept \cup {w}
      BY <3>1, <3>3 DEF TypeOK
    <3>5. kept \cup {w} \in SUBSET Writers
      BY <3>1, <3>2, <3>3 DEF TypeOK
    <3>6. files'[name[w]] # None
      BY <3>4, <3>5
    <3>7. CASE kept = {} \/ files[name[w]] = {}
      BY <3>1, <3>3, <3>4, <3>6, <3>7 DEF Names
    <3>8. CASE Shared(w)
      BY <3>1, <3>6, <3>8, SharedStays DEF Names
    <3> QED
      BY <3>2, <3>7, <3>8
  <2> QED
    BY <1>1, <2>1, <2>2, SureComes
<1>2. ASSUME NEW w \in Writers, pc'[w] = "write" PROVE Empty(w)'
  <2>1. CASE pc[w] = "write" /\ pc'[w] = pc[w] /\ name'[w] = name[w]
    <3>1. files[name[w]] # None /\ (files[name[w]] = {} \/ Shared(w)) /\ name[w] \in Names
      BY <2>1 DEF FileOK, WriterOK
    <3>2. CASE files'[name[w]] = files[name[w]]
      BY <2>1, <3>1, <3>2, SharedStays
    <3>3. CASE files'[name[w]] # files[name[w]]
      <4>1. ~WriteFileAt(w)
        BY <2>1 DEF WriteFileAt
      <4> QED
        BY <2>1, <3>1, <3>3, <4>1, Sharing
    <3> QED
      BY <3>2, <3>3
  <2>2. CASE FileSteps(w)
    <3>1. OpenFileAt(w)
      BY <1>2, <2>2, WriterDoes DEF AskReportAt, RenderAt, WriteFileAt, EndAt
    <3>2. name[w] \in Names /\ name'[w] = name[w]
      BY <3>1 DEF OpenFileAt, WriterOK
    <3>3. files'[name[w]] = {}
      BY <3>1, <3>2 DEF OpenFileAt, TypeOK
    <3>4. {} \in SUBSET Writers
      OBVIOUS
    <3>5. {} # None
      BY <3>4
    <3> QED
      BY <3>2, <3>3, <3>5
  <2>3. CASE Crashed(w)
    BY <1>2, <2>3 DEF Crashed
  <2> QED
    BY <1>2, <2>1, <2>2, <2>3, WriterAlone
<1> QED
  BY <1>1, <1>2 DEF FileOK

\* What a download has been sent.
LEMMA DownloadNext ==
  ASSUME TypeOK, WriterOK, ReaderOK, FileOK, DownloadIsTheReport, [Next]_vars PROVE DownloadIsTheReport'
<1> SUFFICES ASSUME NEW d \in Readers, pc'[d] = "served"
             PROVE  \E w \in Writers : name'[d] = w /\ (got'[d] = {w} \/ Shared(w)')
  BY DEF DownloadIsTheReport, Shared
<1>1. CASE Read(d)
  <2>1. ServeAt(d)
    BY <1>1, ReaderDoes DEF AskDownloadAt, LogAt, ServeAt
  <2>2. PICK w \in Writers : w = name[d]
    BY <2>1 DEF ServeAt, ReaderOK
  <2>3. Sure(w)
    BY <2>1, <2>2 DEF Sure, ServeAt
  <2>4. pc[w] \in {"insert", "end"} /\ (files[name[w]] = {w} \/ Shared(w))
    BY <2>3 DEF FileOK
  <2>5. got'[d] = files[name[w]] /\ name'[d] = w
    BY <2>1, <2>2 DEF ServeAt, TypeOK
  <2>6. Shared(w) => Shared(w)'
    BY <2>4, SharedStays
  <2> QED
    BY <2>4, <2>5, <2>6
<1>2. ASSUME pc[d] = "served", name'[d] = name[d], got'[d] = got[d]
      PROVE  \E w \in Writers : name'[d] = w /\ (got'[d] = {w} \/ Shared(w)')
  <2>1. PICK w \in Writers : w = name[d] /\ pc[w] = "end"
    BY <1>2 DEF ReaderOK
  <2>2. got[d] = {w} \/ Shared(w)
    BY <1>2, <2>1 DEF DownloadIsTheReport, Shared
  <2>3. Shared(w) => Shared(w)'
    BY <2>1, SharedStays
  <2> QED
    BY <1>2, <2>1, <2>2, <2>3
<1>3. CASE Crashed(d) /\ UNCHANGED <<name, got>>
  <2>1. pc[d] = "served" /\ name'[d] = name[d] /\ got'[d] = got[d]
    BY <1>3 DEF Crashed
  <2> QED
    BY <1>2, <2>1
<1> QED
  BY <1>1, <1>2, <1>3, ReaderAlone

-----------------------------------------------------------------------------
(* The summaries *)

\* Orders come, go, and nothing else happens to them.
LEMMA OrderSteps ==
  ASSUME TypeOK, [Next]_vars
  PROVE  /\ gone \subseteq gone' /\ committed \subseteq committed'
         /\ \A o \in Orders : first'[o] = first[o] \/ first[o] = None
<1>0. now \in Int /\ first \in [Orders -> {None} \cup Moments]
  BY DEF TypeOK, Moments
<1>1. ASSUME UNCHANGED orders
      PROVE  /\ gone \subseteq gone' /\ committed \subseteq committed'
             /\ \A o \in Orders : first'[o] = first[o] \/ first[o] = None
  BY <1>0, <1>1 DEF orders
<1>2. CASE \E w \in Writers : FileSteps(w)
  BY <1>1, <1>2, WriterMoves
<1>3. CASE \E d \in Readers : Read(d)
  BY <1>1, <1>3, ReaderMoves
<1>4. ASSUME NEW s \in Askers, AskSteps(s) PROVE UNCHANGED <<first, committed, gone>>
  BY <1>4, AskerMoves
<1>5. CASE DeleteReport \/ DeleteRun
  BY <1>1, <1>5, GridMoves
<1>6. CASE Clock \/ Crash \/ UNCHANGED vars
  BY <1>1, <1>6 DEF Clock, Crash, vars
<1>7. CASE OpenInsert
  BY <1>0, <1>7 DEF OpenInsert
<1>8. CASE CommitInsert \/ Leave
  BY <1>0, <1>8 DEF CommitInsert, Leave
<1> QED
  BY <1>0, <1>1, <1>2, <1>3, <1>4, <1>5, <1>6, <1>7, <1>8, Steps

\* An asker stands still, begins, counts one part, or stops.
LEMMA AskerCases ==
  ASSUME TypeOK, AskerOK, [Next]_vars, NEW s \in Askers
  PROVE  \/ AskSummaryAt(s) /\ AskSteps(s)
         \/ CountAt(s) /\ AskSteps(s)
         \/ /\ period'[s] = period[s] /\ counted'[s] = counted[s] /\ cut'[s] = cut[s]
            /\ pc'[s] = pc[s] \/ (pc[s] # "idle" /\ pc'[s] = "end")
<1>1. CASE AskSteps(s)
  BY <1>1, AskerDoes DEF CountFailsAt
<1>2. CASE Crashed(s) /\ UNCHANGED askers
  BY <1>2 DEF Crashed, askers
<1> QED
  BY <1>1, <1>2, AskerAlone DEF Same

\* The part that CountSection adds.
LEMMA Counting ==
  ASSUME TypeOK, AskerOK, NEW s \in Askers, CountAt(s)
  PROVE  LET i == Len(counted[s]) + 1 IN
         /\ i \in 1..10 /\ Len(counted[s]) = i - 1
         /\ Len(counted'[s]) = i
         /\ \A j \in 1..(i - 1) : counted'[s][j] = counted[s][j]
         /\ cut[s] \subseteq cut'[s]
         /\ \A o \in counted'[s][i] : o \in committed \ gone /\ InWindow(o, Window(period[s], i))
         /\ Section(i) # "branch" /\ i \notin cut'[s] =>
              \A o \in committed \ gone : InWindow(o, Window(period[s], i)) => o \in counted'[s][i]
<1> DEFINE i == Len(counted[s]) + 1
<1>1. counted[s] \in Seq(SUBSET Orders) /\ Len(counted[s]) \in Nat /\ NextPart(s) = i
  BY DEF TypeOK, NextPart
<1>2. Len(counted[s]) < 10
  BY Parts DEF AskerOK, CountAt
<1>3. PICK part \in SUBSET Found(s) :
        /\ counted' = [counted EXCEPT ![s] = Append(counted[s], part)]
        /\ \/ part = Found(s) /\ cut' = cut
           \/ cut' = [cut EXCEPT ![s] = cut[s] \cup {NextPart(s)}]
  BY DEF CountAt
<1>4. committed \subseteq Orders /\ \A o \in committed : first[o] # None
  BY DEF TypeOK
<1>5. part \in SUBSET Orders
  BY <1>3, <1>4 DEF Found, Within
<1>6. counted'[s] = Append(counted[s], part)
  BY <1>3 DEF TypeOK
<1>7. /\ Len(counted'[s]) = i /\ counted'[s][i] = part
      /\ \A j \in 1..Len(counted[s]) : counted'[s][j] = counted[s][j]
  BY <1>1, <1>5, <1>6
<1>8. \A o \in part : o \in committed \ gone /\ InWindow(o, Window(period[s], i))
  BY <1>1, <1>3, <1>4 DEF Found, Within, InWindow
<1>9. cut[s] \subseteq cut'[s] /\ (i \notin cut'[s] => part = Found(s))
  BY <1>1, <1>3 DEF TypeOK
<1>10. Section(i) # "branch" => \A o \in committed \ gone : InWindow(o, Window(period[s], i)) => o \in Found(s)
  BY <1>1, <1>4 DEF Found, Within, InWindow
<1> QED
  BY <1>1, <1>2, <1>7, <1>8, <1>9, <1>10

LEMMA AskerNext == ASSUME TypeOK, AskerOK, [Next]_vars PROVE AskerOK'
<1> SUFFICES ASSUME NEW s \in Askers
             PROVE  /\ pc'[s] \in {"idle", "count", "end"}
                    /\ pc'[s] = "idle" => counted'[s] = <<>>
                    /\ Len(counted'[s]) <= 2 * Len(Sections)
                    /\ pc'[s] = "count" => Len(counted'[s]) < 2 * Len(Sections)
                    /\ pc'[s] # "idle" /\ (pc'[s] = "count" \/ counted'[s] # <<>>) =>
                         period'[s] \in [from : Int, to : Int, seen : SUBSET Orders] /\ period'[s].seen \subseteq committed'
  BY DEF AskerOK
<1>0. /\ pc[s] \in {"idle", "count", "end"}
      /\ pc[s] = "idle" => counted[s] = <<>>
      /\ Len(counted[s]) <= 10
      /\ pc[s] = "count" => Len(counted[s]) < 10
      /\ pc[s] # "idle" /\ (pc[s] = "count" \/ counted[s] # <<>>) =>
           period[s] \in [from : Int, to : Int, seen : SUBSET Orders] /\ period[s].seen \subseteq committed
      /\ committed \subseteq committed' /\ committed \subseteq Orders /\ Len(Sections) = 5
  <2>1. Len(Sections) = 5
    BY Parts
  <2>2. committed \subseteq Orders
    BY DEF TypeOK
  <2>3. committed \subseteq committed'
    BY OrderSteps
  <2>4. /\ pc[s] \in {"idle", "count", "end"}
        /\ pc[s] = "idle" => counted[s] = <<>>
        /\ Len(counted[s]) <= 2 * Len(Sections)
        /\ pc[s] = "count" => Len(counted[s]) < 2 * Len(Sections)
        /\ pc[s] # "idle" /\ (pc[s] = "count" \/ counted[s] # <<>>) =>
             period[s] \in [from : Int, to : Int, seen : SUBSET Orders] /\ period[s].seen \subseteq committed
    BY DEF AskerOK
  <2>5. counted[s] \in Seq(SUBSET Orders)
    BY DEF TypeOK
  <2> QED
    BY <2>1, <2>2, <2>3, <2>4, <2>5
<1>1. CASE AskSummaryAt(s)
  <2>1. counted'[s] = <<>> /\ pc'[s] = "count"
    BY <1>0, <1>1 DEF AskSummaryAt
  <2>2. PICK from \in Int, to \in Int :
          period' = [period EXCEPT ![s] = [from |-> from, to |-> to, seen |-> committed]]
    BY <1>1 DEF AskSummaryAt
  <2>3. period'[s] = [from |-> from, to |-> to, seen |-> committed]
    BY <2>2 DEF TypeOK
  <2>4. period'[s] \in [from : Int, to : Int, seen : SUBSET Orders] /\ period'[s].seen \subseteq committed'
    BY <1>0, <2>3
  <2> QED
    BY <1>0, <2>1, <2>4
<1>2. CASE CountAt(s)
  <2>1. /\ Len(counted'[s]) = Len(counted[s]) + 1 /\ Len(counted[s]) + 1 \in 1..10
    BY <1>2, Counting
  <2>2. /\ pc[s] = "count" /\ period' = period /\ now' = now
        /\ pc'[s] = IF Len(counted[s]) + 1 = 2 * Len(Sections) THEN "end" ELSE "count"
    BY <1>2 DEF CountAt
  <2> QED
    BY <1>0, <2>1, <2>2
<1>3. CASE /\ period'[s] = period[s] /\ counted'[s] = counted[s]
           /\ pc'[s] = pc[s] \/ (pc[s] # "idle" /\ pc'[s] = "end")
  <2>1. period[s].seen \subseteq committed => period[s].seen \subseteq committed'
    BY <1>0
  <2> QED
    BY <1>0, <1>3, <2>1
<1> QED
  BY <1>1, <1>2, <1>3, AskerCases

\* Whoever has counted has a period, and what it saw is in the table.
LEMMA Counted ==
  ASSUME TypeOK, AskerOK, NEW s \in Askers, NEW i \in 1..Len(counted[s])
  PROVE  /\ period[s].from \in Int /\ period[s].to \in Int
         /\ period[s].seen \subseteq committed /\ i \in 1..10
<1>1. counted[s] \in Seq(SUBSET Orders) /\ Len(counted[s]) \in Nat /\ Len(counted[s]) <= 10
  BY Parts DEF TypeOK, AskerOK
<1>2. counted[s] # <<>>
  BY <1>1
<1>3. period[s] \in [from : Int, to : Int, seen : SUBSET Orders] /\ period[s].seen \subseteq committed
  BY <1>2 DEF AskerOK
<1> QED
  BY <1>1, <1>3

\* What InWindow says of an order does not change any more.
LEMMA WindowStays ==
  ASSUME TypeOK, [Next]_vars, NEW o \in Orders, first[o] # None
  PROVE  first'[o] = first[o] /\ first[o] \in Int
  BY OrderSteps DEF TypeOK, Moments

LEMMA CountFrame ==
  ASSUME TypeOK, NEW s \in Askers, CountAt(s), AskSteps(s)
  PROVE  first' = first /\ committed' = committed /\ gone' = gone /\ period' = period
  BY AskerMoves DEF CountAt

LEMMA InsideNext == ASSUME TypeOK, AskerOK, InsideOK, [Next]_vars PROVE InsideOK'
<1> SUFFICES ASSUME NEW s \in Askers, NEW i \in 1..Len(counted'[s]), NEW o \in counted'[s][i]
             PROVE  InWindow(o, Window(period[s], i))'
  BY DEF InsideOK, Window, InWindow
<1>1. CASE AskSummaryAt(s)
  BY <1>1 DEF AskSummaryAt, AskerOK
<1>2. ASSUME i \in 1..Len(counted[s]), o \in counted[s][i], period'[s] = period[s]
      PROVE  InWindow(o, Window(period[s], i))'
  <2>1. InWindow(o, Window(period[s], i))
    BY <1>2 DEF InsideOK
  <2>2. o \in Orders
    BY <1>2 DEF TypeOK
  <2> QED
    BY <1>2, <2>1, <2>2, WindowStays DEF InWindow, Window
<1>3. CASE CountAt(s) /\ AskSteps(s)
  <2>1. CASE i = Len(counted[s]) + 1
    BY <1>3, <2>1, Counting, CountFrame DEF InWindow, Window
  <2>2. CASE i # Len(counted[s]) + 1
    <3>1. i \in 1..Len(counted[s]) /\ counted'[s][i] = counted[s][i]
      BY <1>3, <2>2, Counting
    <3> QED
      BY <1>2, <1>3, <3>1, CountFrame
  <2> QED
    BY <2>1, <2>2
<1> QED
  BY <1>1, <1>2, <1>3, AskerCases

LEMMA MissedNext == ASSUME TypeOK, AskerOK, MissedOK, [Next]_vars PROVE MissedOK'
<1> SUFFICES ASSUME NEW s \in Askers, NEW i \in 1..Len(counted'[s]), Section(i) # "branch", i \notin cut'[s],
                    NEW o \in committed', o \notin gone',
                    InWindow(o, Window(period[s], i))', o \notin counted'[s][i]
             PROVE  o \notin period'[s].seen
  BY DEF MissedOK, Window, InWindow, Section
<1>1. CASE AskSummaryAt(s)
  BY <1>1 DEF AskSummaryAt, AskerOK
<1>2. ASSUME i \in 1..Len(counted[s]), counted'[s][i] = counted[s][i], period'[s] = period[s], cut[s] \subseteq cut'[s]
      PROVE  o \notin period'[s].seen
  <2>1. o \notin gone /\ i \notin cut[s]
    BY <1>2, OrderSteps
  <2>2. CASE o \in committed
    <3>1. first'[o] = first[o]
      BY <2>2, WindowStays DEF TypeOK
    <3>2. InWindow(o, Window(period[s], i))
      BY <1>2, <3>1 DEF InWindow, Window
    <3> QED
      BY <1>2, <2>1, <2>2, <3>2 DEF MissedOK
  <2>3. CASE o \notin committed
    BY <1>2, <2>3, Counted
  <2> QED
    BY <2>2, <2>3
<1>3. CASE CountAt(s) /\ AskSteps(s)
  <2>1. CASE i = Len(counted[s]) + 1
    <3>1. InWindow(o, Window(period[s], i)) /\ o \in committed \ gone
      BY <1>3, CountFrame DEF InWindow, Window
    <3>2. o \in counted'[s][i]
      BY <1>3, <2>1, <3>1, Counting
    <3> QED
      BY <3>2
  <2>2. CASE i # Len(counted[s]) + 1
    <3>1. i \in 1..Len(counted[s]) /\ counted'[s][i] = counted[s][i] /\ cut[s] \subseteq cut'[s]
      BY <1>3, <2>2, Counting
    <3> QED
      BY <1>2, <1>3, <3>1, CountFrame
  <2> QED
    BY <2>1, <2>2
<1> QED
  BY <1>1, <1>2, <1>3, AskerCases

\* The two periods have no moment in common.
LEMMA Apart ==
  ASSUME NEW s \in Askers, NEW i \in 1..5, NEW j \in 6..10, NEW o, InWindow(o, Window(period[s], i)),
         period[s].from \in Int, period[s].to \in Int, first[o] # None => first[o] \in Int
  PROVE  ~InWindow(o, Window(period[s], j))
<1>1. period[s].from <= first[o] /\ first[o] \in Int
  BY Parts DEF InWindow, Window
<1>2. InWindow(o, Window(period[s], j)) => first[o] < period[s].from
  BY Parts DEF InWindow, Window
<1> QED
  BY <1>1, <1>2

\* A period is over by its end, and so is the one before it.
LEMMA Before ==
  ASSUME NEW s \in Askers, NEW i \in 1..10, NEW o, InWindow(o, Window(period[s], i)),
         period[s].from \in Int, period[s].to \in Int, first[o] # None => first[o] \in Int
  PROVE  first[o] < period[s].to
<1>1. first[o] \in Int
  BY DEF InWindow
<1>2. CASE i <= 5
  BY <1>2, Parts DEF InWindow, Window
<1>3. CASE ~(i <= 5)
  <2>1. period[s].from - (period[s].to - period[s].from) <= first[o] /\ first[o] < period[s].from
    BY <1>3, Parts DEF InWindow, Window
  <2> QED
    BY <1>1, <2>1
<1> QED
  BY <1>2, <1>3

LEMMA AddsUpNext ==
  ASSUME TypeOK, AskerOK, InsideOK, MissedOK, SummaryAddsUp, [Next]_vars PROVE SummaryAddsUp'
<1> SUFFICES ASSUME NEW s \in Askers, NEW i \in 1..Len(counted'[s]), NEW j \in 1..Len(counted'[s]), i < j
             PROVE  IF i <= Len(Sections) /\ Len(Sections) < j
                      THEN counted'[s][i] \cap counted'[s][j] = {}
                      ELSE \A o \in counted'[s][j] \ counted'[s][i] :
                             /\ first'[o] < period'[s].to
                             /\ Section(i) = "branch" \/ i \in cut'[s] \/ o \notin period'[s].seen
  BY DEF SummaryAddsUp, Section
<1> DEFINE Goal == IF i <= Len(Sections) /\ Len(Sections) < j
                      THEN counted'[s][i] \cap counted'[s][j] = {}
                      ELSE \A o \in counted'[s][j] \ counted'[s][i] :
                             /\ first'[o] < period'[s].to
                             /\ Section(i) = "branch" \/ i \in cut'[s] \/ o \notin period'[s].seen
<1>1. ASSUME AskSummaryAt(s) PROVE Goal
  BY <1>1 DEF AskSummaryAt, AskerOK
<1>2. ASSUME i \in 1..Len(counted[s]), j \in 1..Len(counted[s]), counted'[s][i] = counted[s][i],
             counted'[s][j] = counted[s][j], period'[s] = period[s], cut[s] \subseteq cut'[s]
      PROVE  Goal
  <2>1. IF i <= Len(Sections) /\ Len(Sections) < j
          THEN counted[s][i] \cap counted[s][j] = {}
          ELSE \A o \in counted[s][j] \ counted[s][i] :
                 /\ first[o] < period[s].to
                 /\ Section(i) = "branch" \/ i \in cut[s] \/ o \notin period[s].seen
    BY <1>2 DEF SummaryAddsUp
  <2>2. ASSUME NEW o \in counted[s][j] PROVE first'[o] = first[o]
    <3>1. o \in Orders
      BY <1>2, <2>2 DEF TypeOK
    <3>2. first[o] # None
      BY <1>2, <2>2 DEF InsideOK, InWindow
    <3> QED
      BY <3>1, <3>2, WindowStays
  <2> QED
    BY <1>2, <2>1, <2>2
<1>3. ASSUME CountAt(s), AskSteps(s), j = Len(counted[s]) + 1 PROVE Goal
  <2>1. /\ j \in 1..10 /\ i \in 1..Len(counted[s]) /\ counted'[s][i] = counted[s][i] /\ i \in 1..10
        /\ period'[s] = period[s] /\ first' = first /\ cut[s] \subseteq cut'[s]
    BY <1>3, Counting, CountFrame
  <2>2. ASSUME NEW o \in counted'[s][j]
        PROVE  o \in committed \ gone /\ InWindow(o, Window(period[s], j)) /\ (first[o] # None => first[o] \in Int)
    <3>1. o \in committed \ gone /\ InWindow(o, Window(period[s], j))
      BY <1>3, <2>2, Counting
    <3> QED
      BY <3>1 DEF TypeOK, Moments
  <2>3. period[s].from \in Int /\ period[s].to \in Int
    BY <2>1, Counted
  <2>4. CASE i <= 5 /\ 5 < j
    <3>1. ASSUME NEW o \in counted'[s][j] PROVE o \notin counted[s][i]
      <4>1. ~InWindow(o, Window(period[s], i))
        BY <2>1, <2>2, <2>3, <2>4, Apart
      <4> QED
        BY <2>1, <4>1 DEF InsideOK
    <3>2. i <= Len(Sections) /\ Len(Sections) < j
      BY <2>4, Parts
    <3> QED
      BY <2>1, <3>1, <3>2
  <2>5. CASE ~(i <= 5 /\ 5 < j)
    <3>1. ~(i <= Len(Sections) /\ Len(Sections) < j)
      BY <2>5, Parts
    <3>2. Window(period[s], i) = Window(period[s], j)
      BY <2>1, <3>1 DEF Window, Sections
    <3>3. ASSUME NEW o \in counted'[s][j], o \notin counted[s][i]
          PROVE  /\ first[o] < period[s].to
                 /\ Section(i) = "branch" \/ i \in cut[s] \/ o \notin period[s].seen
      <4>1. o \in committed \ gone /\ InWindow(o, Window(period[s], i)) /\ (first[o] # None => first[o] \in Int)
        BY <2>2, <3>2, <3>3
      <4>2. Section(i) = "branch" \/ i \in cut[s] \/ o \notin period[s].seen
        BY <2>1, <3>3, <4>1 DEF MissedOK
      <4>3. first[o] < period[s].to
        BY <2>1, <2>3, <4>1, Before
      <4> QED
        BY <4>2, <4>3
    <3> QED
      BY <2>1, <3>1, <3>3
  <2> QED
    BY <2>4, <2>5
<1>4. ASSUME CountAt(s), AskSteps(s), j # Len(counted[s]) + 1 PROVE Goal
  <2>1. /\ i \in 1..Len(counted[s]) /\ j \in 1..Len(counted[s])
        /\ counted'[s][i] = counted[s][i] /\ counted'[s][j] = counted[s][j] /\ cut[s] \subseteq cut'[s]
    BY <1>4, Counting
  <2>2. period'[s] = period[s]
    BY <1>4, CountFrame
  <2> QED
    BY <1>2, <2>1, <2>2
<1> HIDE DEF Goal
<1>5. Goal
  BY <1>1, <1>2, <1>3, <1>4, AskerCases
<1> QED
  BY <1>5 DEF Goal

-----------------------------------------------------------------------------
(* The invariant holds *)

LEMMA Start == ASSUME Init PROVE IInv
<1>1. /\ reports = {} /\ files = [n \in Names |-> None] /\ pc = [q \in Requests |-> "idle"]
      /\ got = [q \in Readers |-> None] /\ counted = [q \in Askers |-> <<>>]
  BY DEF Init
<1>2. TypeOK
  <2>1. -2 * Span .. 0 \subseteq Moments /\ 0 \in Moments
    BY DEF Moments
  <2>2. /\ first \in [Orders -> {None} \cup Moments] /\ now \in Moments
        /\ gone \subseteq committed /\ committed \subseteq {o \in Orders : first[o] # None}
    BY <2>1 DEF Init
  <2>3. counted \in [Askers -> Seq(SUBSET Orders)] /\ cut \in [Askers -> SUBSET (1 .. 2 * Len(Sections))]
    BY <1>1 DEF Init
  <2>4. log \subseteq Readers \X reports /\ runs \subseteq Runs /\ reports \subseteq Writers /\ second \in Seconds
    BY DEF Init
  <2>5. files \in [Names -> {None} \cup SUBSET Writers] /\ got \in [Readers -> {None} \cup SUBSET Writers]
    BY <1>1
  <2>6. /\ pc \in [Requests -> {"idle", "read", "open", "write", "insert", "log", "serve",
                                "served", "count", "end"}]
        /\ name \in [Writers \cup Readers -> {None} \cup (Runs \X (Seconds \cup {None})) \cup Writers]
    BY DEF Init
  <2>7. period \in [Askers -> {None} \cup [from : Int, to : Int, seen : SUBSET Orders]] /\ mishaps \in 0..MaxMishaps
    BY DEF Init
  <2> QED
    BY <2>2, <2>3, <2>4, <2>5, <2>6, <2>7 DEF TypeOK
<1>3. WriterOK /\ ReaderOK
  BY <1>1 DEF WriterOK, ReaderOK, Requests
<1>4. FileOK /\ DownloadIsTheReport
  BY <1>1 DEF FileOK, DownloadIsTheReport, Sure, Requests
<1>5. \A s \in Askers : pc[s] = "idle" /\ counted[s] = <<>> /\ Len(counted[s]) = 0
  BY <1>1 DEF Requests
<1>6. AskerOK
  BY <1>5, Parts DEF AskerOK
<1>7. InsideOK /\ MissedOK /\ SummaryAddsUp
  BY <1>5 DEF InsideOK, MissedOK, SummaryAddsUp
<1> QED
  BY <1>2, <1>3, <1>4, <1>6, <1>7 DEF IInv

LEMMA Invariance == ASSUME IInv, [Next]_vars PROVE IInv'
  BY TypeNext, WriterNext, ReaderNext, FileNext, DownloadNext, AskerNext, InsideNext, MissedNext, AddsUpNext
     DEF IInv

LEMMA Inductive == Spec => []IInv
  BY Start, Invariance, PTL DEF Spec

-----------------------------------------------------------------------------
(* The theorems *)

\* Every variable has its type, and a download is logged for a report whose row is there:
\* the ON DELETE CASCADE of report_downloads.
THEOREM TypeCorrect == Spec => []TypeOK
<1>1. IInv => TypeOK
  BY DEF IInv
<1> QED
  BY <1>1, Inductive, PTL

\* A report in the table has a file, its own or one it shares with a POST for the same run
\* within the same second: HandleRunReportCreate writes the file before the row.
THEOREM ReportsHaveFiles == Spec => []RowHasItsFile
<1>1. IInv => RowHasItsFile
  BY DEF IInv, TypeOK, FileOK, Sure, Shared, RowHasItsFile
<1> QED
  BY <1>1, Inductive, PTL

\* A download sends the report that was asked for, although the row may go and the file be
\* written again between GetReport and ServeFile.
THEOREM DownloadsAreReports == Spec => []DownloadIsTheReport
<1>1. IInv => DownloadIsTheReport
  BY DEF IInv
<1> QED
  BY <1>1, Inductive, PTL

\* However orders are inserted, committed and deleted between the ten statements of a summary,
\* and whichever of its parts are cut short, no order is in both periods, and what was in the
\* table when it was asked for and is in one part is in every whole one before it.
THEOREM SummariesAddUp == Spec => []SummaryAddsUp
<1>1. IInv => SummaryAddsUp
  BY DEF IInv
<1> QED
  BY <1>1, Inductive, PTL
=============================================================================
