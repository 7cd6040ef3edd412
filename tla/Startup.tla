------------------------------- MODULE Startup -------------------------------
(***************************************************************************)
(* main from its start to its exit: the database server (embedded or       *)
(* external), Connect, Migrate, serving, and the deferred calls at the     *)
(* end.  A process that dies leaves two things behind: an embedded         *)
(* PostgreSQL, which keeps the port and makes the next start fail until    *)
(* somebody stops it, and a COMMIT it had sent.                            *)
(*                                                                         *)
(* A migration is a number, its place among the sorted file names; what    *)
(* its SQL does is one entry of effects.  One process at a time.           *)
(***************************************************************************)
EXTENDS MainPhase, Sequences

CONSTANT Count        \* number of migrations embedded in the binary

ASSUME CountAssumption == Count \in Nat

VARIABLES
  external,   \* JMW_DATABASE_URL is set
  pg,         \* the database server runs
  rows,       \* schema_migrations
  effects,    \* the migrations whose SQL was committed, in the order of the commits
  at,         \* the migration Migrate is at
  tx,         \* its transaction: none, begun, or recorded (the row is inserted too)
  ghost       \* the migration whose COMMIT a dead process had sent, or 0

bootVars == <<phase, external, pg, rows, effects, at, tx, ghost>>
database == <<external, pg, rows, effects, ghost>>
Names == 1..Count

BootInit ==
  /\ phase = "off" /\ external \in BOOLEAN /\ pg = external
  /\ rows = {} /\ effects = <<>>
  /\ at = 0 /\ tx = "none" /\ ghost = 0

\* os.Exit(1), a signal that kills: no deferred call runs, PostgreSQL goes on.
Die == phase' = "off" /\ at' = 0 /\ tx' = "none"

\* The embedded server starts only on a free port.
StartDatabase ==
  /\ phase = "off"
  /\ external \/ ~pg
  /\ phase' = "connect" /\ pg' = TRUE
  /\ UNCHANGED <<external, rows, effects, at, tx, ghost, mishaps>>

Connect ==
  /\ phase = "connect"
  /\ phase' = "migrate" /\ at' = 1
  /\ UNCHANGED <<database, tx, mishaps>>

Skip ==
  /\ phase = "migrate" /\ tx = "none" /\ at \in rows
  /\ at' = at + 1
  /\ UNCHANGED <<phase, database, tx, mishaps>>

\* Variant: schema_migrations is not asked.
BeginAlways ==
  /\ phase = "migrate" /\ tx = "none" /\ at \in Names
  /\ tx' = "begun"
  /\ UNCHANGED <<phase, database, at, mishaps>>

\* The migration is not in schema_migrations: its SQL runs in a transaction.
Begin ==
  /\ phase = "migrate" /\ tx = "none" /\ at \in Names \ rows
  /\ tx' = "begun"
  /\ UNCHANGED <<phase, database, at, mishaps>>

\* Variant: the row is inserted with ON CONFLICT DO NOTHING.
RecordAnyway ==
  /\ phase = "migrate" /\ tx = "begun"
  /\ tx' = "recorded"
  /\ UNCHANGED <<phase, database, at, mishaps>>

\* The insert waits for another transaction that inserted the same name.
Record ==
  /\ phase = "migrate" /\ tx = "begun"
  /\ at \notin rows /\ ghost # at
  /\ tx' = "recorded"
  /\ UNCHANGED <<phase, database, at, mishaps>>

\* The primary key refuses a name that is there: rollback, exit.
RecordRefused ==
  /\ phase = "migrate" /\ tx = "begun" /\ at \in rows
  /\ Die
  /\ UNCHANGED <<database, mishaps>>

Apply(n) == rows' = rows \cup {n} /\ effects' = Append(effects, n)

Commit ==
  /\ phase = "migrate" /\ tx = "recorded"
  /\ Apply(at)
  /\ at' = at + 1 /\ tx' = "none"
  /\ UNCHANGED <<phase, external, pg, ghost, mishaps>>

Serve ==
  /\ phase = "migrate" /\ tx = "none" /\ at > Count
  /\ phase' = "serving" /\ at' = 0
  /\ UNCHANGED <<database, tx, mishaps>>

\* A signal, or a listener that fails: Shutdown, at most 5 s.
Stop ==
  /\ phase = "serving"
  /\ Mishap
  /\ phase' = "closing"
  /\ UNCHANGED <<database, at, tx>>

\* main returns: the pool is closed, then the embedded server stopped.
Return ==
  /\ phase = "closing"
  /\ Die
  /\ pg' = external
  /\ UNCHANGED <<external, rows, effects, ghost, mishaps>>

\* A call of the start fails, a signal cancels it, or the process is killed.  What
\* was not committed is rolled back; a COMMIT on its way is not lost for that.
Fail ==
  /\ phase # "off"
  /\ Mishap
  /\ Die
  /\ ghost' \in IF tx = "recorded" THEN {0, at} ELSE {ghost}
  /\ UNCHANGED <<external, pg, rows, effects>>

GhostCommits ==
  /\ ghost # 0 /\ pg
  /\ Apply(ghost)
  /\ ghost' = 0
  /\ UNCHANGED <<phase, external, pg, at, tx, mishaps>>

\* Somebody stops the server that a process left behind.
StopOrphan ==
  /\ phase = "off" /\ pg /\ ~external
  /\ pg' = FALSE /\ ghost' = 0
  /\ UNCHANGED <<phase, external, rows, effects, at, tx, mishaps>>

BootNext ==
  \/ StartDatabase \/ Connect \/ Skip \/ Begin \/ Record \/ RecordRefused \/ Commit
  \/ Serve \/ Stop \/ Return \/ Fail \/ GhostCommits \/ StopOrphan

\* Others spend the budget of mishaps too.
BootSpec == BootInit /\ mishaps = 0 /\ [][BootNext]_bootVars

\* The user starts a process that is off, and frees the port first if need be.
BootFairness ==
  WF_bootVars(StartDatabase \/ StopOrphan \/ Connect \/ Skip \/ Begin \/ Record
              \/ RecordRefused \/ Commit \/ Serve \/ Return \/ GhostCommits)

-----------------------------------------------------------------------------
(* Properties *)

\* Ranges of the variables; only Migrate has a transaction.
BootTypeOK ==
  /\ phase \in Phases /\ mishaps \in 0..MaxMishaps
  /\ external \in BOOLEAN /\ pg \in BOOLEAN
  /\ rows \subseteq Names /\ effects \in Seq(Names)
  /\ at \in 0..Count + 1 /\ ghost \in 0..Count
  /\ tx \in {"none", "begun", "recorded"}
  /\ tx # "none" => phase = "migrate" /\ at \in Names

\* Each migration's SQL is committed once and after those before it, and
\* schema_migrations says exactly which: whatever process died in the middle of
\* one, and also if its COMMIT arrives when the next process is at the same one.  The
\* API and the collector run on the whole schema only.
SchemaIsPrefix ==
  /\ \A i \in 1..Len(effects) : effects[i] = i
  /\ rows = 1..Len(effects)
  /\ phase \in {"serving", "closing"} => rows = Names

\* The schema stays as it is while a process serves: no COMMIT of one that died before
\* arrives under the API and the collector of the next.
SchemaRests ==
  [][(phase \in {"serving", "closing"}) => UNCHANGED <<rows, effects>>]_bootVars

\* After the last crash, signal or refused migration the process comes to serve and
\* keeps serving, provided the server it left behind is stopped.
ServesAgain == <>[](phase = "serving")
=============================================================================
