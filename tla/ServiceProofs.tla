----------------------------- MODULE ServiceProofs -----------------------------
(***************************************************************************)
(* The service is correct for any number of migrations, emitters, pages,   *)
(* connections and mishaps: proofs.                                        *)
(***************************************************************************)
EXTENDS Service, TLAPS

USE MishapAssumption, CountAssumption, FeedAssumption

-----------------------------------------------------------------------------
(* The migrations *)

\* Migrate comes to a migration when all before it are there; what is recorded in an
\* open transaction, or in the COMMIT of a dead process, is the next one.
MigrateOK ==
  /\ phase = "migrate" => at >= 1 /\ \A n \in Names : n < at => n \in rows
  /\ tx = "recorded" => at \notin rows /\ ghost # at
  /\ ghost # 0 => ghost = Len(effects) + 1

BootInv == BootTypeOK /\ SchemaIsPrefix /\ MigrateOK

LEMMA InitBootInv == Init => BootInv
BY DEF Init, BootInit, BootInv, BootTypeOK, SchemaIsPrefix, MigrateOK, Phases, Names

\* What was committed is not more than there is.
LEMMA PrefixLength ==
  ASSUME BootInv
  PROVE  Len(effects) \in 0..Count
<1>1. effects \in Seq(Names) /\ rows = 1..Len(effects) /\ rows \subseteq Names
  BY DEF BootInv, BootTypeOK, SchemaIsPrefix
<1>2. Len(effects) \in Nat
  BY <1>1
<1>3. CASE Len(effects) = 0
  BY <1>3
<1>4. CASE Len(effects) # 0
  <2>1. Len(effects) \in 1..Len(effects)
    BY <1>2, <1>4
  <2>2. QED
    BY <1>1, <2>1 DEF Names
<1>5. QED
  BY <1>3, <1>4

LEMMA ApplyNext ==
  ASSUME BootInv, NEW n \in Names, n = Len(effects) + 1, Apply(n)
  PROVE  /\ rows' \subseteq Names /\ effects' \in Seq(Names)
         /\ Len(effects') = n /\ rows' = 1..n
         /\ \A i \in 1..Len(effects') : effects'[i] = i
<1>1. /\ effects \in Seq(Names) /\ rows = 1..Len(effects) /\ rows \subseteq Names
      /\ \A i \in 1..Len(effects) : effects[i] = i
  BY DEF BootInv, BootTypeOK, SchemaIsPrefix
<1>2. effects' = Append(effects, n) /\ rows' = rows \cup {n}
  BY DEF Apply
<1>3. effects' \in Seq(Names) /\ Len(effects') = n
  BY <1>1, <1>2
<1>4. rows' = 1..n
  BY <1>1, <1>2
<1>5. \A i \in 1..Len(effects') : effects'[i] = i
  BY <1>1, <1>2, <1>3
<1>6. QED
  BY <1>1, <1>2, <1>3, <1>4, <1>5

\* A migration that is recorded is the next one, and no other COMMIT is on its way.
LEMMA RecordedIsNext ==
  ASSUME BootInv, tx = "recorded"
  PROVE  at \in Names /\ at = Len(effects) + 1 /\ ghost = 0
<1>1. /\ at \in Names /\ at \notin rows /\ ghost # at /\ phase = "migrate"
      /\ ghost # 0 => ghost = Len(effects) + 1
      /\ \A n \in Names : n < at => n \in rows
  BY DEF BootInv, BootTypeOK, MigrateOK
<1>2. rows = 1..Len(effects)
  BY DEF BootInv, SchemaIsPrefix
<1>3. at = Len(effects) + 1
  BY <1>1, <1>2, PrefixLength DEF Names
<1>4. QED
  BY <1>1, <1>3

LEMMA NextBootInv == BootInv /\ BootNext => BootInv'
<1> SUFFICES ASSUME BootInv, BootNext PROVE BootInv'
  OBVIOUS
<1> USE DEF Names, Phases
<1>p. /\ BootTypeOK /\ SchemaIsPrefix /\ MigrateOK
      /\ Len(effects) \in 0..Count
  BY PrefixLength DEF BootInv
<1>1. CASE StartDatabase
  BY <1>1, <1>p DEF StartDatabase, BootInv, BootTypeOK, SchemaIsPrefix, MigrateOK
<1>2. CASE Connect
  BY <1>2, <1>p DEF Connect, BootInv, BootTypeOK, SchemaIsPrefix, MigrateOK, database
<1>3. CASE Skip
  BY <1>3, <1>p DEF Skip, BootInv, BootTypeOK, SchemaIsPrefix, MigrateOK, database
<1>4. CASE Begin
  BY <1>4, <1>p DEF Begin, BootInv, BootTypeOK, SchemaIsPrefix, MigrateOK, database
<1>5. CASE Record
  BY <1>5, <1>p DEF Record, BootInv, BootTypeOK, SchemaIsPrefix, MigrateOK, database
<1>6. CASE RecordRefused
  BY <1>6, <1>p DEF RecordRefused, Die, BootInv, BootTypeOK, SchemaIsPrefix, MigrateOK, database
<1>7. CASE Commit
  <2>1. at \in Names /\ at = Len(effects) + 1 /\ ghost = 0
    BY <1>7, RecordedIsNext DEF Commit
  <2>2. /\ rows' \subseteq Names /\ effects' \in Seq(Names)
        /\ Len(effects') = at /\ rows' = 1..at
        /\ \A i \in 1..Len(effects') : effects'[i] = i
    BY <1>7, <2>1, ApplyNext DEF Commit
  <2>3. phase = "migrate" /\ at' = at + 1 /\ tx' = "none" /\ UNCHANGED <<phase, external, pg, ghost, mishaps>>
    BY <1>7 DEF Commit
  <2>4. BootTypeOK'
    BY <1>p, <2>1, <2>2, <2>3 DEF BootTypeOK
  <2>5. SchemaIsPrefix'
    BY <2>2, <2>3 DEF SchemaIsPrefix
  <2>6. MigrateOK'
    BY <2>1, <2>2, <2>3 DEF MigrateOK
  <2>7. QED
    BY <2>4, <2>5, <2>6 DEF BootInv
<1>8. CASE Serve
  BY <1>8, <1>p DEF Serve, BootInv, BootTypeOK, SchemaIsPrefix, MigrateOK, database
<1>9. CASE Stop
  BY <1>9, <1>p DEF Stop, Mishap, BootInv, BootTypeOK, SchemaIsPrefix, MigrateOK, database
<1>10. CASE Return
  BY <1>10, <1>p DEF Return, Die, BootInv, BootTypeOK, SchemaIsPrefix, MigrateOK
<1>11. CASE Fail
  <2>1. tx = "recorded" => at \in Names /\ at = Len(effects) + 1
    BY RecordedIsNext
  <2>2. QED
    BY <1>11, <1>p, <2>1 DEF Fail, Die, Mishap, BootInv, BootTypeOK, SchemaIsPrefix, MigrateOK
<1>12. CASE GhostCommits
  <2>1. ghost \in Names /\ ghost = Len(effects) + 1
    BY <1>12, <1>p DEF GhostCommits, BootTypeOK, MigrateOK
  <2>2. tx # "recorded"
    BY <2>1, RecordedIsNext
  <2>3. /\ rows' \subseteq Names /\ effects' \in Seq(Names)
        /\ Len(effects') = ghost /\ rows' = 1..ghost
        /\ \A i \in 1..Len(effects') : effects'[i] = i
    BY <1>12, <2>1, ApplyNext DEF GhostCommits
  <2>4. ghost' = 0 /\ UNCHANGED <<phase, external, pg, at, tx, mishaps>> /\ rows \subseteq rows'
    BY <1>12 DEF GhostCommits, Apply
  <2>5. BootTypeOK'
    BY <1>p, <2>3, <2>4 DEF BootTypeOK
  <2>6. SchemaIsPrefix'
    BY <1>p, <2>3, <2>4 DEF SchemaIsPrefix
  <2>7. MigrateOK'
    BY <1>p, <2>2, <2>4 DEF MigrateOK
  <2>8. QED
    BY <2>5, <2>6, <2>7 DEF BootInv
<1>13. CASE StopOrphan
  <2>1. /\ phase = "off" /\ phase' = phase /\ mishaps' = mishaps /\ rows' = rows
        /\ effects' = effects /\ at' = at /\ ghost' = 0 /\ tx' = tx
    BY <1>13 DEF StopOrphan
  <2>2. pg' \in BOOLEAN /\ external' \in BOOLEAN
    <3>1. pg' = FALSE /\ external' = external
      BY <1>13 DEF StopOrphan
    <3>2. external \in BOOLEAN
      BY <1>p, Zenon DEF BootTypeOK
    <3>3. QED
      BY <3>1, <3>2, Zenon
  <2>3. BootTypeOK'
    BY <1>p, <2>1, <2>2 DEF BootTypeOK
  <2>4. SchemaIsPrefix'
    BY <1>p, <2>1 DEF SchemaIsPrefix
  <2>5. MigrateOK'
    <3>1. tx = "none"
      BY <1>p, <2>1 DEF BootTypeOK
    <3>2. QED
      BY <2>1, <3>1 DEF MigrateOK
  <2>6. QED
    BY <2>3, <2>4, <2>5 DEF BootInv
<1>14. QED
  BY <1>1, <1>2, <1>3, <1>4, <1>5, <1>6, <1>7, <1>8, <1>9, <1>10, <1>11, <1>12, <1>13 DEF BootNext

LEMMA FeedMishaps == FeedStep => mishaps' = mishaps \/ Mishap
BY DEF FeedStep, Emit, InsertEvent, Notify, Unlock, Write, WriteFails, Register, ReadLoopEnds, Accept, LoseLink, SeeClose, OnMessage, ListEvents, ShowAnswer

-----------------------------------------------------------------------------
(* The hub *)

\* Somebody holds the lock while there are clients to write to.
LockOK == todo # {} => Locked

\* A connection that is not in the hub yet has had nothing; an open one is there.
FreshOK ==
  /\ \A p \in Pages : link[p] => cur[p] >= 1
  /\ \A c \in Conns :
       /\ c[2] > cur[c[1]] => c \notin accepted
       /\ c \in accepted \/ c[2] > cur[c[1]] => wire[c] = <<>> /\ c \notin clients

\* An event is broadcast once.
OnceOK ==
  /\ \A i, j \in 1..Len(sent) : sent[i] = sent[j] => i = j
  /\ \A i \in 1..Len(sent) : sent[i] <= next
  /\ \A e \in Emitters : ev[e] <= next
  /\ \A e, f \in Emitters : ev[e] = ev[f] /\ ev[e] # 0 => e = f
  /\ \A e \in Emitters : pc[e] \in {"insert", "notify"} =>
       \A i \in 1..Len(sent) : sent[i] # ev[e]

\* A page that has read from a connection got all of that before the next one joined.
WindowsOK ==
  \A c, d \in Conns :
    /\ c[1] = d[1] /\ c[2] < d[2] /\ read[c] > 0
    /\ d \in clients \/ wire[d] # <<>>
    => start[c] + read[c] <= start[d]

\* FeedTypeOK in three parts.
ServerTypes ==
  /\ phase \in Phases /\ mishaps \in Nat
  /\ next \in 0..MaxEvents /\ table \in Seq(Events) /\ sent \in Seq(Events)
  /\ pc \in [Emitters -> {"idle", "insert", "notify", "write"}]
  /\ ev \in [Emitters -> 0..MaxEvents]
  /\ \A e \in Emitters : pc[e] = "idle" <=> ev[e] = 0
  /\ \A e, f \in Emitters : pc[e] = "write" /\ pc[f] = "write" => e = f

SocketTypes ==
  /\ accepted \subseteq Conns /\ todo \subseteq clients /\ clients \subseteq Conns
  /\ start \in [Conns -> Nat] /\ wire \in [Conns -> Seq(Events)] /\ read \in [Conns -> Nat]

PageTypes ==
  /\ cur \in [Pages -> 0..MaxConns] /\ link \in [Pages -> BOOLEAN]
  /\ get \in [Pages -> {"asked", "answered", "done"}]
  /\ answer \in [Pages -> Seq(Events)] /\ feed \in [Pages -> Seq(Events)]
  /\ early \in [Pages -> SUBSET Events]

FeedInv == FeedTypeOK /\ Stream /\ LockOK /\ FreshOK /\ OnceOK /\ WindowsOK

LEMMA TypesSplit == FeedTypeOK <=> ServerTypes /\ SocketTypes /\ PageTypes
BY DEF FeedTypeOK, ServerTypes, SocketTypes, PageTypes

LEMMA TypesSplitNext == FeedTypeOK' <=> ServerTypes' /\ SocketTypes' /\ PageTypes'
BY TypesSplit, PTL

LEMMA TrimSeq ==
  ASSUME NEW s \in Seq(Events), NEW x \in Events
  PROVE  /\ Trim(<<x>> \o s) \in Seq(Events)
         /\ Len(Trim(<<x>> \o s)) < Limit => Trim(<<x>> \o s) = <<x>> \o s /\ Len(s) < Limit
<1> DEFINE t == <<x>> \o s
<1>1. t \in Seq(Events) /\ Len(t) = Len(s) + 1
  OBVIOUS
<1>2. CASE Len(t) < Limit
  BY <1>1, <1>2 DEF Trim
<1>3. CASE Len(t) >= Limit
  <2>1. Trim(t) = SubSeq(t, 1, Limit)
    BY <1>1, <1>3 DEF Trim
  <2>2. Trim(t) \in Seq(Events) /\ Len(Trim(t)) = Limit
    BY <1>1, <1>3, <2>1
  <2>3. QED
    BY <2>2
<1>4. QED
  BY <1>1, <1>2, <1>3

LEMMA NewestSeq ==
  ASSUME NEW s \in Seq(Events)
  PROVE  Newest(s) \in Seq(Events)
<1> DEFINE n == IF Len(s) < Limit THEN Len(s) ELSE Limit
<1>1. n \in Nat /\ n <= Len(s)
  OBVIOUS
<1>2. \A i \in 1..n : s[Len(s) + 1 - i] \in Events
  BY <1>1
<1>3. QED
  BY <1>1, <1>2 DEF Newest

LEMMA HandledEvents ==
  ASSUME FeedInv, NEW p \in Pages
  PROVE  Handled(p) \subseteq Events
<1> SUFFICES ASSUME NEW x \in Handled(p) PROVE x \in Events
  OBVIOUS
<1>1. PICK k \in 1..MaxConns : \E i \in 1..read[<<p, k>>] : x = wire[<<p, k>>][i]
  BY DEF Handled
<1>2. <<p, k>> \in Conns
  BY DEF Conns
<1>3. SocketTypes /\ read[<<p, k>>] <= Len(wire[<<p, k>>])
  BY <1>2, TypesSplit DEF FeedInv, Stream
<1>4. QED
  BY <1>1, <1>2, <1>3 DEF SocketTypes

\* A page reads from a connection that it has.
LEMMA HasRead ==
  ASSUME FeedInv, NEW p \in Pages, link[p]
  PROVE  Last(p) \in Conns
<1>1. cur[p] \in 0..MaxConns /\ cur[p] >= 1
  BY TypesSplit DEF FeedInv, FreshOK, PageTypes
<1>2. QED
  BY <1>1 DEF Last, Conns

LEMMA ServerEmit == ASSUME FeedInv, NEW e \in Emitters, Emit(e) PROVE ServerTypes'
BY TypesSplit DEF FeedInv, ServerTypes, Emit, Goto, Mishap, Events, Locked, OnceOK

LEMMA ServerInsertEvent == ASSUME FeedInv, NEW e \in Emitters, InsertEvent(e) PROVE ServerTypes'
<1>1. ServerTypes /\ ev[e] \in Events
  BY TypesSplit DEF FeedInv, ServerTypes, InsertEvent, Goto, Events
<1>2. table' = table \/ table' = Append(table, ev[e])
  BY DEF InsertEvent
<1>3. table \in Seq(Events)
  BY <1>1 DEF ServerTypes
<1>4. table' \in Seq(Events)
  BY <1>1, <1>2, <1>3
<1>5. QED
  BY <1>1, <1>4 DEF InsertEvent, Goto, Mishap, ServerTypes

LEMMA ServerNotify == ASSUME FeedInv, NEW e \in Emitters, Notify(e) PROVE ServerTypes'
BY TypesSplit DEF FeedInv, ServerTypes, Notify, Goto, Mishap, Events, Locked, OnceOK

LEMMA ServerUnlock == ASSUME FeedInv, NEW e \in Emitters, Unlock(e) PROVE ServerTypes'
BY TypesSplit DEF FeedInv, ServerTypes, Unlock, Goto, Mishap, Events, Locked, OnceOK

LEMMA SocketsWrite == ASSUME FeedInv, NEW c \in Conns, Write(c) PROVE SocketTypes'
BY TypesSplit DEF FeedInv, ServerTypes, SocketTypes, Write, DropClient, Events, LockOK, Stream

LEMMA SocketsWriteFails == ASSUME FeedInv, NEW c \in Conns, WriteFails(c) PROVE SocketTypes'
BY TypesSplit DEF FeedInv, ServerTypes, SocketTypes, WriteFails, DropClient, Events, LockOK, Stream

LEMMA SocketsRegister == ASSUME FeedInv, NEW c \in Conns, Register(c) PROVE SocketTypes'
<1>1. SocketTypes /\ todo = {} /\ Len(sent) \in Nat
  BY TypesSplit DEF FeedInv, ServerTypes, SocketTypes, Register, LockOK
<1>2. QED
  BY <1>1 DEF SocketTypes, Register, server

LEMMA SocketsReadLoopEnds == ASSUME FeedInv, NEW c \in Conns, ReadLoopEnds(c) PROVE SocketTypes'
<1>1. SocketTypes /\ todo = {}
  BY TypesSplit DEF FeedInv, SocketTypes, ReadLoopEnds, LockOK
<1>2. QED
  BY <1>1 DEF SocketTypes, ReadLoopEnds, server

LEMMA SocketsAccept == ASSUME FeedInv, NEW p \in Pages, Accept(p) PROVE SocketTypes'
<1>1. SocketTypes /\ <<p, cur[p] + 1>> \in Conns
  BY TypesSplit DEF FeedInv, SocketTypes, PageTypes, Accept, Conns
<1>2. QED
  BY <1>1 DEF SocketTypes, Accept, server

LEMMA SocketsOnMessage == ASSUME FeedInv, NEW p \in Pages, OnMessage(p) PROVE SocketTypes'
<1>1. SocketTypes /\ Last(p) \in Conns
  BY TypesSplit, HasRead DEF FeedInv, OnMessage
<1>2. read' = [read EXCEPT ![Last(p)] = @ + 1] /\ UNCHANGED <<accepted, todo, clients, start, wire>>
  BY DEF OnMessage, server
<1>3. read' \in [Conns -> Nat]
  BY <1>1, <1>2 DEF SocketTypes
<1>4. QED
  BY <1>1, <1>2, <1>3 DEF SocketTypes

LEMMA PageAccept == ASSUME FeedInv, NEW p \in Pages, Accept(p) PROVE PageTypes'
BY TypesSplit DEF FeedInv, ServerTypes, SocketTypes, PageTypes, Accept, Last, Conns, Events

LEMMA PageLoseLink == ASSUME FeedInv, NEW p \in Pages, LoseLink(p) PROVE PageTypes'
BY TypesSplit DEF FeedInv, ServerTypes, SocketTypes, PageTypes, LoseLink, Last, Conns, Events

LEMMA PageSeeClose == ASSUME FeedInv, NEW p \in Pages, SeeClose(p) PROVE PageTypes'
BY TypesSplit DEF FeedInv, ServerTypes, SocketTypes, PageTypes, SeeClose, Last, Conns, Events

LEMMA PageOnMessage == ASSUME FeedInv, NEW p \in Pages, OnMessage(p) PROVE PageTypes'
<1> DEFINE c == Last(p)
<1>1. PageTypes /\ SocketTypes
  BY TypesSplit DEF FeedInv
<1>2. c \in Conns
  BY HasRead DEF OnMessage
<1>3. wire[c][read[c] + 1] \in Events
  BY <1>1, <1>2 DEF SocketTypes, OnMessage
<1>4. Trim(<<wire[c][read[c] + 1]>> \o feed[p]) \in Seq(Events)
  BY <1>1, <1>3, TrimSeq DEF PageTypes
<1>5. feed' \in [Pages -> Seq(Events)]
  BY <1>1, <1>4 DEF PageTypes, OnMessage
<1>6. QED
  BY <1>1, <1>5 DEF PageTypes, OnMessage

LEMMA PageListEvents == ASSUME FeedInv, NEW p \in Pages, ListEvents(p) PROVE PageTypes'
<1>1. PageTypes /\ ServerTypes
  BY TypesSplit DEF FeedInv
<1>2. Newest(table) \in Seq(Events)
  BY <1>1, NewestSeq DEF ServerTypes
<1>3. answer' \in [Pages -> Seq(Events)]
  BY <1>1, <1>2 DEF PageTypes, ListEvents
<1>4. QED
  BY <1>1, <1>3 DEF PageTypes, ListEvents

LEMMA PageShowAnswer == ASSUME FeedInv, NEW p \in Pages, ShowAnswer(p) PROVE PageTypes'
<1>1. PageTypes /\ Handled(p) \subseteq Events
  BY TypesSplit, HandledEvents DEF FeedInv
<1>2. feed' = [feed EXCEPT ![p] = answer[p]] \/ feed' = [feed EXCEPT ![p] = <<>>]
  BY DEF ShowAnswer
<1>3. answer[p] \in Seq(Events) /\ <<>> \in Seq(Events) /\ feed \in [Pages -> Seq(Events)]
  BY <1>1 DEF PageTypes
<1>4. feed' \in [Pages -> Seq(Events)]
  BY <1>2, <1>3
<1>5. early' \in [Pages -> SUBSET Events]
  BY <1>1 DEF PageTypes, ShowAnswer
<1>6. QED
  BY <1>1, <1>4, <1>5 DEF PageTypes, ShowAnswer

-----------------------------------------------------------------------------
(* The other invariants of the hub *)

Emission == \E e \in Emitters : Emit(e) \/ InsertEvent(e) \/ Notify(e) \/ Unlock(e)
HubStep == \E c \in Conns : Write(c) \/ WriteFails(c) \/ Register(c) \/ ReadLoopEnds(c)
PageStep ==
  \E p \in Pages :
    \/ Accept(p) \/ LoseLink(p) \/ SeeClose(p)
    \/ OnMessage(p) \/ ListEvents(p) \/ ShowAnswer(p)

\* Who leaves what alone.
LEMMA EmissionFrame == Emission => UNCHANGED <<accepted, clients, start, wire, read, cur, link, get, answer, feed, early>>
BY DEF Emission, Emit, InsertEvent, Notify, Unlock, sockets, page

LEMMA HubFrame == HubStep => UNCHANGED <<next, pc, ev, sent, read, cur, link, get, answer, feed, early>>
BY DEF HubStep, Write, WriteFails, Register, ReadLoopEnds, server, page

LEMMA PageFrame == PageStep => UNCHANGED <<next, pc, ev, sent, todo, clients, start, wire>>
BY DEF PageStep, Accept, LoseLink, SeeClose, OnMessage, ListEvents, ShowAnswer, server, sockets

LEMMA LockNext == ASSUME FeedInv, FeedStep PROVE LockOK'
<1>1. LockOK /\ ServerTypes
  BY TypesSplit DEF FeedInv
<1>2. ASSUME NEW e \in Emitters, Emit(e) PROVE LockOK'
  BY <1>1, <1>2 DEF Emit, Goto, LockOK, Locked, ServerTypes
<1>3. ASSUME NEW e \in Emitters, InsertEvent(e) PROVE LockOK'
  BY <1>1, <1>3 DEF InsertEvent, Goto, LockOK, Locked, ServerTypes
<1>4. ASSUME NEW e \in Emitters, Notify(e) PROVE LockOK'
  BY <1>1, <1>4 DEF Notify, Goto, LockOK, Locked, ServerTypes
<1>5. ASSUME NEW e \in Emitters, Unlock(e) PROVE LockOK'
  BY <1>1, <1>5 DEF Unlock, Goto, LockOK, Locked, ServerTypes
<1>6. ASSUME HubStep PROVE LockOK'
  <2>1. pc' = pc /\ todo' \subseteq todo
    BY <1>6, HubFrame DEF HubStep, Write, WriteFails, Register, ReadLoopEnds, server
  <2>2. QED
    BY <1>1, <2>1 DEF LockOK, Locked
<1>7. ASSUME PageStep PROVE LockOK'
  BY <1>1, <1>7, PageFrame DEF LockOK, Locked
<1>8. QED
  BY <1>2, <1>3, <1>4, <1>5, <1>6, <1>7 DEF FeedStep, HubStep, PageStep

LEMMA OnceNext == ASSUME FeedInv, FeedStep PROVE OnceOK'
<1>1. OnceOK /\ ServerTypes
  BY TypesSplit DEF FeedInv
<1>2. ASSUME NEW e \in Emitters, Emit(e) PROVE OnceOK'
  BY <1>1, <1>2 DEF Emit, Goto, OnceOK, ServerTypes, Events
<1>3. ASSUME NEW e \in Emitters, InsertEvent(e) PROVE OnceOK'
  BY <1>1, <1>3 DEF InsertEvent, Goto, OnceOK, ServerTypes
<1>4. ASSUME NEW e \in Emitters, Notify(e) PROVE OnceOK'
  <2>1. /\ sent' = Append(sent, ev[e]) /\ next' = next /\ ev' = ev
        /\ pc[e] = "notify" /\ pc' = [pc EXCEPT ![e] = "write"]
    BY <1>4 DEF Notify, Goto
  <2>2. sent \in Seq(Events) /\ Len(sent) \in Nat /\ Len(sent') = Len(sent) + 1
    BY <1>1, <2>1 DEF ServerTypes
  <2>3. /\ \A i \in 1..Len(sent) : sent'[i] = sent[i]
        /\ sent'[Len(sent) + 1] = ev[e]
    BY <2>1, <2>2
  <2>4. \A i \in 1..Len(sent) : sent[i] # ev[e]
    BY <1>1, <2>1 DEF OnceOK
  <2>5. \A i \in 1..Len(sent') : i \in 1..Len(sent) \/ i = Len(sent) + 1
    BY <2>2
  <2>6. \A i, j \in 1..Len(sent') : sent'[i] = sent'[j] => i = j
    BY <1>1, <2>3, <2>4, <2>5 DEF OnceOK
  <2>7. \A i \in 1..Len(sent') : sent'[i] <= next'
    BY <1>1, <2>1, <2>3, <2>5 DEF OnceOK
  <2>8. ASSUME NEW f \in Emitters, pc'[f] \in {"insert", "notify"}, NEW i \in 1..Len(sent')
        PROVE  sent'[i] # ev'[f]
    <3>1. f # e /\ pc[f] \in {"insert", "notify"} /\ ev[e] # 0
      BY <1>1, <2>1, <2>8 DEF ServerTypes
    <3>2. ev[f] # ev[e]
      BY <1>1, <3>1 DEF OnceOK
    <3>3. QED
      BY <1>1, <2>1, <2>3, <2>5, <3>1, <3>2 DEF OnceOK
  <2>9. QED
    BY <1>1, <2>1, <2>6, <2>7, <2>8 DEF OnceOK
<1>5. ASSUME NEW e \in Emitters, Unlock(e) PROVE OnceOK'
  BY <1>1, <1>5 DEF Unlock, Goto, OnceOK, ServerTypes
<1>6. ASSUME HubStep \/ PageStep PROVE OnceOK'
  BY <1>1, <1>6, HubFrame, PageFrame DEF OnceOK
<1>7. QED
  BY <1>2, <1>3, <1>4, <1>5, <1>6 DEF FeedStep, HubStep, PageStep

LEMMA FreshNext == ASSUME FeedInv, FeedStep PROVE FreshOK'
<1>1. FreshOK /\ SocketTypes /\ PageTypes
  BY TypesSplit DEF FeedInv
<1>2. ASSUME Emission PROVE FreshOK'
  BY <1>1, <1>2, EmissionFrame DEF FreshOK
<1>3. ASSUME NEW c \in Conns, Write(c) PROVE FreshOK'
  <2>1. c \in clients /\ c \notin accepted /\ ~(c[2] > cur[c[1]])
    BY <1>1, <1>3 DEF Write, FreshOK, SocketTypes
  <2>2. QED
    BY <1>1, <1>3, <2>1 DEF Write, FreshOK, SocketTypes, page
<1>4. ASSUME NEW c \in Conns, WriteFails(c) PROVE FreshOK'
  BY <1>1, <1>4 DEF WriteFails, DropClient, FreshOK, page
<1>5. ASSUME NEW c \in Conns, Register(c) PROVE FreshOK'
  BY <1>1, <1>5 DEF Register, FreshOK, page
<1>6. ASSUME NEW c \in Conns, ReadLoopEnds(c) PROVE FreshOK'
  BY <1>1, <1>6 DEF ReadLoopEnds, FreshOK, page
<1>7. ASSUME NEW p \in Pages, Accept(p) PROVE FreshOK'
  <2>1. /\ cur' = [cur EXCEPT ![p] = @ + 1] /\ link' = [link EXCEPT ![p] = TRUE]
        /\ accepted' = accepted \cup {<<p, cur[p] + 1>>} /\ UNCHANGED <<clients, wire>>
    BY <1>7 DEF Accept
  <2>2. cur \in [Pages -> 0..MaxConns]
    BY <1>1 DEF PageTypes
  <2>3. \A q \in Pages : link'[q] => cur'[q] >= 1
    BY <1>1, <2>1, <2>2 DEF FreshOK, PageTypes
  <2>4. ASSUME NEW c \in Conns
        PROVE  /\ c[2] > cur'[c[1]] => c \notin accepted'
               /\ c \in accepted' \/ c[2] > cur'[c[1]] => wire'[c] = <<>> /\ c \notin clients'
    <3>1. c[1] \in Pages /\ c[2] \in 1..MaxConns /\ c = <<c[1], c[2]>>
      BY DEF Conns
    <3>2. cur'[c[1]] >= cur[c[1]] /\ cur[c[1]] \in Nat /\ cur'[c[1]] \in Nat
      BY <2>1, <2>2, <3>1
    <3>3. c = <<p, cur[p] + 1>> => c[2] > cur[c[1]] /\ ~(c[2] > cur'[c[1]])
      BY <2>1, <2>2, <3>1
    <3>4. c \in accepted' <=> c \in accepted \/ c = <<p, cur[p] + 1>>
      BY <2>1
    <3>5. c[2] > cur'[c[1]] => c[2] > cur[c[1]]
      BY <3>1, <3>2
    <3>6. QED
      BY <1>1, <2>1, <3>3, <3>4, <3>5 DEF FreshOK
  <2>5. QED
    BY <2>3, <2>4 DEF FreshOK
<1>8. ASSUME NEW p \in Pages, LoseLink(p) \/ SeeClose(p) PROVE FreshOK'
  <2>1. link' = [link EXCEPT ![p] = FALSE] /\ UNCHANGED <<accepted, clients, wire, cur>>
    BY <1>8 DEF LoseLink, SeeClose, sockets
  <2>2. \A q \in Pages : link'[q] => link[q]
    BY <1>1, <2>1, Zenon DEF PageTypes
  <2>3. QED
    BY <1>1, <2>1, <2>2 DEF FreshOK
<1>9. ASSUME NEW p \in Pages, OnMessage(p) \/ ListEvents(p) \/ ShowAnswer(p) PROVE FreshOK'
  <2>1. UNCHANGED <<link, accepted, clients, wire, cur>>
    BY <1>9 DEF OnMessage, ListEvents, ShowAnswer, sockets
  <2>2. QED
    BY <1>1, <2>1 DEF FreshOK
<1>10. QED
  BY <1>2, <1>3, <1>4, <1>5, <1>6, <1>7, <1>8, <1>9 DEF FeedStep, Emission

LEMMA StreamNext == ASSUME FeedInv, FeedStep PROVE Stream'
<1>1. Stream /\ LockOK /\ FreshOK /\ SocketTypes /\ ServerTypes
  BY TypesSplit DEF FeedInv
<1>2. ASSUME Emission, UNCHANGED <<todo, sent>> PROVE Stream'
  BY <1>1, <1>2, EmissionFrame DEF Stream
<1>3. ASSUME NEW e \in Emitters, Notify(e) PROVE Stream'
  <2>1. /\ sent' = Append(sent, ev[e]) /\ todo' = clients /\ todo = {}
        /\ UNCHANGED <<clients, start, wire, read>>
    BY <1>1, <1>3 DEF Notify, LockOK, sockets
  <2>2. /\ Len(sent') = Len(sent) + 1 /\ Len(sent) \in Nat
        /\ \A i \in 1..Len(sent) : sent'[i] = sent[i]
    BY <1>1, <2>1 DEF ServerTypes
  <2>3. ASSUME NEW c \in Conns
        PROVE  /\ start[c] + Len(wire[c]) <= Len(sent')
               /\ \A i \in 1..Len(wire[c]) : wire[c][i] = sent'[start[c] + i]
               /\ c \in clients => start[c] + Len(wire[c]) + 1 = Len(sent')
               /\ read[c] <= Len(wire[c])
    <3>1. start[c] \in Nat /\ Len(wire[c]) \in Nat
      BY <1>1 DEF SocketTypes
    <3>2. /\ start[c] + Len(wire[c]) <= Len(sent)
          /\ \A i \in 1..Len(wire[c]) : wire[c][i] = sent[start[c] + i]
          /\ c \in clients => start[c] + Len(wire[c]) = Len(sent)
          /\ read[c] <= Len(wire[c])
      BY <1>1, <2>1, <3>1 DEF Stream
    <3>3. \A i \in 1..Len(wire[c]) : start[c] + i \in 1..Len(sent)
      BY <2>2, <3>1, <3>2
    <3>4. \A i \in 1..Len(wire[c]) : wire[c][i] = sent'[start[c] + i]
      BY <2>2, <3>2, <3>3
    <3>5. QED
      BY <2>2, <3>1, <3>2, <3>4
  <2>4. QED
    BY <2>1, <2>3 DEF Stream
<1>4. ASSUME NEW c \in Conns, Write(c) PROVE Stream'
  <2>1. /\ c \in todo /\ todo' = todo \ {c} /\ UNCHANGED <<sent, clients, start, read>>
        /\ wire' = [wire EXCEPT ![c] = Append(@, sent[Len(sent)])]
    BY <1>4 DEF Write
  <2>2. /\ start[c] \in Nat /\ Len(wire[c]) \in Nat /\ Len(sent) \in Nat
        /\ wire[c] \in Seq(Events) /\ c \in clients /\ read[c] \in Nat
    BY <1>1, <2>1 DEF SocketTypes, ServerTypes
  <2>3. /\ start[c] + Len(wire[c]) + 1 = Len(sent)
        /\ \A i \in 1..Len(wire[c]) : wire[c][i] = sent[start[c] + i]
        /\ read[c] <= Len(wire[c])
    BY <1>1, <2>1, <2>2 DEF Stream
  <2>4. wire'[c] = Append(wire[c], sent[Len(sent)])
    BY <1>1, <2>1 DEF SocketTypes
  <2>5. /\ Len(wire'[c]) = Len(wire[c]) + 1
        /\ \A i \in 1..Len(wire[c]) : wire'[c][i] = wire[c][i]
        /\ wire'[c][Len(wire[c]) + 1] = sent[Len(sent)]
    BY <2>2, <2>4
  <2>6. \A i \in 1..Len(wire'[c]) : wire'[c][i] = sent[start[c] + i]
    <3>1. ASSUME NEW i \in 1..Len(wire'[c]) PROVE i \in 1..Len(wire[c]) \/ i = Len(wire[c]) + 1
      BY <2>2, <2>5
    <3>2. start[c] + (Len(wire[c]) + 1) = Len(sent)
      BY <2>2, <2>3
    <3>3. QED
      BY <2>3, <2>5, <3>1, <3>2
  <2>7. \A d \in Conns : d # c => wire'[d] = wire[d] /\ (d \in todo' <=> d \in todo)
    BY <1>1, <2>1 DEF SocketTypes
  <2>8. QED
    BY <1>1, <2>1, <2>2, <2>3, <2>5, <2>6, <2>7 DEF Stream
<1>5. ASSUME NEW c \in Conns, WriteFails(c) PROVE Stream'
  BY <1>1, <1>5 DEF WriteFails, DropClient, Stream
<1>6. ASSUME NEW c \in Conns, Register(c) PROVE Stream'
  <2>1. /\ c \in accepted /\ wire[c] = <<>> /\ todo = {}
        /\ clients' = clients \cup {c} /\ start' = [start EXCEPT ![c] = Len(sent)]
        /\ UNCHANGED <<sent, todo, wire, read>>
    BY <1>1, <1>6 DEF Register, FreshOK, LockOK, server
  <2>2. start'[c] = Len(sent) /\ \A d \in Conns : d # c => start'[d] = start[d]
    BY <1>1, <2>1 DEF SocketTypes
  <2>3. QED
    BY <1>1, <2>1, <2>2 DEF Stream, SocketTypes, ServerTypes
<1>7. ASSUME NEW c \in Conns, ReadLoopEnds(c) PROVE Stream'
  BY <1>1, <1>7 DEF ReadLoopEnds, Stream, server
<1>8. ASSUME NEW p \in Pages, OnMessage(p) PROVE Stream'
  <2>1. /\ read' = [read EXCEPT ![Last(p)] = @ + 1] /\ read[Last(p)] < Len(wire[Last(p)])
        /\ Last(p) \in Conns
    BY <1>8, HasRead DEF OnMessage
  <2>2. \A c \in Conns : read'[c] <= Len(wire[c])
    BY <1>1, <2>1 DEF Stream, SocketTypes
  <2>3. UNCHANGED <<sent, todo, clients, start, wire>>
    BY <1>8 DEF OnMessage, server
  <2>4. QED
    BY <1>1, <2>2, <2>3 DEF Stream
<1>9. ASSUME PageStep, UNCHANGED read PROVE Stream'
  BY <1>1, <1>9, PageFrame DEF Stream
<1>10. ASSUME NEW p \in Pages, Accept(p) \/ LoseLink(p) \/ SeeClose(p) \/ ListEvents(p) \/ ShowAnswer(p)
       PROVE UNCHANGED read
  BY <1>10 DEF Accept, LoseLink, SeeClose, ListEvents, ShowAnswer, sockets
<1>11. ASSUME NEW e \in Emitters, Emit(e) \/ InsertEvent(e) \/ Unlock(e)
       PROVE UNCHANGED <<todo, sent>>
  BY <1>11 DEF Emit, InsertEvent, Unlock
<1>12. QED
  BY <1>2, <1>3, <1>4, <1>5, <1>6, <1>7, <1>8, <1>9, <1>10, <1>11 DEF FeedStep, Emission, PageStep

LEMMA WindowsNext == ASSUME FeedInv, FeedStep PROVE WindowsOK'
<1>1. WindowsOK /\ Stream /\ FreshOK /\ SocketTypes /\ ServerTypes /\ PageTypes
  BY TypesSplit DEF FeedInv
<1>2. ASSUME Emission PROVE WindowsOK'
  BY <1>1, <1>2, EmissionFrame DEF WindowsOK
<1>3. ASSUME NEW c \in Conns, Write(c) PROVE WindowsOK'
  <2>1. c \in clients /\ UNCHANGED <<clients, start, read>>
    BY <1>1, <1>3 DEF Write, SocketTypes
  <2>2. \A d \in Conns : d # c => wire'[d] = wire[d]
    BY <1>1, <1>3 DEF Write, SocketTypes
  <2>3. QED
    BY <1>1, <2>1, <2>2 DEF WindowsOK
<1>4. ASSUME NEW c \in Conns, WriteFails(c) \/ ReadLoopEnds(c) PROVE WindowsOK'
  <2>1. clients' \subseteq clients /\ UNCHANGED <<wire, start, read>>
    BY <1>4 DEF WriteFails, DropClient, ReadLoopEnds
  <2>2. QED
    BY <1>1, <2>1 DEF WindowsOK
<1>5. ASSUME NEW c \in Conns, Register(c) PROVE WindowsOK'
  <2>1. /\ wire[c] = <<>> /\ clients' = clients \cup {c} /\ UNCHANGED <<wire, read>>
        /\ start' = [start EXCEPT ![c] = Len(sent)]
    BY <1>1, <1>5 DEF Register, FreshOK
  <2>2. start'[c] = Len(sent) /\ \A d \in Conns : d # c => start'[d] = start[d]
    BY <1>1, <2>1 DEF SocketTypes
  <2>3. ~(read[c] > 0)
    BY <1>1, <2>1 DEF Stream, SocketTypes
  <2>4. \A d \in Conns : start[d] + read[d] <= Len(sent)
    BY <1>1 DEF Stream, SocketTypes, ServerTypes
  <2>5. QED
    BY <1>1, <2>1, <2>2, <2>3, <2>4 DEF WindowsOK
<1>6. ASSUME NEW p \in Pages, OnMessage(p) PROVE WindowsOK'
  <2>1. /\ read' = [read EXCEPT ![Last(p)] = @ + 1] /\ Last(p) \in Conns
        /\ UNCHANGED <<clients, start, wire>>
    BY <1>6, HasRead DEF OnMessage
  <2>2. ASSUME NEW d \in Conns, Last(p)[1] = d[1], Last(p)[2] < d[2]
        PROVE  wire[d] = <<>> /\ d \notin clients
    <3>1. d[1] = p /\ d[2] > cur[d[1]]
      BY <1>1, <2>2 DEF Last, Conns, PageTypes
    <3>2. QED
      BY <1>1, <3>1 DEF FreshOK
  <2>3. \A d \in Conns : d # Last(p) => read'[d] = read[d]
    BY <1>1, <2>1 DEF SocketTypes
  <2>4. QED
    BY <1>1, <2>1, <2>2, <2>3 DEF WindowsOK
<1>7. ASSUME NEW p \in Pages, Accept(p) \/ LoseLink(p) \/ SeeClose(p) \/ ListEvents(p) \/ ShowAnswer(p)
      PROVE WindowsOK'
  <2>1. UNCHANGED <<clients, start, wire, read>>
    BY <1>7 DEF Accept, LoseLink, SeeClose, ListEvents, ShowAnswer, sockets
  <2>2. QED
    BY <1>1, <2>1 DEF WindowsOK
<1>8. QED
  BY <1>2, <1>3, <1>4, <1>5, <1>6, <1>7 DEF FeedStep, Emission

LEMMA TypesNext == ASSUME FeedInv, FeedStep PROVE FeedTypeOK'
<1>1. ServerTypes /\ SocketTypes /\ PageTypes
  BY TypesSplit DEF FeedInv
<1>2. ServerTypes'
  <2>1. ASSUME UNCHANGED <<phase, next, table, sent, pc, ev>>, mishaps' = mishaps \/ Mishap
        PROVE  ServerTypes'
    BY <1>1, <2>1 DEF ServerTypes, Mishap
  <2>2. HubStep \/ PageStep => UNCHANGED <<phase, next, table, sent, pc, ev>>
    BY DEF HubStep, PageStep, Write, WriteFails, Register, ReadLoopEnds, Accept, LoseLink,
           SeeClose, OnMessage, ListEvents, ShowAnswer, server
  <2>3. QED
    BY <2>1, <2>2, FeedMishaps, ServerEmit, ServerInsertEvent, ServerNotify, ServerUnlock
       DEF FeedStep, HubStep, PageStep
<1>3. SocketTypes'
  <2>1. ASSUME UNCHANGED <<accepted, todo, clients, start, wire, read>> PROVE SocketTypes'
    BY <1>1, <2>1 DEF SocketTypes
  <2>2. ASSUME NEW e \in Emitters, Emit(e) \/ InsertEvent(e) \/ Unlock(e) PROVE SocketTypes'
    BY <2>1, <2>2 DEF Emit, InsertEvent, Unlock, sockets
  <2>3. ASSUME NEW e \in Emitters, Notify(e) PROVE SocketTypes'
    BY <1>1, <2>3 DEF Notify, sockets, SocketTypes
  <2>4. ASSUME NEW p \in Pages, LoseLink(p) \/ SeeClose(p) \/ ListEvents(p) \/ ShowAnswer(p)
        PROVE SocketTypes'
    BY <2>1, <2>4 DEF LoseLink, SeeClose, ListEvents, ShowAnswer, sockets, server
  <2>5. QED
    BY <2>2, <2>3, <2>4, SocketsWrite, SocketsWriteFails, SocketsRegister, SocketsReadLoopEnds,
       SocketsAccept, SocketsOnMessage DEF FeedStep
<1>4. PageTypes'
  <2>1. ASSUME Emission \/ HubStep PROVE PageTypes'
    BY <1>1, <2>1, EmissionFrame, HubFrame DEF PageTypes
  <2>2. QED
    BY <2>1, PageAccept, PageLoseLink, PageSeeClose, PageOnMessage, PageListEvents,
       PageShowAnswer DEF FeedStep, Emission, HubStep
<1>5. QED
  BY <1>2, <1>3, <1>4, TypesSplitNext

-----------------------------------------------------------------------------
(* The service *)

Inv == BootInv /\ FeedInv

LEMMA InitInv == Init => Inv
<1> SUFFICES ASSUME Init PROVE Inv
  OBVIOUS
<1>1. BootInv
  BY InitBootInv
<1>2. ServerTypes
  BY DEF Init, BootInit, FeedInit, ServerTypes, Phases
<1>3. SocketTypes
  BY DEF Init, FeedInit, SocketTypes
<1>4. PageTypes
  BY DEF Init, FeedInit, PageTypes
<1>5. Stream /\ LockOK /\ FreshOK /\ OnceOK /\ WindowsOK
  BY DEF Init, FeedInit, Stream, LockOK, FreshOK, OnceOK, WindowsOK, Conns
<1>6. QED
  BY <1>1, <1>2, <1>3, <1>4, <1>5, TypesSplit DEF Inv, FeedInv

\* A step of main is seen by the feed as its end, or not at all.
LEMMA MainFeed == ASSUME Inv, Main PROVE FeedInv'
<1>1. BootInv' /\ BootInv /\ FeedInv
  BY NextBootInv DEF Inv, Main
<1>2. phase' \in Phases /\ mishaps' \in Nat
  BY <1>1 DEF BootInv, BootTypeOK
<1>3. CASE UNCHANGED <<server, sockets, page>>
  <2>1. ServerTypes' /\ SocketTypes' /\ PageTypes'
    BY <1>1, <1>2, <1>3, TypesSplit DEF FeedInv, ServerTypes, SocketTypes, PageTypes, server, sockets, page
  <2>2. Stream' /\ LockOK' /\ FreshOK' /\ OnceOK' /\ WindowsOK'
    BY <1>1, <1>3 DEF FeedInv, Stream, LockOK, Locked, FreshOK, OnceOK, WindowsOK, server, sockets, page
  <2>3. QED
    BY <2>1, <2>2, TypesSplitNext DEF FeedInv
<1>4. CASE Exit
  <2>1. /\ pc' = [e \in Emitters |-> "idle"] /\ ev' = [e \in Emitters |-> 0] /\ todo' = {}
        /\ accepted' = {} /\ clients' = {}
        /\ UNCHANGED <<table, next, sent, start, wire, read>>
        /\ UNCHANGED <<cur, link, get, answer, feed, early>>
    BY <1>4 DEF Exit, page
  <2>2. ServerTypes /\ SocketTypes /\ PageTypes
    BY <1>1, TypesSplit DEF FeedInv
  <2>3. ServerTypes'
    BY <1>2, <2>1, <2>2 DEF ServerTypes
  <2>4. SocketTypes' /\ PageTypes'
    BY <2>1, <2>2 DEF SocketTypes, PageTypes
  <2>5. Stream'
    BY <1>1, <2>1 DEF FeedInv, Stream
  <2>6. LockOK' /\ FreshOK'
    BY <1>1, <2>1 DEF FeedInv, LockOK, FreshOK
  <2>7. OnceOK'
    BY <1>1, <2>1, <2>2 DEF FeedInv, OnceOK, ServerTypes
  <2>8. WindowsOK'
    BY <1>1, <2>1 DEF FeedInv, WindowsOK
  <2>9. QED
    BY <2>3, <2>4, <2>5, <2>6, <2>7, <2>8, TypesSplitNext DEF FeedInv
<1>5. QED
  BY <1>3, <1>4 DEF Main, MainStep

LEMMA FeedBoot == ASSUME Inv, Feed PROVE BootInv'
<1>1. BootInv /\ UNCHANGED bootVars /\ (mishaps' = mishaps \/ Mishap)
  BY FeedMishaps DEF Inv, Feed
<1>2. UNCHANGED <<phase, external, pg, rows, effects, at, tx, ghost>>
  BY <1>1 DEF bootVars
<1>3. mishaps' \in 0..MaxMishaps
  BY <1>1 DEF BootInv, BootTypeOK, Mishap
<1>4. external' \in BOOLEAN /\ pg' \in BOOLEAN
  BY <1>1, <1>2, Zenon DEF BootInv, BootTypeOK
<1>5. BootTypeOK'
  BY <1>1, <1>2, <1>3, <1>4 DEF BootInv, BootTypeOK
<1>6. SchemaIsPrefix' /\ MigrateOK'
  BY <1>1, <1>2 DEF BootInv, SchemaIsPrefix, MigrateOK
<1>7. QED
  BY <1>5, <1>6 DEF BootInv

LEMMA NextInv == Inv /\ [Next]_vars => Inv'
<1> SUFFICES ASSUME Inv, [Next]_vars PROVE Inv'
  OBVIOUS
<1>1. CASE Main
  BY <1>1, NextBootInv, MainFeed DEF Inv, Main
<1>2. CASE Feed
  <2>1. FeedInv /\ FeedStep
    BY <1>2 DEF Inv, Feed
  <2>2. FeedInv'
    BY <2>1, TypesNext, StreamNext, LockNext, FreshNext, OnceNext, WindowsNext DEF FeedInv
  <2>3. QED
    BY <1>2, <2>2, FeedBoot DEF Inv
<1>3. CASE UNCHANGED vars
  <2>1. UNCHANGED bootVars /\ UNCHANGED feedVars
    BY <1>3 DEF vars
  <2>2. UNCHANGED <<server, sockets, page>> /\ UNCHANGED <<phase, mishaps>>
    BY <2>1 DEF feedVars
  <2>3. FeedInv'
    <3>1. ServerTypes' /\ SocketTypes' /\ PageTypes'
      BY <2>2, TypesSplit DEF Inv, FeedInv, ServerTypes, SocketTypes, PageTypes, server, sockets, page
    <3>2. Stream' /\ LockOK' /\ FreshOK' /\ OnceOK' /\ WindowsOK'
      BY <2>2 DEF Inv, FeedInv, Stream, LockOK, Locked, FreshOK, OnceOK, WindowsOK, server, sockets, page
    <3>3. QED
      BY <3>1, <3>2, TypesSplitNext DEF FeedInv
  <2>4. BootInv'
    <3>1. UNCHANGED <<phase, external, pg, rows, effects, at, tx, ghost, mishaps>>
      BY <2>1, <2>2 DEF bootVars
    <3>2. BootTypeOK' = BootTypeOK /\ SchemaIsPrefix' = SchemaIsPrefix /\ MigrateOK' = MigrateOK
      BY <3>1 DEF BootTypeOK, SchemaIsPrefix, MigrateOK
    <3>3. QED
      BY <3>2 DEF Inv, BootInv
  <2>5. QED
    BY <2>3, <2>4 DEF Inv
<1>4. QED
  BY <1>1, <1>2, <1>3 DEF Next

LEMMA Invariance == Spec => []Inv
BY InitInv, NextInv, PTL DEF Spec

\* Ranges of the variables; Migrate has a transaction only while it is at a migration,
\* and one emitter at most writes to the clients (Hub.Notify).
THEOREM TypeCorrect == Spec => []TypeOK
<1>1. Inv => TypeOK
  BY DEF Inv, BootInv, FeedInv, TypeOK
<1>2. QED
  BY <1>1, Invariance, PTL

\* Whatever number of processes died, and wherever in Migrate, each migration's SQL is
\* committed once, in order, and serving starts on the whole schema (db.Migrate, main).
THEOREM SchemaKept == Spec => []SchemaIsPrefix
<1>1. Inv => SchemaIsPrefix
  BY DEF Inv, BootInv
<1>2. QED
  BY <1>1, Invariance, PTL

\* Every connection's frames are the broadcasts from where it joined, without a gap
\* (Hub.Notify, Hub.Handler, Hub.readLoop).
THEOREM StreamKept == Spec => []Stream
<1>1. Inv => Stream
  BY DEF Inv, FeedInv
<1>2. QED
  BY <1>1, Invariance, PTL

\* What a page has handled of one connection was sent before what it has handled of
\* the next.
LEMMA WindowsApart ==
  ASSUME FeedInv, NEW c \in Conns, NEW d \in Conns, c[1] = d[1], c[2] < d[2],
         NEW i \in 1..read[c], NEW j \in 1..read[d]
  PROVE  /\ wire[c][i] = sent[start[c] + i] /\ wire[d][j] = sent[start[d] + j]
         /\ start[c] + i \in 1..Len(sent) /\ start[d] + j \in 1..Len(sent)
         /\ start[c] + i < start[d] + j
<1>1. /\ SocketTypes /\ Stream /\ WindowsOK /\ OnceOK /\ Len(sent) \in Nat
  BY TypesSplit DEF FeedInv, ServerTypes
<1>2. /\ read[c] \in Nat /\ read[d] \in Nat /\ start[c] \in Nat /\ start[d] \in Nat
      /\ Len(wire[c]) \in Nat /\ Len(wire[d]) \in Nat
  BY <1>1 DEF SocketTypes
<1>3. /\ read[c] <= Len(wire[c]) /\ read[d] <= Len(wire[d])
      /\ start[c] + Len(wire[c]) <= Len(sent) /\ start[d] + Len(wire[d]) <= Len(sent)
  BY <1>1 DEF Stream
<1>4. wire[d] # <<>> /\ read[c] > 0
  BY <1>2, <1>3
<1>5. start[c] + read[c] <= start[d]
  BY <1>1, <1>4 DEF WindowsOK
<1>6. wire[c][i] = sent[start[c] + i] /\ wire[d][j] = sent[start[d] + j]
  BY <1>1, <1>2, <1>3 DEF Stream
<1>7. /\ start[c] + i \in 1..Len(sent) /\ start[d] + j \in 1..Len(sent)
      /\ start[c] + i < start[d] + j
  <2> DEFINE a == start[c] b == start[d] m == read[c] n == read[d]
             v == Len(wire[c]) w == Len(wire[d]) l == Len(sent)
  <2>1. /\ a \in Nat /\ b \in Nat /\ m \in Nat /\ n \in Nat /\ v \in Nat /\ w \in Nat /\ l \in Nat
        /\ m <= v /\ n <= w /\ a + v <= l /\ b + w <= l /\ a + m <= b
        /\ i \in 1..m /\ j \in 1..n
    BY <1>1, <1>2, <1>3, <1>5
  <2> HIDE DEF a, b, m, n, v, w, l
  <2>2. a + i \in 1..l /\ b + j \in 1..l /\ a + i < b + j
    BY <2>1
  <2>3. QED
    BY <2>2 DEF a, b, l
<1>8. QED
  BY <1>6, <1>7

\* The same within one connection.
LEMMA WindowOf ==
  ASSUME FeedInv, NEW c \in Conns, NEW i \in 1..read[c]
  PROVE  wire[c][i] = sent[start[c] + i] /\ start[c] + i \in 1..Len(sent)
<1>1. /\ SocketTypes /\ Stream /\ Len(sent) \in Nat
  BY TypesSplit DEF FeedInv, ServerTypes
<1>2. read[c] \in Nat /\ start[c] \in Nat /\ Len(wire[c]) \in Nat
  BY <1>1 DEF SocketTypes
<1>3. read[c] <= Len(wire[c]) /\ start[c] + Len(wire[c]) <= Len(sent)
  BY <1>1 DEF Stream
<1>4. i \in 1..Len(wire[c])
  BY <1>2, <1>3
<1>5. start[c] + i \in 1..Len(sent)
  BY <1>1, <1>2, <1>3, <1>4
<1>6. QED
  BY <1>1, <1>4, <1>5 DEF Stream

\* No page handles a broadcast twice, whatever connections the hub still holds for it.
THEOREM HandledOnce == Spec => []OnceBySocket
<1>1. Inv => OnceBySocket
  <2> SUFFICES ASSUME FeedInv, NEW c \in Conns, NEW d \in Conns, c[1] = d[1],
                      NEW i \in 1..read[c], NEW j \in 1..read[d], wire[c][i] = wire[d][j]
               PROVE  c = d /\ i = j
    BY DEF Inv, OnceBySocket
  <2>1. /\ c[1] \in Pages /\ c[2] \in 1..MaxConns /\ d[2] \in 1..MaxConns
        /\ c = <<c[1], c[2]>> /\ d = <<d[1], d[2]>>
    BY DEF Conns
  <2>2. \A k, l \in 1..Len(sent) : sent[k] = sent[l] => k = l
    BY DEF FeedInv, OnceOK
  <2>3. /\ start[c] \in Nat /\ start[d] \in Nat /\ i \in Nat /\ j \in Nat
    BY TypesSplit DEF FeedInv, SocketTypes
  <2>4. ~(c[2] < d[2]) /\ ~(d[2] < c[2])
    BY <2>2, <2>3, WindowsApart
  <2>5. c = d
    BY <2>1, <2>4
  <2>6. start[c] + i = start[c] + j
    <3>1. j \in 1..read[c]
      BY <2>5
    <3>2. QED
      BY <2>2, <2>5, <3>1, WindowOf
  <2>7. QED
    BY <2>3, <2>5, <2>6
<1>2. QED
  BY <1>1, Invariance, PTL

\* Over its connections a page handles broadcasts in the order in which they were sent.
THEOREM InOrderOfSending == Spec => []HandledInOrder
<1>1. Inv => HandledInOrder
  <2> SUFFICES ASSUME FeedInv, NEW c \in Conns, NEW d \in Conns, c[1] = d[1],
                      NEW i \in 1..read[c], NEW j \in 1..read[d],
                      c[2] < d[2] \/ (c = d /\ i < j),
                      NEW m \in 1..Len(sent), NEW n \in 1..Len(sent),
                      sent[m] = wire[c][i], sent[n] = wire[d][j]
               PROVE  m < n
    BY DEF Inv, HandledInOrder
  <2>1. \A k, l \in 1..Len(sent) : sent[k] = sent[l] => k = l
    BY DEF FeedInv, OnceOK
  <2>2. m = start[c] + i /\ n = start[d] + j
    BY <2>1, WindowOf
  <2>3. CASE c[2] < d[2]
    BY <2>2, <2>3, WindowsApart
  <2>4. CASE c = d /\ i < j
    <3>1. start[c] \in Nat /\ i \in Nat /\ j \in Nat
      BY TypesSplit DEF FeedInv, SocketTypes
    <3>2. QED
      BY <2>2, <2>4, <3>1
  <2>5. QED
    BY <2>3, <2>4
<1>2. QED
  BY <1>1, Invariance, PTL

-----------------------------------------------------------------------------
(* The feed of a page *)

LEMMA HandledSame ==
  ASSUME FeedInv, NEW p \in Pages, UNCHANGED read,
         \A c \in Conns : \A i \in 1..Len(wire[c]) : wire'[c][i] = wire[c][i]
  PROVE  Handled(p)' = Handled(p)
<1>1. \A k \in 1..MaxConns : <<p, k>> \in Conns
  BY DEF Conns
<1>2. \A c \in Conns : read[c] \in Nat /\ Len(wire[c]) \in Nat /\ read[c] <= Len(wire[c])
  BY TypesSplit DEF FeedInv, SocketTypes, Stream
<1>3. ASSUME NEW k \in 1..MaxConns, NEW i \in 1..read[<<p, k>>]
      PROVE  wire'[<<p, k>>][i] = wire[<<p, k>>][i]
  BY <1>1, <1>2, <1>3
<1>4. QED
  BY <1>3 DEF Handled

\* A frame more.
LEMMA HandledMore ==
  ASSUME FeedInv, NEW p \in Pages, NEW q \in Pages, OnMessage(q)
  PROVE  Handled(p)' \subseteq
           IF p = q THEN Handled(p) \cup {wire[Last(q)][read[Last(q)] + 1]} ELSE Handled(p)
<1> DEFINE c == Last(q)
<1>1. /\ c \in Conns /\ c[1] = q /\ wire' = wire
      /\ read' = [read EXCEPT ![c] = @ + 1]
  BY HasRead DEF OnMessage, Last
<1>2. read \in [Conns -> Nat]
  BY TypesSplit DEF FeedInv, SocketTypes
<1> SUFFICES ASSUME NEW x \in Handled(p)'
             PROVE  x \in Handled(p) \/ (p = q /\ x = wire[c][read[c] + 1])
  OBVIOUS
<1>3. PICK k \in 1..MaxConns : \E i \in 1..read'[<<p, k>>] : x = wire'[<<p, k>>][i]
  BY DEF Handled
<1>4. PICK i \in 1..read'[<<p, k>>] : x = wire'[<<p, k>>][i]
  BY <1>3
<1>5. <<p, k>> \in Conns
  BY DEF Conns
<1>6. CASE i \in 1..read[<<p, k>>]
  BY <1>1, <1>4, <1>6 DEF Handled
<1>7. CASE i \notin 1..read[<<p, k>>]
  <2>1. <<p, k>> = c /\ i = read[c] + 1
    BY <1>1, <1>2, <1>4, <1>5, <1>7
  <2>2. QED
    BY <1>1, <1>4, <2>1
<1>8. QED
  BY <1>6, <1>7

LEMMA ShownSame ==
  ASSUME FeedInv, HandledIsShown, UNCHANGED <<read, get, feed, early>>,
         \A c \in Conns : \A i \in 1..Len(wire[c]) : wire'[c][i] = wire[c][i]
  PROVE  HandledIsShown'
BY HandledSame DEF HandledIsShown

LEMMA ShownNext == ASSUME FeedInv, HandledIsShown, FeedStep PROVE HandledIsShown'
<1>1. SocketTypes /\ PageTypes /\ FreshOK /\ Stream
  BY TypesSplit DEF FeedInv
<1>2. ASSUME UNCHANGED <<wire, read, get, feed, early>> PROVE HandledIsShown'
  BY <1>2, ShownSame
<1>3. ASSUME Emission PROVE HandledIsShown'
  BY <1>2, <1>3, EmissionFrame
<1>4. ASSUME NEW c \in Conns, Write(c) PROVE HandledIsShown'
  <2>1. wire' = [wire EXCEPT ![c] = Append(@, sent[Len(sent)])] /\ UNCHANGED <<read, get, feed, early>>
    BY <1>4 DEF Write, page
  <2>2. \A d \in Conns : wire'[d] = wire[d] \/ wire'[d] = Append(wire[d], sent[Len(sent)])
    BY <1>1, <2>1 DEF SocketTypes
  <2>3. \A d \in Conns : wire[d] \in Seq(Events)
    BY <1>1 DEF SocketTypes
  <2>4. \A d \in Conns : \A i \in 1..Len(wire[d]) : wire'[d][i] = wire[d][i]
    BY <2>2, <2>3
  <2>5. QED
    BY <2>1, <2>4, ShownSame
<1>5. ASSUME NEW c \in Conns, WriteFails(c) \/ Register(c) \/ ReadLoopEnds(c) PROVE HandledIsShown'
  BY <1>2, <1>5 DEF WriteFails, Register, ReadLoopEnds, page
<1>6. ASSUME NEW p \in Pages, Accept(p) \/ LoseLink(p) \/ SeeClose(p) PROVE HandledIsShown'
  BY <1>2, <1>6 DEF Accept, LoseLink, SeeClose, sockets
<1>7. ASSUME NEW q \in Pages, OnMessage(q) PROVE HandledIsShown'
  <2> DEFINE x == wire[Last(q)][read[Last(q)] + 1]
  <2>1. feed' = [feed EXCEPT ![q] = Trim(<<x>> \o @)] /\ UNCHANGED <<get, early>>
    BY <1>7 DEF OnMessage
  <2>2. x \in Events
    <3>1. Last(q) \in Conns /\ read[Last(q)] < Len(wire[Last(q)])
      BY <1>7, HasRead DEF OnMessage
    <3>2. QED
      BY <1>1, <3>1 DEF SocketTypes
  <2>3. SUFFICES ASSUME NEW p \in Pages, get'[p] = "done", Len(feed'[p]) < Limit
                 PROVE  Handled(p)' \ early'[p] \subseteq {feed'[p][i] : i \in 1..Len(feed'[p])}
    BY DEF HandledIsShown
  <2>4. CASE p # q
    <3>1. feed'[p] = feed[p] /\ Handled(p)' \subseteq Handled(p)
      BY <1>1, <1>7, <2>1, <2>4, HandledMore DEF PageTypes
    <3>2. QED
      BY <2>1, <2>3, <3>1 DEF HandledIsShown
  <2>5. CASE p = q
    <3>1. feed[p] \in Seq(Events) /\ feed'[p] = Trim(<<x>> \o feed[p])
      BY <1>1, <2>1, <2>5 DEF PageTypes
    <3>2. feed'[p] = <<x>> \o feed[p] /\ Len(feed[p]) < Limit
      BY <2>2, <2>3, <3>1, TrimSeq
    <3>3. /\ Len(feed'[p]) = Len(feed[p]) + 1 /\ feed'[p][1] = x
          /\ \A i \in 1..Len(feed[p]) : feed'[p][i + 1] = feed[p][i]
      BY <2>2, <3>1, <3>2
    <3>4. Handled(p) \ early[p] \subseteq {feed[p][i] : i \in 1..Len(feed[p])}
      BY <2>1, <2>3, <3>2 DEF HandledIsShown
    <3>5. Handled(p)' \subseteq Handled(p) \cup {x}
      BY <1>7, <2>5, HandledMore
    <3>6. SUFFICES ASSUME NEW y \in Handled(p)', y \notin early[p]
                   PROVE  \E i \in 1..Len(feed'[p]) : y = feed'[p][i]
      BY <2>1
    <3>7. CASE y = x
      BY <3>1, <3>3, <3>7
    <3>8. CASE y # x
      <4>1. PICK i \in 1..Len(feed[p]) : y = feed[p][i]
        BY <3>4, <3>5, <3>6, <3>8
      <4>2. i + 1 \in 1..Len(feed'[p]) /\ y = feed'[p][i + 1]
        BY <3>1, <3>3, <4>1
      <4>3. QED
        BY <4>2
    <3>9. QED
      BY <3>7, <3>8
  <2>6. QED
    BY <2>4, <2>5
<1>8. ASSUME NEW q \in Pages, ListEvents(q) PROVE HandledIsShown'
  <2>1. get' = [get EXCEPT ![q] = "answered"] /\ UNCHANGED <<wire, read, feed, early>>
    BY <1>8 DEF ListEvents, sockets
  <2>2. \A p \in Pages : Handled(p)' = Handled(p)
    BY <2>1 DEF Handled
  <2>3. \A p \in Pages : get'[p] = "done" => get[p] = "done"
    BY <1>1, <2>1 DEF PageTypes
  <2>4. QED
    BY <2>1, <2>2, <2>3 DEF HandledIsShown
<1>9. ASSUME NEW q \in Pages, ShowAnswer(q) PROVE HandledIsShown'
  <2>1. /\ early' = [early EXCEPT ![q] = Handled(q)] /\ get' = [get EXCEPT ![q] = "done"]
        /\ UNCHANGED <<wire, read>> /\ \A p \in Pages : p # q => feed'[p] = feed[p]
    BY <1>1, <1>9 DEF ShowAnswer, sockets, PageTypes
  <2>2. \A p \in Pages : Handled(p)' = Handled(p)
    BY <2>1 DEF Handled
  <2>3. /\ early'[q] = Handled(q)
        /\ \A p \in Pages : p # q => early'[p] = early[p] /\ get'[p] = get[p]
    BY <1>1, <2>1 DEF PageTypes
  <2>4. QED
    BY <2>1, <2>2, <2>3 DEF HandledIsShown
<1>10. QED
  BY <1>3, <1>4, <1>5, <1>6, <1>7, <1>8, <1>9 DEF FeedStep, Emission

\* What a page has handled it shows, but for what came before its first answer and was
\* not in it, or was pushed out (EventFeed.jsx, useLive.js).
THEOREM HandledShown == Spec => []HandledIsShown
<1>1. Init => HandledIsShown
  BY DEF Init, FeedInit, HandledIsShown
<1>2. Inv /\ HandledIsShown /\ [Next]_vars => HandledIsShown'
  <2> SUFFICES ASSUME Inv, HandledIsShown, [Next]_vars PROVE HandledIsShown'
    OBVIOUS
  <2>1. ASSUME UNCHANGED <<wire, read, get, feed, early>> PROVE HandledIsShown'
    BY <2>1, ShownSame DEF Inv
  <2>2. CASE Main
    BY <2>1, <2>2 DEF Main, MainStep, Exit, sockets, page
  <2>3. CASE Feed
    BY <2>3, ShownNext DEF Inv, Feed
  <2>4. CASE UNCHANGED vars
    BY <2>1, <2>4 DEF vars, feedVars, sockets, page
  <2>5. QED
    BY <2>2, <2>3, <2>4 DEF Next
<1>3. QED
  BY <1>1, <1>2, Invariance, PTL DEF Spec

-----------------------------------------------------------------------------
(* The hub is a broadcast log *)

LEMMA GotSame ==
  ASSUME FeedInv, NEW c \in Conns, read'[c] = read[c],
         \A i \in 1..Len(wire[c]) : wire'[c][i] = wire[c][i]
  PROVE  SubSeq(wire'[c], 1, read'[c]) = SubSeq(wire[c], 1, read[c])
<1>1. read[c] \in Nat /\ Len(wire[c]) \in Nat /\ read[c] <= Len(wire[c])
  BY TypesSplit DEF FeedInv, SocketTypes, Stream
<1>2. \A i \in 1..read[c] : wire'[c][i] = wire[c][i]
  BY <1>1
<1>3. QED
  BY <1>1, <1>2

LEMMA FeedBroadcast ==
  ASSUME FeedInv, FeedStep
  PROVE  B!Next \/ UNCHANGED <<sent, start, Received>>
<1>1. SocketTypes /\ ServerTypes /\ Stream
  BY TypesSplit DEF FeedInv
<1>2. ASSUME UNCHANGED <<wire, read>> PROVE Received' = Received
  BY <1>2 DEF Received
<1>3. ASSUME NEW e \in Emitters, Notify(e) PROVE B!Next
  <2>1. sent' = Append(sent, ev[e]) /\ UNCHANGED <<start, wire, read>>
    BY <1>3 DEF Notify, sockets
  <2>2. ev[e] \in Events
    BY <1>1, <1>3 DEF Notify, Goto, ServerTypes, Events
  <2>3. Received' = Received
    BY <1>2, <2>1
  <2>4. B!Publish
    BY <2>1, <2>2, <2>3 DEF B!Publish
  <2>5. QED
    BY <2>4 DEF B!Next
<1>4. ASSUME NEW e \in Emitters, Emit(e) \/ InsertEvent(e) \/ Unlock(e)
      PROVE  UNCHANGED <<sent, start, Received>>
  BY <1>2, <1>4 DEF Emit, InsertEvent, Unlock, sockets
<1>5. ASSUME NEW c \in Conns, Write(c) PROVE UNCHANGED <<sent, start, Received>>
  <2>1. wire' = [wire EXCEPT ![c] = Append(@, sent[Len(sent)])] /\ UNCHANGED <<sent, start, read>>
    BY <1>5 DEF Write
  <2>2. \A d \in Conns : wire'[d] = wire[d] \/ wire'[d] = Append(wire[d], sent[Len(sent)])
    BY <1>1, <2>1 DEF SocketTypes
  <2>3. \A d \in Conns : wire[d] \in Seq(Events)
    BY <1>1 DEF SocketTypes
  <2>4. \A d \in Conns : \A i \in 1..Len(wire[d]) : wire'[d][i] = wire[d][i]
    BY <2>2, <2>3
  <2>5. \A d \in Conns : SubSeq(wire'[d], 1, read'[d]) = SubSeq(wire[d], 1, read[d])
    BY <2>1, <2>4, GotSame
  <2>6. QED
    BY <2>1, <2>5 DEF Received
<1>6. ASSUME NEW c \in Conns, WriteFails(c) \/ ReadLoopEnds(c) PROVE UNCHANGED <<sent, start, Received>>
  BY <1>2, <1>6 DEF WriteFails, ReadLoopEnds, server
<1>7. ASSUME NEW c \in Conns, Register(c) PROVE B!Next
  <2>1. /\ start' = [start EXCEPT ![c] = Len(sent)] /\ UNCHANGED <<sent, wire, read>>
        /\ wire[c] = <<>>
    BY <1>7 DEF Register, server, FeedInv, FreshOK
  <2>2. read[c] = 0
    BY <1>1, <2>1 DEF Stream, SocketTypes
  <2>3. Received[c] = <<>> /\ Received' = Received
    BY <1>2, <2>1, <2>2 DEF Received
  <2>4. B!Join(c)
    BY <2>1, <2>3 DEF B!Join
  <2>5. QED
    BY <2>4 DEF B!Next
<1>8. ASSUME NEW p \in Pages, OnMessage(p) PROVE B!Next
  <2>1. PICK c \in Conns : /\ read[c] < Len(wire[c]) /\ read' = [read EXCEPT ![c] = @ + 1]
                           /\ UNCHANGED <<sent, start, wire>>
    BY <1>8, HasRead DEF OnMessage, server
  <2>2. /\ read[c] \in Nat /\ wire[c] \in Seq(Events) /\ start[c] \in Nat /\ Len(sent) \in Nat
        /\ start[c] + Len(wire[c]) <= Len(sent)
    BY <1>1, <2>1 DEF SocketTypes, ServerTypes, Stream
  <2>3. Len(Received[c]) = read[c] /\ start[c] + Len(Received[c]) < Len(sent)
    BY <2>1, <2>2 DEF Received
  <2>4. wire[c][read[c] + 1] = sent[start[c] + (read[c] + 1)]
    <3>1. read[c] + 1 \in 1..Len(wire[c])
      BY <2>1, <2>2
    <3>2. \A i \in 1..Len(wire[c]) : wire[c][i] = sent[start[c] + i]
      BY <1>1, <2>1 DEF Stream
    <3>3. QED
      BY <3>1, <3>2
  <2>5. SubSeq(wire[c], 1, read[c] + 1) = Append(SubSeq(wire[c], 1, read[c]), wire[c][read[c] + 1])
    BY <2>1, <2>2
  <2>6. start[c] + Len(Received[c]) + 1 = start[c] + (read[c] + 1)
    BY <2>2, <2>3
  <2>7. Received' = [Received EXCEPT ![c] = Append(@, sent[start[c] + Len(@) + 1])]
    <3>1. \A d \in Conns : d # c => Received'[d] = Received[d]
      BY <1>1, <2>1 DEF Received, SocketTypes
    <3>2. Received'[c] = Append(Received[c], sent[start[c] + Len(Received[c]) + 1])
      <4>1. Received'[c] = SubSeq(wire[c], 1, read[c] + 1)
        BY <1>1, <2>1 DEF Received, SocketTypes
      <4>2. Received[c] = SubSeq(wire[c], 1, read[c])
        BY <2>1 DEF Received
      <4>3. QED
        BY <2>4, <2>5, <2>6, <4>1, <4>2
    <3>3. QED
      BY <2>1, <3>1, <3>2 DEF Received
  <2>8. B!Receive(c)
    BY <2>1, <2>3, <2>7 DEF B!Receive
  <2>9. QED
    BY <2>1, <2>8 DEF B!Next
<1>9. ASSUME NEW p \in Pages, Accept(p) \/ LoseLink(p) \/ SeeClose(p) \/ ListEvents(p) \/ ShowAnswer(p)
      PROVE  UNCHANGED <<sent, start, Received>>
  BY <1>2, <1>9 DEF Accept, LoseLink, SeeClose, ListEvents, ShowAnswer, server, sockets
<1>10. QED
  BY <1>3, <1>4, <1>5, <1>6, <1>7, <1>8, <1>9 DEF FeedStep

\* Hub.Notify, Handler and readLoop, with the pages' reconnects, are one log of
\* broadcasts that each connection receives in order from where it joined.
THEOREM BroadcastImplemented == Spec => ImplementsBroadcast
<1>1. Init => B!Init
  BY DEF Init, FeedInit, B!Init, Received
<1>2. Inv /\ [Next]_vars => [B!Next]_<<sent, start, Received>>
  <2> SUFFICES ASSUME Inv, [Next]_vars PROVE B!Next \/ UNCHANGED <<sent, start, Received>>
    OBVIOUS
  <2>1. ASSUME UNCHANGED <<sent, start, wire, read>> PROVE UNCHANGED <<sent, start, Received>>
    BY <2>1 DEF Received
  <2>2. CASE Main
    BY <2>1, <2>2 DEF Main, MainStep, Exit, server, sockets
  <2>3. CASE Feed
    BY <2>3, FeedBroadcast DEF Inv, Feed
  <2>4. CASE UNCHANGED vars
    BY <2>1, <2>4 DEF vars, feedVars, server, sockets
  <2>5. QED
    BY <2>2, <2>3, <2>4 DEF Next
<1>3. QED
  BY <1>1, <1>2, Invariance, PTL DEF Spec, ImplementsBroadcast, B!Spec

-----------------------------------------------------------------------------
(* The schema under a process that serves, and the two parts of the service *)

\* A COMMIT on its way is that of a migration not there yet, and a process serves on
\* the whole schema: so there is none.
LEMMA RestsWhileServing ==
  ASSUME BootInv, BootNext, phase \in {"serving", "closing"}
  PROVE  UNCHANGED <<rows, effects>>
<1>1. rows = Names /\ rows = 1..Len(effects) /\ (ghost # 0 => ghost = Len(effects) + 1)
  BY DEF BootInv, SchemaIsPrefix, MigrateOK
<1>2. ghost \in 0..Count /\ Len(effects) \in 0..Count
  BY PrefixLength DEF BootInv, BootTypeOK
<1>3. ghost = 0
  <2>1. ghost # 0 => ghost \in 1..Len(effects)
    BY <1>1, <1>2 DEF Names
  <2>2. QED
    BY <1>1, <1>2, <2>1
<1>4. ~Commit /\ ~GhostCommits
  BY <1>3 DEF Commit, GhostCommits
<1>5. QED
  BY <1>4 DEF BootNext, StartDatabase, Connect, Skip, Begin, Record, RecordRefused, Serve, Stop,
     Return, Fail, StopOrphan, database

\* No migration of a dead process is committed under a process that serves.
THEOREM SchemaAtRest == Spec => SchemaRests
<1>1. Inv /\ [Next]_vars =>
        [(phase \in {"serving", "closing"}) => UNCHANGED <<rows, effects>>]_bootVars
  <2>1. CASE Main
    BY <2>1, RestsWhileServing DEF Main, Inv
  <2>2. CASE Feed \/ UNCHANGED vars
    BY <2>2 DEF Feed, vars
  <2>3. QED
    BY <2>1, <2>2 DEF Next
<1>2. QED
  BY <1>1, Invariance, PTL DEF Spec, SchemaRests

\* Composed, main does what it does alone, and the feed what it does under any process
\* that starts, serves and ends: neither keeps the other from a step or adds one.
THEOREM PartsImplemented == Spec => BootSpec /\ FeedSpec
<1>1. Init => BootInit /\ mishaps = 0 /\ phase = "off" /\ FeedInit
  BY DEF Init, BootInit
<1>2. [Next]_vars => [BootNext]_bootVars
  BY DEF Next, Main, Feed, vars
<1>3. Inv /\ Inv' /\ [Next]_vars =>
        [FeedStep \/ (phase' \in Phases /\ mishaps' \in 0..MaxMishaps /\ MainStep)]_feedVars
  BY DEF Next, Main, Feed, vars, Inv, BootInv, BootTypeOK
<1>4. QED
  BY <1>1, <1>2, <1>3, Invariance, PTL DEF Spec, BootSpec, FeedSpec
=============================================================================
