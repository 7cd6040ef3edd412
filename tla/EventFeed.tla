------------------------------ MODULE EventFeed ------------------------------
(***************************************************************************)
(* Events on their way to the pages: emit and emitStatusChanged (a row,    *)
(* then Notify), the hub and its lock, the sockets with their reconnects,  *)
(* and the feed of a page, which starts from GET /api/events.              *)
(*                                                                         *)
(* A connection is <<p, k>>, the k-th of page p.  Its frames stay in wire  *)
(* and read counts those the page has handled.  An event is the number of  *)
(* its emission: a broadcast carries no id, and the feed cannot tell that  *)
(* it has the row of an event already.                                     *)
(***************************************************************************)
EXTENDS MainPhase, Sequences

CONSTANTS
  Emitters,       \* goroutines that emit: the collector and requests
  Pages,
  Limit,          \* length of a feed
  MaxEvents,      \* bound: emissions
  MaxConns        \* bound: connections of one page

ASSUME FeedAssumption == Limit \in Nat \ {0} /\ MaxEvents \in Nat /\ MaxConns \in Nat

VARIABLES
  table,          \* rows of events in the order of their ids
  next,           \* emissions so far
  pc, ev,         \* an emitter: idle, insert, notify, write (it holds h.mu), and its event
  todo,           \* clients the holder of the lock has still to write to
  sent,           \* the broadcasts in their order
  accepted,       \* connections accepted and not yet in the hub
  clients,        \* h.clients
  start,          \* the number of broadcasts when a connection entered the hub
  wire, read,
  cur, link,      \* a page: its connections so far, whether the last is open there,
  get, answer,    \* its GET /api/events and what that read,
  feed,           \* what it shows, the newest first,
  early           \* and the events its sockets brought before the answer

server   == <<table, next, pc, ev, todo, sent>>
sockets  == <<accepted, clients, start, wire, read>>
page     == <<cur, link, get, answer, feed, early>>
feedVars == <<phase, mishaps, server, sockets, page>>

Conns  == Pages \X (1..MaxConns)
Events == 1..MaxEvents
Last(p) == <<p, cur[p]>>
Live(c) == link[c[1]] /\ c[2] = cur[c[1]]      \* the page has it open
Handled(p) == UNION {{wire[<<p, k>>][i] : i \in 1..read[<<p, k>>]} : k \in 1..MaxConns}
Running == phase \in {"serving", "closing"}
Locked == \E e \in Emitters : pc[e] = "write"

Newest(s) == [i \in 1..(IF Len(s) < Limit THEN Len(s) ELSE Limit) |-> s[Len(s) + 1 - i]]
\* Variant: one entry too few.
TrimShort(s) == SubSeq(s, 1, IF Len(s) < Limit THEN Len(s) ELSE Limit - 1)

Trim(s) == SubSeq(s, 1, IF Len(s) < Limit THEN Len(s) ELSE Limit)

FeedInit ==
  /\ table = <<>> /\ next = 0 /\ sent = <<>>
  /\ pc = [e \in Emitters |-> "idle"] /\ ev = [e \in Emitters |-> 0] /\ todo = {}
  /\ accepted = {} /\ clients = {}
  /\ start = [c \in Conns |-> 0] /\ wire = [c \in Conns |-> <<>>] /\ read = [c \in Conns |-> 0]
  /\ cur = [p \in Pages |-> 0] /\ link = [p \in Pages |-> FALSE]
  /\ get = [p \in Pages |-> "asked"]
  /\ answer = [p \in Pages |-> <<>>] /\ feed = [p \in Pages |-> <<>>]
  /\ early = [p \in Pages |-> {}]

-----------------------------------------------------------------------------
(* An emitter *)

Goto(e, from, to) == pc[e] = from /\ pc' = [pc EXCEPT ![e] = to]

Emit(e) ==
  /\ Running /\ next < MaxEvents
  /\ Goto(e, "idle", "insert")
  /\ next' = next + 1 /\ ev' = [ev EXCEPT ![e] = next + 1]
  /\ UNCHANGED <<phase, mishaps, table, todo, sent, sockets, page>>

\* A failed insert is logged, and the event broadcast all the same.
InsertEvent(e) ==
  /\ Goto(e, "insert", "notify")
  /\ \/ table' = Append(table, ev[e]) /\ UNCHANGED mishaps
     \/ Mishap /\ UNCHANGED table
  /\ UNCHANGED <<phase, next, ev, todo, sent, sockets, page>>

\* Variant: without the lock.
NotifyUnlocked(e) ==
  /\ Goto(e, "notify", "write")
  /\ sent' = Append(sent, ev[e])
  /\ todo' = clients
  /\ UNCHANGED <<phase, mishaps, table, next, ev, sockets, page>>

\* Notify takes the lock and keeps it for all of its writes.
Notify(e) ==
  /\ ~Locked
  /\ Goto(e, "notify", "write")
  /\ sent' = Append(sent, ev[e])
  /\ todo' = clients
  /\ UNCHANGED <<phase, mishaps, table, next, ev, sockets, page>>

Write(c) ==
  /\ c \in todo
  /\ todo' = todo \ {c}
  /\ wire' = [wire EXCEPT ![c] = Append(@, sent[Len(sent)])]
  /\ UNCHANGED <<phase, mishaps, table, next, pc, ev, sent, accepted, clients, start, read, page>>

\* Variant: a client whose write failed stays.
DropNobody(c) == UNCHANGED clients

DropClient(c) == clients' = clients \ {c}

\* The connection is gone, or its page too slow for the 5 s: no further frame.
WriteFails(c) ==
  /\ c \in todo
  /\ todo' = todo \ {c}
  /\ DropClient(c)
  /\ IF Live(c) THEN Mishap ELSE UNCHANGED mishaps
  /\ UNCHANGED <<phase, table, next, pc, ev, sent, accepted, start, wire, read, page>>

Unlock(e) ==
  /\ todo = {}
  /\ Goto(e, "write", "idle")
  /\ ev' = [ev EXCEPT ![e] = 0]
  /\ UNCHANGED <<phase, mishaps, table, next, todo, sent, sockets, page>>

-----------------------------------------------------------------------------
(* Connections *)

\* The answer of the handshake comes before the connection is in the hub.
Accept(p) ==
  /\ phase = "serving" /\ ~link[p] /\ cur[p] < MaxConns
  /\ cur' = [cur EXCEPT ![p] = @ + 1] /\ link' = [link EXCEPT ![p] = TRUE]
  /\ accepted' = accepted \cup {<<p, cur[p] + 1>>}
  /\ UNCHANGED <<phase, mishaps, server, clients, start, wire, read, get, answer, feed, early>>

\* Variant: a new client gets the last broadcast at once.
RegisterReplay(c) ==
  LET old == IF sent = <<>> THEN <<>> ELSE <<sent[Len(sent)]>> IN
  /\ c \in accepted /\ ~Locked
  /\ accepted' = accepted \ {c} /\ clients' = clients \cup {c}
  /\ start' = [start EXCEPT ![c] = Len(sent) - Len(old)]
  /\ wire' = [wire EXCEPT ![c] = old]
  /\ UNCHANGED <<phase, mishaps, server, read, page>>

Register(c) ==
  /\ c \in accepted /\ ~Locked
  /\ accepted' = accepted \ {c} /\ clients' = clients \cup {c}
  /\ start' = [start EXCEPT ![c] = Len(sent)]
  /\ UNCHANGED <<phase, mishaps, server, wire, read, page>>

\* Variant: readLoop returns without taking its connection out of the hub.
ReadLoopEndsQuietly(c) ==
  /\ c \in clients /\ ~Live(c) /\ ~Locked
  /\ UNCHANGED feedVars

\* The read of a dead connection fails; its removal waits for the lock.
ReadLoopEnds(c) ==
  /\ c \in clients /\ ~Live(c) /\ ~Locked
  /\ clients' = clients \ {c}
  /\ UNCHANGED <<phase, mishaps, server, accepted, start, wire, read, page>>

\* The network or the page ends the connection; the server does not know yet.
LoseLink(p) ==
  /\ link[p]
  /\ Mishap
  /\ link' = [link EXCEPT ![p] = FALSE]
  /\ UNCHANGED <<phase, server, sockets, cur, get, answer, feed, early>>

\* The server has closed it: onclose, possibly before the last frames.
SeeClose(p) ==
  /\ link[p] /\ Last(p) \notin accepted \cup clients
  /\ link' = [link EXCEPT ![p] = FALSE]
  /\ UNCHANGED <<phase, mishaps, server, sockets, cur, get, answer, feed, early>>

-----------------------------------------------------------------------------
(* The feed of a page *)

OnMessage(p) ==
  LET c == Last(p) IN
  /\ link[p] /\ read[c] < Len(wire[c])
  /\ read' = [read EXCEPT ![c] = @ + 1]
  /\ feed' = [feed EXCEPT ![p] = Trim(<<wire[c][read[c] + 1]>> \o @)]
  /\ UNCHANGED <<phase, mishaps, server, accepted, clients, start, wire, cur, link, get, answer, early>>

ListEvents(p) ==
  /\ phase = "serving" /\ get[p] = "asked"
  /\ get' = [get EXCEPT ![p] = "answered"]
  /\ answer' = [answer EXCEPT ![p] = Newest(table)]
  /\ UNCHANGED <<phase, mishaps, server, sockets, cur, link, feed, early>>

\* The answer replaces what the socket brought in the meantime; a failure clears it.
ShowAnswer(p) ==
  /\ \/ get[p] = "answered" /\ feed' = [feed EXCEPT ![p] = answer[p]] /\ UNCHANGED mishaps
     \/ /\ get[p] # "done" /\ feed' = [feed EXCEPT ![p] = <<>>]
        /\ IF phase = "serving" THEN Mishap ELSE UNCHANGED mishaps
  /\ get' = [get EXCEPT ![p] = "done"] /\ answer' = [answer EXCEPT ![p] = <<>>]
  /\ early' = [early EXCEPT ![p] = Handled(p)]
  /\ UNCHANGED <<phase, server, sockets, cur, link>>

-----------------------------------------------------------------------------
(* The process *)

\* Variant: a write goes on in the next process.
ExitKeepsWrite ==
  /\ pc' = [e \in Emitters |-> "idle"] /\ ev' = [e \in Emitters |-> 0]
  /\ accepted' = {} /\ clients' = {}
  /\ UNCHANGED <<table, next, todo, sent, start, wire, read, page>>

\* It ends with its goroutines, its hub and the server's ends of the connections.
Exit ==
  /\ pc' = [e \in Emitters |-> "idle"] /\ ev' = [e \in Emitters |-> 0] /\ todo' = {}
  /\ accepted' = {} /\ clients' = {}
  /\ UNCHANGED <<table, next, sent, start, wire, read, page>>

\* The part of a step of main that is seen here.
MainStep == IF phase' = "off" THEN Exit ELSE UNCHANGED <<server, sockets, page>>

FeedStep ==
  \/ \E e \in Emitters : Emit(e) \/ InsertEvent(e) \/ Notify(e) \/ Unlock(e)
  \/ \E c \in Conns : Write(c) \/ WriteFails(c) \/ Register(c) \/ ReadLoopEnds(c)
  \/ \E p \in Pages :
       \/ Accept(p) \/ LoseLink(p) \/ SeeClose(p)
       \/ OnMessage(p) \/ ListEvents(p) \/ ShowAnswer(p)

FeedSpec ==
  /\ phase = "off" /\ mishaps = 0 /\ FeedInit
  /\ [][FeedStep \/ (phase' \in Phases /\ mishaps' \in 0..MaxMishaps /\ MainStep)]_feedVars

\* The 5 s of a write, the fairness of sync.Mutex, the browser's event loop.
FeedFairness ==
  /\ \A e \in Emitters : SF_feedVars(InsertEvent(e) \/ Notify(e) \/ Unlock(e))
  /\ \A c \in Conns : SF_feedVars(Write(c) \/ WriteFails(c) \/ Register(c) \/ ReadLoopEnds(c))
  /\ \A p \in Pages : WF_feedVars(OnMessage(p)) /\ WF_feedVars(Accept(p) \/ SeeClose(p))

-----------------------------------------------------------------------------
(* Properties *)

\* Ranges of the variables; one emitter at most is past the lock.
FeedTypeOK ==
  /\ phase \in Phases /\ mishaps \in Nat
  /\ next \in 0..MaxEvents /\ table \in Seq(Events) /\ sent \in Seq(Events)
  /\ pc \in [Emitters -> {"idle", "insert", "notify", "write"}]
  /\ ev \in [Emitters -> 0..MaxEvents]
  /\ \A e \in Emitters : pc[e] = "idle" <=> ev[e] = 0
  /\ \A e, f \in Emitters : pc[e] = "write" /\ pc[f] = "write" => e = f
  /\ accepted \subseteq Conns /\ todo \subseteq clients /\ clients \subseteq Conns
  /\ start \in [Conns -> Nat] /\ wire \in [Conns -> Seq(Events)] /\ read \in [Conns -> Nat]
  /\ cur \in [Pages -> 0..MaxConns] /\ link \in [Pages -> BOOLEAN]
  /\ get \in [Pages -> {"asked", "answered", "done"}]
  /\ answer \in [Pages -> Seq(Events)] /\ feed \in [Pages -> Seq(Events)]
  /\ early \in [Pages -> SUBSET Events]

\* What went down a connection is the log of broadcasts from where the connection
\* joined, without a gap, and a client that is not waiting for the current write
\* has all of it: whoever emits at the same time, joins, fails or leaves (Notify).
Stream ==
  \A c \in Conns :
    LET behind == IF c \in todo THEN 1 ELSE 0 IN
    /\ start[c] + Len(wire[c]) <= Len(sent)
    /\ \A i \in 1..Len(wire[c]) : wire[c][i] = sent[start[c] + i]
    /\ c \in clients => start[c] + Len(wire[c]) + behind = Len(sent)
    /\ read[c] <= Len(wire[c])

\* A page handles a broadcast once, however often it reconnects and although the
\* hub may still hold its old connections (useLive, readLoop).
OnceBySocket ==
  \A c, d \in Conns : c[1] = d[1] =>
    \A i \in 1..read[c], j \in 1..read[d] :
      wire[c][i] = wire[d][j] => c = d /\ i = j

\* Over all its connections a page handles broadcasts in the order in which the hub
\* sent them: a frame of an old connection never comes after one of the next, although
\* both may be in the hub and be written to (useLive, Hub.Notify).
HandledInOrder ==
  \A c, d \in Conns : \A i \in 1..read[c], j \in 1..read[d] :
    c[1] = d[1] /\ (c[2] < d[2] \/ (c = d /\ i < j)) =>
      \A m, n \in 1..Len(sent) : sent[m] = wire[c][i] /\ sent[n] = wire[d][j] => m < n

\* What a page has handled it shows, until newer events push it out: all that goes
\* missing is what came before the answer of GET /api/events and is not in it
\* (EventFeed.jsx replaces the list), and what was sent while it had no connection.
HandledIsShown ==
  \A p \in Pages :
    get[p] = "done" /\ Len(feed[p]) < Limit =>
      Handled(p) \ early[p] \subseteq {feed[p][i] : i \in 1..Len(feed[p])}

\* The hub is a broadcast log with subscriptions: what a page receives on a
\* connection is the log in its order (Hub.Notify, Hub.Handler).
Received == [c \in Conns |-> SubSeq(wire[c], 1, read[c])]
B == INSTANCE Broadcast WITH
  Subscriptions <- Conns, Entries <- Events, log <- sent, from <- start, got <- Received
ImplementsBroadcast == B!Spec

\* Every client of the hub comes to have handled all that was broadcast since it
\* joined, or leaves the hub: no slow client, dead connection or other emitter keeps
\* a broadcast from it, and no lost connection stays (Notify's 5 s, readLoop).
CatchesUp ==
  \A c \in Conns :
    []<>(c \in clients => Live(c) /\ start[c] + read[c] = Len(sent))
=============================================================================
