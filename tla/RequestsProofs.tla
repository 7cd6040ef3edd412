----------------------------- MODULE RequestsProofs -----------------------------
(***************************************************************************)
(* Search profiles are kept whole, and the pool unstuck, for any number of *)
(* requests, connections and failures: proofs.                             *)
(***************************************************************************)
EXTENDS Requests, FiniteSetTheorems, TLAPS

USE PoolAssumption

-----------------------------------------------------------------------------
(* The inductive invariant *)

\* TypeOK without the pool.
Types ==
  /\ row \in [Profiles -> Stamps]
  /\ tags \in [Profiles -> SUBSET Stamps] /\ sources \in [Profiles -> SUBSET Stamps]
  /\ clock \in Nat /\ mishaps \in 0..MaxMishaps
  /\ pc \in [Requests -> Steps]
  /\ kind \in [Requests -> Kinds \cup {None}] /\ id \in [Requests -> Profiles \cup {None}]
  /\ cleared \in [Requests -> [row : {0}, tags : SUBSET Stamps, sources : SUBSET Stamps]]
  /\ seen \in [Requests -> [row : Stamps, tags : SUBSET Stamps, sources : SUBSET Stamps]]
  /\ mine \in [Requests -> Stamps] /\ todo \in [Requests -> SUBSET Profiles]

PoolOK == Cardinality(Held) <= PoolSize

Writing == {"begin", "lock"} \cup Owning
Reading == {"row", "tags", "sources"}

\* What a request is where.
KindAt(r) ==
  /\ pc[r] # "idle" => id[r] \in Profiles /\ kind[r] \in Kinds
  /\ pc[r] # "idle" /\ kind[r] \in {"create", "insert"} => id[r] = r
  /\ pc[r] \in Writing => kind[r] \in {"create", "patch"}
  /\ pc[r] \in Reading => kind[r] \in {"get", "create", "patch"}
  /\ pc[r] \in Listing \cup {"outer"} => kind[r] = "list"
  /\ pc[r] = "columns" => kind[r] \in {"rows", "insert", "edit"}
  /\ pc[r] \in {"count", "page"} => kind[r] = "rows"
  /\ pc[r] \in {"conn", "exec"} => kind[r] \in {"delete", "insert", "edit"}
  /\ mine[r] # 0 => kind[r] \in {"create", "patch"} /\ pc[r] \in Reading \cup {"done"}
  /\ pc[r] \in {"idle", "row"} \cup Writing =>
       seen[r].row = 0 /\ seen[r].tags = {} /\ seen[r].sources = {}
  /\ pc[r] = "tags" => seen[r].tags = {} /\ seen[r].sources = {}
  /\ pc[r] \in {"sources", "list sources"} => seen[r].sources = {}

KindOK == \A r \in Requests : KindAt(r)

\* A new row is there once its request has committed it.
NewOK ==
  \A r \in Requests :
    row[r] # 0 => pc[r] \in Reading \cup {"done"} /\ kind[r] \in {"create", "insert"}

\* One request owns a row, and nobody removes it from under a PATCH.
OwnerOK ==
  /\ \A r, q \in Requests : pc[r] \in Owning /\ pc[q] \in Owning /\ id[r] = id[q] => r = q
  /\ \A r \in Requests : pc[r] \in Owning /\ kind[r] = "patch" => row[id[r]] # 0

\* What the owner's DELETEs found is all there is.
ClearedOK ==
  \A r \in Requests :
    /\ pc[r] \in {"delete sources", "commit"} => tags[id[r]] \subseteq cleared[r].tags
    /\ pc[r] = "commit" => sources[id[r]] \subseteq cleared[r].sources

\* The child rows of a profile are of one write, or it has none.
ChildOK ==
  /\ tags = sources
  /\ \A i \in Profiles : \A s, t \in tags[i] : s = t
  /\ \A i \in Profiles : row[i] = 0 => tags[i] = {}

\* What a request will still read is at least as new as its write, and as the tags
\* that it has read.
NewerOK ==
  \A r \in Requests :
    /\ mine[r] # 0 => /\ row[id[r]] # 0 => row[id[r]] >= mine[r]
                      /\ \A t \in tags[id[r]] : t >= mine[r]
    /\ pc[r] \in {"sources", "list sources"} =>
         \A t \in seen[r].tags, s \in sources[id[r]] : t <= s

DataInv == NewOK /\ OwnerOK /\ ClearedOK /\ ChildOK /\ NewerOK /\ AnswersForward

IInv == Types /\ PoolOK /\ KindOK /\ DataInv

-----------------------------------------------------------------------------
(* What a step does, seen from its request *)

\* A step changes what belongs to its own request.
Only(r) ==
  /\ pc' = [pc EXCEPT ![r] = pc'[r]]
  /\ kind' = [kind EXCEPT ![r] = kind'[r]]
  /\ id' = [id EXCEPT ![r] = id'[r]]
  /\ cleared' = [cleared EXCEPT ![r] = cleared'[r]]
  /\ mine' = [mine EXCEPT ![r] = mine'[r]]
  /\ seen' = [seen EXCEPT ![r] = seen'[r]]
  /\ todo' = [todo EXCEPT ![r] = todo'[r]]

LEMMA SameBut == ASSUME NEW S, NEW f, f = [x \in S |-> f[x]], NEW r PROVE [f EXCEPT ![r] = f[r]] = f
  OBVIOUS

LEMMA Kept ==
  ASSUME Types, NEW r \in Requests
  PROVE  /\ pc' = pc => pc' = [pc EXCEPT ![r] = pc'[r]]
         /\ kind' = kind => kind' = [kind EXCEPT ![r] = kind'[r]]
         /\ id' = id => id' = [id EXCEPT ![r] = id'[r]]
         /\ cleared' = cleared => cleared' = [cleared EXCEPT ![r] = cleared'[r]]
         /\ mine' = mine => mine' = [mine EXCEPT ![r] = mine'[r]]
         /\ seen' = seen => seen' = [seen EXCEPT ![r] = seen'[r]]
         /\ todo' = todo => todo' = [todo EXCEPT ![r] = todo'[r]]
  BY SameBut DEF Types

StartAt(r) ==
  /\ UNCHANGED tables
  /\ cleared'[r] = cleared[r] /\ mine'[r] = mine[r] /\ seen'[r] = seen[r]
  /\ pc[r] = "idle"
  /\ kind'[r] \in Kinds /\ id'[r] \in Profiles
  /\ kind'[r] \in {"list", "create", "rows", "insert"} => id'[r] = r
  /\ pc'[r] = First[kind'[r]]

BeginAt(r) ==
  /\ UNCHANGED tables
  /\ kind'[r] = kind[r] /\ id'[r] = id[r] /\ cleared'[r] = cleared[r] /\ mine'[r] = mine[r] /\ seen'[r] = seen[r]
  /\ pc[r] = "begin" /\ pc'[r] = "lock"

InsertRowAt(r) ==
  /\ UNCHANGED tables
  /\ kind'[r] = kind[r] /\ id'[r] = id[r] /\ cleared'[r] = cleared[r] /\ mine'[r] = mine[r] /\ seen'[r] = seen[r]
  /\ pc[r] = "lock" /\ pc'[r] = "delete tags"
  /\ kind[r] = "create"

UpdateRowAt(r) ==
  /\ UNCHANGED tables
  /\ kind'[r] = kind[r] /\ id'[r] = id[r] /\ cleared'[r] = cleared[r] /\ mine'[r] = mine[r] /\ seen'[r] = seen[r]
  /\ pc[r] = "lock" /\ kind[r] = "patch"
  /\ RowFree(r)
  /\ pc'[r] = IF Gone(r) THEN "done" ELSE "delete tags"

DeleteTagsAt(r) ==
  /\ UNCHANGED tables
  /\ kind'[r] = kind[r] /\ id'[r] = id[r] /\ mine'[r] = mine[r] /\ seen'[r] = seen[r]
  /\ pc[r] = "delete tags" /\ pc'[r] = "delete sources"
  /\ cleared'[r].tags = tags[id[r]]
  /\ cleared'[r] = [row |-> cleared[r].row, tags |-> tags[id[r]], sources |-> cleared[r].sources]

ReplaceSourcesAt(r) ==
  /\ UNCHANGED tables
  /\ kind'[r] = kind[r] /\ id'[r] = id[r] /\ mine'[r] = mine[r] /\ seen'[r] = seen[r]
  /\ pc[r] = "delete sources" /\ pc'[r] = "commit"
  /\ cleared'[r].tags = cleared[r].tags
  /\ cleared'[r].sources = sources[id[r]]
  /\ cleared'[r] = [row |-> cleared[r].row, tags |-> cleared[r].tags, sources |-> sources[id[r]]]

CommitAt(r) ==
  /\ kind'[r] = kind[r] /\ id'[r] = id[r] /\ seen'[r] = seen[r]
  /\ pc[r] = "commit" /\ pc'[r] \in {"row", "done"}
  /\ mine'[r] = clock + 1
  /\ cleared'[r] = Nothing

GetRowAt(r) ==
  /\ UNCHANGED tables
  /\ kind'[r] = kind[r] /\ id'[r] = id[r] /\ cleared'[r] = cleared[r] /\ mine'[r] = mine[r]
  /\ pc[r] = "row" /\ pc'[r] \in {"tags", "done"}
  /\ seen'[r].row = row[id[r]]
  /\ seen'[r].tags = seen[r].tags /\ seen'[r].sources = seen[r].sources
  /\ seen'[r] = [row |-> row[id[r]], tags |-> seen[r].tags, sources |-> seen[r].sources]

LoadTagsAt(r) ==
  /\ UNCHANGED tables
  /\ kind'[r] = kind[r] /\ cleared'[r] = cleared[r] /\ mine'[r] = mine[r]
  /\ (pc[r] = "tags" /\ pc'[r] = "sources") \/ (pc[r] = "list tags" /\ pc'[r] = "list sources")
  /\ kind[r] # "list" => id'[r] = id[r]
  /\ id'[r] \in Profiles
  /\ seen'[r].row = seen[r].row
  /\ seen'[r].tags = tags[id'[r]] /\ seen'[r].sources = {}
  /\ seen'[r] = [row |-> seen[r].row, tags |-> tags[id'[r]], sources |-> {}]

LoadSourcesAt(r) ==
  /\ UNCHANGED tables
  /\ kind'[r] = kind[r] /\ id'[r] = id[r] /\ cleared'[r] = cleared[r] /\ mine'[r] = mine[r]
  /\ (pc[r] = "sources" /\ pc'[r] = "done") \/ (pc[r] = "list sources" /\ pc'[r] \in {"list tags", "done"})
  /\ seen'[r].row = seen[r].row
  /\ seen'[r].tags = seen[r].tags /\ seen'[r].sources = sources[id[r]]
  /\ seen'[r] = [row |-> seen[r].row, tags |-> seen[r].tags, sources |-> sources[id[r]]]

ListRowsAt(r) ==
  /\ UNCHANGED tables
  /\ kind'[r] = kind[r] /\ id'[r] = id[r] /\ cleared'[r] = cleared[r] /\ mine'[r] = mine[r] /\ seen'[r] = seen[r]
  /\ pc[r] = "outer" /\ pc'[r] \in {"list tags", "done"}

GridColumnsAt(r) ==
  /\ UNCHANGED tables
  /\ kind'[r] = kind[r] /\ id'[r] = id[r] /\ cleared'[r] = cleared[r] /\ mine'[r] = mine[r] /\ seen'[r] = seen[r]
  /\ pc[r] = "columns" /\ pc'[r] = IF kind[r] = "rows" THEN "count" ELSE "conn"

GridRowsAt(r) ==
  /\ UNCHANGED tables
  /\ kind'[r] = kind[r] /\ id'[r] = id[r] /\ cleared'[r] = cleared[r] /\ mine'[r] = mine[r] /\ seen'[r] = seen[r]
  /\ (pc[r] = "count" /\ pc'[r] = "page") \/ (pc[r] = "page" /\ pc'[r] = "done")

AcquireAt(r) ==
  /\ UNCHANGED tables
  /\ kind'[r] = kind[r] /\ id'[r] = id[r] /\ cleared'[r] = cleared[r] /\ mine'[r] = mine[r] /\ seen'[r] = seen[r]
  /\ pc[r] = "conn" /\ pc'[r] = "exec"

DeleteAt(r) ==
  /\ kind'[r] = kind[r] /\ id'[r] = id[r] /\ cleared'[r] = cleared[r] /\ mine'[r] = mine[r] /\ seen'[r] = seen[r]
  /\ pc[r] = "exec" /\ pc'[r] = "done"

GridUpdateAt(r) ==
  /\ kind'[r] = kind[r] /\ id'[r] = id[r] /\ cleared'[r] = cleared[r] /\ mine'[r] = mine[r] /\ seen'[r] = seen[r]
  /\ pc[r] = "exec" /\ pc'[r] = "done"

GridInsertAt(r) ==
  /\ kind'[r] = kind[r] /\ id'[r] = id[r] /\ cleared'[r] = cleared[r] /\ mine'[r] = mine[r] /\ seen'[r] = seen[r]
  /\ pc[r] = "exec" /\ pc'[r] = "done"

FailAt(r) ==
  /\ UNCHANGED tables
  /\ kind'[r] = kind[r] /\ id'[r] = id[r] /\ cleared'[r] = cleared[r] /\ mine'[r] = mine[r] /\ seen'[r] = seen[r]
  /\ pc[r] \notin {"idle", "done"} /\ pc'[r] = "done"

-----------------------------------------------------------------------------
(* One lemma for each action *)

LEMMA StartDoes == ASSUME Types, KindOK, NEW r \in Requests, Start(r) PROVE Only(r) /\ StartAt(r)
<1>1. Only(r)
  BY Kept DEF Only, Types, Start, Goto, request, tables
<1>2. UNCHANGED tables /\ cleared' = cleared /\ mine' = mine /\ seen' = seen /\ pc[r] = "idle"
  BY DEF Start
<1>3. PICK k \in Kinds, i \in Profiles :
        /\ k \in {"list", "create", "rows", "insert"} => i = r
        /\ kind' = [kind EXCEPT ![r] = k] /\ id' = [id EXCEPT ![r] = i]
        /\ pc' = [pc EXCEPT ![r] = First[k]]
  BY DEF Start
<1>4. kind'[r] = k /\ id'[r] = i /\ pc'[r] = First[k]
  BY <1>3 DEF Types
<1>5. StartAt(r)
  BY <1>2, <1>3, <1>4 DEF StartAt
<1> QED
  BY <1>1, <1>5

LEMMA BeginDoes == ASSUME Types, KindOK, NEW r \in Requests, Begin(r) PROVE Only(r) /\ BeginAt(r)
<1>1. Only(r)
  BY Kept DEF Only, Types, Begin, Goto, request, tables
<1>2. BeginAt(r)
  BY DEF BeginAt, Types, Begin, Goto, request, tables, KindOK, KindAt, Listing, Reading, Steps, Fetching
<1> QED
  BY <1>1, <1>2

LEMMA InsertRowDoes == ASSUME Types, KindOK, NEW r \in Requests, InsertRow(r) PROVE Only(r) /\ InsertRowAt(r)
<1>1. Only(r)
  BY Kept DEF Only, Types, InsertRow, Goto, request, tables
<1>2. InsertRowAt(r)
  BY DEF InsertRowAt, Types, InsertRow, Goto, request, tables, KindOK, KindAt, Listing, Reading, Steps, Fetching
<1> QED
  BY <1>1, <1>2

LEMMA UpdateRowDoes == ASSUME Types, KindOK, NEW r \in Requests, UpdateRow(r) PROVE Only(r) /\ UpdateRowAt(r)
<1>1. Only(r)
  BY Kept DEF Only, Types, UpdateRow, Goto, request, tables
<1>2. UpdateRowAt(r)
  BY DEF UpdateRowAt, Types, UpdateRow, Goto, request, tables, KindOK, KindAt, Listing, Reading, Steps, Fetching
<1> QED
  BY <1>1, <1>2

LEMMA DeleteTagsDoes == ASSUME Types, KindOK, NEW r \in Requests, DeleteTags(r) PROVE Only(r) /\ DeleteTagsAt(r)
<1>1. cleared \in [Requests -> [row : {0}, tags : SUBSET Stamps, sources : SUBSET Stamps]]
  BY DEF Types
<1>2. cleared' = [cleared EXCEPT ![r] = [row |-> cleared[r].row, tags |-> tags[id[r]], sources |-> cleared[r].sources]]
  <2>1. cleared[r] \in [row : {0}, tags : SUBSET Stamps, sources : SUBSET Stamps]
    BY <1>1
  <2>2. [cleared[r] EXCEPT !.tags = tags[id[r]]] = [row |-> cleared[r].row, tags |-> tags[id[r]], sources |-> cleared[r].sources]
    BY <2>1
  <2>3. [cleared EXCEPT ![r].tags = tags[id[r]]] = [cleared EXCEPT ![r] = [cleared[r] EXCEPT !.tags = tags[id[r]]]]
    OBVIOUS
  <2>4. cleared' = [cleared EXCEPT ![r].tags = tags[id[r]]]
    BY DEF DeleteTags
  <2> QED
    BY <2>2, <2>3, <2>4
<1>3. kind' = kind /\ id' = id /\ mine' = mine /\ seen' = seen /\ todo' = todo
  BY DEF DeleteTags, Goto, request, tables
<1>4. pc' = [pc EXCEPT ![r] = pc'[r]]
  BY DEF DeleteTags, Goto, Types
<1>5. cleared' = [cleared EXCEPT ![r] = cleared'[r]] /\ cleared'[r] = [row |-> cleared[r].row, tags |-> tags[id[r]], sources |-> cleared[r].sources]
  BY <1>1, <1>2
<1>6. Only(r)
  BY <1>3, <1>4, <1>5, Kept DEF Only
<1>7. DeleteTagsAt(r)
  <2>1. UNCHANGED tables
    BY DEF DeleteTags
  <2>2. pc[r] = "delete tags" /\ pc'[r] = "delete sources"
    BY DEF DeleteTags, Goto, Types
  <2>3. cleared'[r].row = cleared[r].row /\ cleared'[r].tags = tags[id[r]] /\ cleared'[r].sources = cleared[r].sources
    BY <1>5
  <2> QED
    BY <1>3, <1>5, <2>1, <2>2, <2>3 DEF DeleteTagsAt
<1> QED
  BY <1>6, <1>7

LEMMA ReplaceSourcesDoes == ASSUME Types, KindOK, NEW r \in Requests, ReplaceSources(r) PROVE Only(r) /\ ReplaceSourcesAt(r)
<1>1. cleared \in [Requests -> [row : {0}, tags : SUBSET Stamps, sources : SUBSET Stamps]]
  BY DEF Types
<1>2. cleared' = [cleared EXCEPT ![r] = [row |-> cleared[r].row, tags |-> cleared[r].tags, sources |-> sources[id[r]]]]
  <2>1. cleared[r] \in [row : {0}, tags : SUBSET Stamps, sources : SUBSET Stamps]
    BY <1>1
  <2>2. [cleared[r] EXCEPT !.sources = sources[id[r]]] = [row |-> cleared[r].row, tags |-> cleared[r].tags, sources |-> sources[id[r]]]
    BY <2>1
  <2>3. [cleared EXCEPT ![r].sources = sources[id[r]]] = [cleared EXCEPT ![r] = [cleared[r] EXCEPT !.sources = sources[id[r]]]]
    OBVIOUS
  <2>4. cleared' = [cleared EXCEPT ![r].sources = sources[id[r]]]
    BY DEF ReplaceSources
  <2> QED
    BY <2>2, <2>3, <2>4
<1>3. kind' = kind /\ id' = id /\ mine' = mine /\ seen' = seen /\ todo' = todo
  BY DEF ReplaceSources, Goto, request, tables
<1>4. pc' = [pc EXCEPT ![r] = pc'[r]]
  BY DEF ReplaceSources, Goto, Types
<1>5. cleared' = [cleared EXCEPT ![r] = cleared'[r]] /\ cleared'[r] = [row |-> cleared[r].row, tags |-> cleared[r].tags, sources |-> sources[id[r]]]
  BY <1>1, <1>2
<1>6. Only(r)
  BY <1>3, <1>4, <1>5, Kept DEF Only
<1>7. ReplaceSourcesAt(r)
  <2>1. UNCHANGED tables
    BY DEF ReplaceSources
  <2>2. pc[r] = "delete sources" /\ pc'[r] = "commit"
    BY DEF ReplaceSources, Goto, Types
  <2>3. cleared'[r].row = cleared[r].row /\ cleared'[r].tags = cleared[r].tags /\ cleared'[r].sources = sources[id[r]]
    BY <1>5
  <2> QED
    BY <1>3, <1>5, <2>1, <2>2, <2>3 DEF ReplaceSourcesAt
<1> QED
  BY <1>6, <1>7

LEMMA CommitDoes == ASSUME Types, KindOK, NEW r \in Requests, Commit(r) PROVE Only(r) /\ CommitAt(r)
<1>1. Only(r)
  BY Kept DEF Only, Types, Commit, Goto, request, tables
<1>2. CommitAt(r)
  BY DEF CommitAt, Types, Commit, Goto, request, tables, KindOK, KindAt, Listing, Reading, Steps, Fetching
<1> QED
  BY <1>1, <1>2

LEMMA GetRowDoes == ASSUME Types, KindOK, NEW r \in Requests, GetRow(r) PROVE Only(r) /\ GetRowAt(r)
<1>1. seen \in [Requests -> [row : Stamps, tags : SUBSET Stamps, sources : SUBSET Stamps]]
  BY DEF Types
<1>2. seen' = [seen EXCEPT ![r] = [row |-> row[id[r]], tags |-> seen[r].tags, sources |-> seen[r].sources]]
  <2>1. seen[r] \in [row : Stamps, tags : SUBSET Stamps, sources : SUBSET Stamps]
    BY <1>1
  <2>2. [seen[r] EXCEPT !.row = row[id[r]]] = [row |-> row[id[r]], tags |-> seen[r].tags, sources |-> seen[r].sources]
    BY <2>1
  <2>3. [seen EXCEPT ![r].row = row[id[r]]] = [seen EXCEPT ![r] = [seen[r] EXCEPT !.row = row[id[r]]]]
    OBVIOUS
  <2>4. seen' = [seen EXCEPT ![r].row = row[id[r]]]
    BY DEF GetRow
  <2> QED
    BY <2>2, <2>3, <2>4
<1>3. kind' = kind /\ id' = id /\ cleared' = cleared /\ mine' = mine /\ todo' = todo
  BY DEF GetRow, Goto, request, tables
<1>4. pc' = [pc EXCEPT ![r] = pc'[r]]
  BY DEF GetRow, Goto, Types
<1>5. seen' = [seen EXCEPT ![r] = seen'[r]] /\ seen'[r] = [row |-> row[id[r]], tags |-> seen[r].tags, sources |-> seen[r].sources]
  BY <1>1, <1>2
<1>6. Only(r)
  BY <1>3, <1>4, <1>5, Kept DEF Only
<1>7. GetRowAt(r)
  <2>1. UNCHANGED tables
    BY DEF GetRow
  <2>2. pc[r] = "row" /\ pc'[r] \in {"tags", "done"}
    BY DEF GetRow, Goto, Types
  <2>3. seen'[r].row = row[id[r]] /\ seen'[r].tags = seen[r].tags /\ seen'[r].sources = seen[r].sources
    BY <1>5
  <2> QED
    BY <1>3, <1>5, <2>1, <2>2, <2>3 DEF GetRowAt
<1> QED
  BY <1>6, <1>7

LEMMA LoadTagsDoes == ASSUME Types, KindOK, NEW r \in Requests, LoadTags(r) PROVE Only(r) /\ LoadTagsAt(r)
<1>1. PICK i \in IF kind[r] = "list" THEN todo[r] ELSE {id[r]} :
        /\ Goto(r, "tags", "sources") \/ Goto(r, "list tags", "list sources")
        /\ id' = [id EXCEPT ![r] = i]
        /\ seen' = [seen EXCEPT ![r].tags = tags[i], ![r].sources = {}]
        /\ UNCHANGED <<tables, kind, cleared, mine, todo, mishaps>>
  BY DEF LoadTags
<1>2. seen \in [Requests -> [row : Stamps, tags : SUBSET Stamps, sources : SUBSET Stamps]]
  BY DEF Types
<1>3. seen' = [seen EXCEPT ![r] = [row |-> seen[r].row, tags |-> tags[i], sources |-> {}]]
  <2>1. seen[r] \in [row : Stamps, tags : SUBSET Stamps, sources : SUBSET Stamps]
    BY <1>2
  <2>2. [seen[r] EXCEPT !.tags = tags[i], !.sources = {}] = [[seen[r] EXCEPT !.tags = tags[i]] EXCEPT !.sources = {}]
    OBVIOUS
  <2>3. [seen[r] EXCEPT !.tags = tags[i]] = [row |-> seen[r].row, tags |-> tags[i], sources |-> seen[r].sources]
    BY <2>1
  <2>4. [[row |-> seen[r].row, tags |-> tags[i], sources |-> seen[r].sources] EXCEPT !.sources = {}]
          = [row |-> seen[r].row, tags |-> tags[i], sources |-> {}]
    OBVIOUS
  <2>5. [seen EXCEPT ![r].tags = tags[i], ![r].sources = {}]
          = [seen EXCEPT ![r] = [seen[r] EXCEPT !.tags = tags[i], !.sources = {}]]
    OBVIOUS
  <2> QED
    BY <1>1, <2>2, <2>3, <2>4, <2>5
<1>4. /\ seen' = [seen EXCEPT ![r] = seen'[r]]
      /\ seen'[r] = [row |-> seen[r].row, tags |-> tags[i], sources |-> {}]
  BY <1>2, <1>3
<1>5. id' = [id EXCEPT ![r] = id'[r]] /\ id'[r] = i
  BY <1>1 DEF Types
<1>6. pc' = [pc EXCEPT ![r] = pc'[r]]
  BY <1>1 DEF Types, Goto
<1>7. (pc[r] = "tags" /\ pc'[r] = "sources") \/ (pc[r] = "list tags" /\ pc'[r] = "list sources")
  BY <1>1 DEF Types, Goto
<1>8. i \in Profiles
  BY <1>1, <1>7 DEF Types, KindOK, KindAt
<1>9. Only(r)
  BY <1>1, <1>4, <1>5, <1>6, Kept DEF Only
<1>11. seen'[r].row = seen[r].row /\ seen'[r].tags = tags[i] /\ seen'[r].sources = {}
  BY <1>4
<1>12. seen'[r] = [row |-> seen[r].row, tags |-> tags[id'[r]], sources |-> {}]
  BY <1>4, <1>5
<1>10. LoadTagsAt(r)
  BY <1>1, <1>11, <1>12, <1>5, <1>7, <1>8 DEF LoadTagsAt
<1> QED
  BY <1>9, <1>10

LEMMA LoadSourcesDoes == ASSUME Types, KindOK, NEW r \in Requests, LoadSources(r) PROVE Only(r) /\ LoadSourcesAt(r)
<1>1. seen \in [Requests -> [row : Stamps, tags : SUBSET Stamps, sources : SUBSET Stamps]]
  BY DEF Types
<1>2. seen' = [seen EXCEPT ![r] = [row |-> seen[r].row, tags |-> seen[r].tags, sources |-> sources[id[r]]]]
  <2>1. seen[r] \in [row : Stamps, tags : SUBSET Stamps, sources : SUBSET Stamps]
    BY <1>1
  <2>2. [seen[r] EXCEPT !.sources = sources[id[r]]] = [row |-> seen[r].row, tags |-> seen[r].tags, sources |-> sources[id[r]]]
    BY <2>1
  <2>3. [seen EXCEPT ![r].sources = sources[id[r]]] = [seen EXCEPT ![r] = [seen[r] EXCEPT !.sources = sources[id[r]]]]
    OBVIOUS
  <2>4. seen' = [seen EXCEPT ![r].sources = sources[id[r]]]
    BY DEF LoadSources
  <2> QED
    BY <2>2, <2>3, <2>4
<1>3. kind' = kind /\ id' = id /\ cleared' = cleared /\ mine' = mine
  BY DEF LoadSources, Goto, request, tables
<1>4. pc' = [pc EXCEPT ![r] = pc'[r]] /\ todo' = [todo EXCEPT ![r] = todo'[r]]
  BY DEF LoadSources, Goto, Types
<1>5. seen' = [seen EXCEPT ![r] = seen'[r]] /\ seen'[r] = [row |-> seen[r].row, tags |-> seen[r].tags, sources |-> sources[id[r]]]
  BY <1>1, <1>2
<1>6. Only(r)
  BY <1>3, <1>4, <1>5, Kept DEF Only
<1>7. LoadSourcesAt(r)
  <2>1. UNCHANGED tables
    BY DEF LoadSources
  <2>2. (pc[r] = "sources" /\ pc'[r] = "done") \/ (pc[r] = "list sources" /\ pc'[r] \in {"list tags", "done"})
    BY DEF LoadSources, Goto, Types
  <2>3. seen'[r].row = seen[r].row /\ seen'[r].tags = seen[r].tags /\ seen'[r].sources = sources[id[r]]
    BY <1>5
  <2> QED
    BY <1>3, <1>5, <2>1, <2>2, <2>3 DEF LoadSourcesAt
<1> QED
  BY <1>6, <1>7

LEMMA ListRowsDoes == ASSUME Types, KindOK, NEW r \in Requests, ListRows(r) PROVE Only(r) /\ ListRowsAt(r)
<1>1. kind' = kind /\ id' = id /\ cleared' = cleared /\ mine' = mine /\ seen' = seen
  BY DEF ListRows
<1>2. PICK all : todo' = [todo EXCEPT ![r] = all]
  BY DEF ListRows
<1>3. todo' = [todo EXCEPT ![r] = todo'[r]]
  BY <1>2 DEF Types
<1>4. pc' = [pc EXCEPT ![r] = pc'[r]]
  BY DEF ListRows, Goto, Types
<1>5. Only(r)
  BY <1>1, <1>3, <1>4, Kept DEF Only
<1>6. ListRowsAt(r)
  BY DEF ListRowsAt, Types, ListRows, Goto, tables
<1> QED
  BY <1>5, <1>6

LEMMA GridColumnsDoes == ASSUME Types, KindOK, NEW r \in Requests, GridColumns(r) PROVE Only(r) /\ GridColumnsAt(r)
<1>1. Only(r)
  BY Kept DEF Only, Types, GridColumns, Goto, request, tables
<1>2. GridColumnsAt(r)
  BY DEF GridColumnsAt, Types, GridColumns, Goto, request, tables, KindOK, KindAt, Listing, Reading, Steps, Fetching
<1> QED
  BY <1>1, <1>2

LEMMA GridRowsDoes == ASSUME Types, KindOK, NEW r \in Requests, GridRows(r) PROVE Only(r) /\ GridRowsAt(r)
<1>1. Only(r)
  BY Kept DEF Only, Types, GridRows, Goto, request, tables
<1>2. GridRowsAt(r)
  BY DEF GridRowsAt, Types, GridRows, Goto, request, tables, KindOK, KindAt, Listing, Reading, Steps, Fetching
<1> QED
  BY <1>1, <1>2

LEMMA AcquireDoes == ASSUME Types, KindOK, NEW r \in Requests, Acquire(r) PROVE Only(r) /\ AcquireAt(r)
<1>1. Only(r)
  BY Kept DEF Only, Types, Acquire, Goto, request, tables
<1>2. AcquireAt(r)
  BY DEF AcquireAt, Types, Acquire, Goto, request, tables, KindOK, KindAt, Listing, Reading, Steps, Fetching
<1> QED
  BY <1>1, <1>2

LEMMA DeleteDoes == ASSUME Types, KindOK, NEW r \in Requests, Delete(r) PROVE Only(r) /\ DeleteAt(r)
<1>1. Only(r)
  BY Kept DEF Only, Types, Delete, Goto, request, tables
<1>2. DeleteAt(r)
  BY DEF DeleteAt, Types, Delete, Goto, request, tables, KindOK, KindAt, Listing, Reading, Steps, Fetching
<1> QED
  BY <1>1, <1>2

LEMMA GridUpdateDoes == ASSUME Types, KindOK, NEW r \in Requests, GridUpdate(r) PROVE Only(r) /\ GridUpdateAt(r)
<1>1. Only(r)
  BY Kept DEF Only, Types, GridUpdate, Goto, request, tables
<1>2. GridUpdateAt(r)
  BY DEF GridUpdateAt, Types, GridUpdate, Goto, request, tables, KindOK, KindAt, Listing, Reading, Steps, Fetching
<1> QED
  BY <1>1, <1>2

LEMMA GridInsertDoes == ASSUME Types, KindOK, NEW r \in Requests, GridInsert(r) PROVE Only(r) /\ GridInsertAt(r)
<1>1. Only(r)
  BY Kept DEF Only, Types, GridInsert, Goto, request, tables
<1>2. GridInsertAt(r)
  BY DEF GridInsertAt, Types, GridInsert, Goto, request, tables, KindOK, KindAt, Listing, Reading, Steps, Fetching
<1> QED
  BY <1>1, <1>2

LEMMA FailDoes == ASSUME Types, KindOK, NEW r \in Requests, Fail(r) PROVE Only(r) /\ FailAt(r)
<1>1. Only(r)
  BY Kept DEF Only, Types, Fail, Goto, request, tables
<1>2. FailAt(r)
  BY DEF FailAt, Types, Fail, Goto, request, tables, KindOK, KindAt, Listing, Reading, Steps, Fetching
<1> QED
  BY <1>1, <1>2

-----------------------------------------------------------------------------
(* The other requests, the tables *)

LEMMA OthersSame ==
  ASSUME Types, NEW r \in Requests, Only(r), NEW q \in Requests, q # r
  PROVE  /\ pc'[q] = pc[q] /\ kind'[q] = kind[q] /\ id'[q] = id[q] /\ cleared'[q] = cleared[q]
         /\ mine'[q] = mine[q] /\ seen'[q] = seen[q] /\ todo'[q] = todo[q]
  BY DEF Only, Types

LEMMA OnlyOwn == ASSUME Types, KindOK, NEW r \in Requests, Step(r) \/ Fail(r) PROVE Only(r)
  BY StartDoes, BeginDoes, InsertRowDoes, UpdateRowDoes, DeleteTagsDoes, ReplaceSourcesDoes, CommitDoes, GetRowDoes, LoadTagsDoes, LoadSourcesDoes, ListRowsDoes, GridColumnsDoes, GridRowsDoes, AcquireDoes, DeleteDoes, GridUpdateDoes, GridInsertDoes, FailDoes DEF Step

LEMMA FirstStep ==
  ASSUME NEW k \in Kinds
  PROVE  /\ First[k] \in {"outer", "row", "begin", "conn", "columns"}
         /\ First[k] = "outer" => k = "list"
         /\ First[k] = "row" => k = "get"
         /\ First[k] = "begin" => k \in {"create", "patch"}
         /\ First[k] = "conn" => k = "delete"
         /\ First[k] = "columns" => k \in {"rows", "insert", "edit"}
  BY DEF First, Kinds

LEMMA KindNext == ASSUME Types, KindOK, NEW r \in Requests, Step(r) \/ Fail(r) PROVE KindOK'
<1> SUFFICES KindAt(r)'
  <2>1. \A q \in Requests : q # r => KindAt(q)'
    <3> SUFFICES ASSUME NEW q \in Requests, q # r PROVE KindAt(q)'
      OBVIOUS
    <3>1. Only(r)
      BY OnlyOwn
    <3>2. pc'[q] = pc[q] /\ kind'[q] = kind[q] /\ id'[q] = id[q] /\ mine'[q] = mine[q] /\ seen'[q] = seen[q]
      BY <3>1, OthersSame
    <3>3. KindAt(q)
      BY DEF KindOK
    <3> QED
      BY <3>2, <3>3 DEF KindAt
  <2> QED
    BY <2>1 DEF KindOK
<1>0. KindAt(r)
  BY DEF KindOK
<1>start. ASSUME Start(r)
      PROVE  /\ pc'[r] \in {"outer", "row", "begin", "conn", "columns"}
             /\ pc'[r] = "outer" => kind'[r] = "list"
             /\ pc'[r] = "row" => kind'[r] = "get"
             /\ pc'[r] = "begin" => kind'[r] \in {"create", "patch"}
             /\ pc'[r] = "conn" => kind'[r] = "delete"
             /\ pc'[r] = "columns" => kind'[r] \in {"rows", "insert", "edit"}
  BY <1>start, StartDoes, FirstStep DEF StartAt
<1>1. CASE Start(r)
  BY <1>0, <1>1, StartDoes, <1>start DEF StartAt, KindAt, Kinds, Steps, Fetching, Locking, Owning, Listing, Writing, Reading
<1>2. CASE Begin(r)
  BY <1>0, <1>2, BeginDoes DEF BeginAt, KindAt, Kinds, Steps, Fetching, Locking, Owning, Listing, Writing, Reading
<1>3. CASE InsertRow(r)
  BY <1>0, <1>3, InsertRowDoes DEF InsertRowAt, KindAt, Kinds, Steps, Fetching, Locking, Owning, Listing, Writing, Reading
<1>4. CASE UpdateRow(r)
  BY <1>0, <1>4, UpdateRowDoes DEF UpdateRowAt, KindAt, Kinds, Steps, Fetching, Locking, Owning, Listing, Writing, Reading
<1>5. CASE DeleteTags(r)
  BY <1>0, <1>5, DeleteTagsDoes DEF DeleteTagsAt, KindAt, Kinds, Steps, Fetching, Locking, Owning, Listing, Writing, Reading
<1>6. CASE ReplaceSources(r)
  BY <1>0, <1>6, ReplaceSourcesDoes DEF ReplaceSourcesAt, KindAt, Kinds, Steps, Fetching, Locking, Owning, Listing, Writing, Reading
<1>7. CASE Commit(r)
  BY <1>0, <1>7, CommitDoes DEF CommitAt, KindAt, Kinds, Steps, Fetching, Locking, Owning, Listing, Writing, Reading
<1>8. CASE GetRow(r)
  BY <1>0, <1>8, GetRowDoes DEF GetRowAt, KindAt, Kinds, Steps, Fetching, Locking, Owning, Listing, Writing, Reading
<1>9. CASE LoadTags(r)
  BY <1>0, <1>9, LoadTagsDoes DEF LoadTagsAt, KindAt, Kinds, Steps, Fetching, Locking, Owning, Listing, Writing, Reading
<1>10. CASE LoadSources(r)
  BY <1>0, <1>10, LoadSourcesDoes DEF LoadSourcesAt, KindAt, Kinds, Steps, Fetching, Locking, Owning, Listing, Writing, Reading
<1>11. CASE ListRows(r)
  BY <1>0, <1>11, ListRowsDoes DEF ListRowsAt, KindAt, Kinds, Steps, Fetching, Locking, Owning, Listing, Writing, Reading
<1>12. CASE GridColumns(r)
  BY <1>0, <1>12, GridColumnsDoes DEF GridColumnsAt, KindAt, Kinds, Steps, Fetching, Locking, Owning, Listing, Writing, Reading
<1>13. CASE GridRows(r)
  BY <1>0, <1>13, GridRowsDoes DEF GridRowsAt, KindAt, Kinds, Steps, Fetching, Locking, Owning, Listing, Writing, Reading
<1>14. CASE Acquire(r)
  BY <1>0, <1>14, AcquireDoes DEF AcquireAt, KindAt, Kinds, Steps, Fetching, Locking, Owning, Listing, Writing, Reading
<1>15. CASE Delete(r)
  BY <1>0, <1>15, DeleteDoes DEF DeleteAt, KindAt, Kinds, Steps, Fetching, Locking, Owning, Listing, Writing, Reading
<1>16. CASE GridUpdate(r)
  BY <1>0, <1>16, GridUpdateDoes DEF GridUpdateAt, KindAt, Kinds, Steps, Fetching, Locking, Owning, Listing, Writing, Reading
<1>17. CASE GridInsert(r)
  BY <1>0, <1>17, GridInsertDoes DEF GridInsertAt, KindAt, Kinds, Steps, Fetching, Locking, Owning, Listing, Writing, Reading
<1>18. CASE Fail(r)
  BY <1>0, <1>18, FailDoes DEF FailAt, KindAt, Kinds, Steps, Fetching, Locking, Owning, Listing, Writing, Reading
<1> QED
  BY <1>1, <1>2, <1>3, <1>4, <1>5, <1>6, <1>7, <1>8, <1>9, <1>10, <1>11, <1>12, <1>13, <1>14, <1>15, <1>16, <1>17, <1>18 DEF Step

\* What the four statements that write do to the profile and to the others.
Elsewhere(r) ==
  \A j \in Profiles : j # id[r] => row'[j] = row[j] /\ tags'[j] = tags[j] /\ sources'[j] = sources[j]

LEMMA CommitWrites ==
  ASSUME Types, KindOK, NEW r \in Requests, Commit(r)
  PROVE  /\ Elsewhere(r) /\ clock' = clock + 1 /\ id[r] \in Profiles
         /\ row'[id[r]] = clock + 1
         /\ tags'[id[r]] = (tags[id[r]] \ cleared[r].tags) \cup {clock + 1}
         /\ sources'[id[r]] = (sources[id[r]] \ cleared[r].sources) \cup {clock + 1}
<1>1. id[r] \in Profiles
  BY DEF Commit, KindOK, KindAt
<1> QED
  BY <1>1 DEF Commit, Types, Elsewhere

LEMMA DeleteWrites ==
  ASSUME Types, KindOK, NEW r \in Requests, Delete(r)
  PROVE  /\ Elsewhere(r) /\ clock' = clock /\ id[r] \in Profiles
         /\ row'[id[r]] = 0 /\ tags'[id[r]] = {} /\ sources'[id[r]] = {}
<1>1. id[r] \in Profiles
  BY DEF Delete, Goto, KindOK, KindAt
<1> QED
  BY <1>1 DEF Delete, Types, Elsewhere

LEMMA GridUpdateWrites ==
  ASSUME Types, KindOK, NEW r \in Requests, GridUpdate(r)
  PROVE  /\ Elsewhere(r) /\ id[r] \in Profiles
         /\ tags' = tags /\ sources' = sources
         /\ \/ row'[id[r]] = row[id[r]] /\ clock' = clock
            \/ row[id[r]] # 0 /\ row'[id[r]] = clock + 1 /\ clock' = clock + 1
<1>1. id[r] \in Profiles
  BY DEF GridUpdate, Goto, KindOK, KindAt
<1>2. CASE Gone(r)
  BY <1>1, <1>2 DEF GridUpdate, Types, Elsewhere
<1>3. CASE ~Gone(r)
  BY <1>1, <1>3 DEF GridUpdate, Types, Elsewhere, Gone
<1> QED
  BY <1>2, <1>3

LEMMA GridInsertWrites ==
  ASSUME Types, KindOK, NEW r \in Requests, GridInsert(r)
  PROVE  /\ Elsewhere(r) /\ id[r] \in Profiles /\ id[r] = r
         /\ tags' = tags /\ sources' = sources
         /\ row'[id[r]] = clock + 1 /\ clock' = clock + 1
<1>1. id[r] \in Profiles /\ id[r] = r
  BY DEF GridInsert, Goto, KindOK, KindAt
<1> QED
  BY <1>1 DEF GridInsert, Types, Elsewhere

Quiet(r) ==
  \/ Start(r)
  \/ Begin(r)
  \/ InsertRow(r)
  \/ UpdateRow(r)
  \/ DeleteTags(r)
  \/ ReplaceSources(r)
  \/ GetRow(r)
  \/ LoadTags(r)
  \/ LoadSources(r)
  \/ ListRows(r)
  \/ GridColumns(r)
  \/ GridRows(r)
  \/ Acquire(r)
  \/ Fail(r)

LEMMA QuietTables == ASSUME Types, KindOK, NEW r \in Requests, Quiet(r) PROVE UNCHANGED <<row, tags, sources, clock>>
<1>1. CASE Start(r)
  BY <1>1, StartDoes DEF StartAt, tables
<1>2. CASE Begin(r)
  BY <1>2, BeginDoes DEF BeginAt, tables
<1>3. CASE InsertRow(r)
  BY <1>3, InsertRowDoes DEF InsertRowAt, tables
<1>4. CASE UpdateRow(r)
  BY <1>4, UpdateRowDoes DEF UpdateRowAt, tables
<1>5. CASE DeleteTags(r)
  BY <1>5, DeleteTagsDoes DEF DeleteTagsAt, tables
<1>6. CASE ReplaceSources(r)
  BY <1>6, ReplaceSourcesDoes DEF ReplaceSourcesAt, tables
<1>7. CASE GetRow(r)
  BY <1>7, GetRowDoes DEF GetRowAt, tables
<1>8. CASE LoadTags(r)
  BY <1>8, LoadTagsDoes DEF LoadTagsAt, tables
<1>9. CASE LoadSources(r)
  BY <1>9, LoadSourcesDoes DEF LoadSourcesAt, tables
<1>10. CASE ListRows(r)
  BY <1>10, ListRowsDoes DEF ListRowsAt, tables
<1>11. CASE GridColumns(r)
  BY <1>11, GridColumnsDoes DEF GridColumnsAt, tables
<1>12. CASE GridRows(r)
  BY <1>12, GridRowsDoes DEF GridRowsAt, tables
<1>13. CASE Acquire(r)
  BY <1>13, AcquireDoes DEF AcquireAt, tables
<1>14. CASE Fail(r)
  BY <1>14, FailDoes DEF FailAt, tables
<1> QED
  BY <1>1, <1>2, <1>3, <1>4, <1>5, <1>6, <1>7, <1>8, <1>9, <1>10, <1>11, <1>12, <1>13, <1>14 DEF Quiet

LEMMA QuietOrNot ==
  ASSUME NEW r \in Requests, Step(r) \/ Fail(r)
  PROVE  Quiet(r) \/ Commit(r) \/ Delete(r) \/ GridUpdate(r) \/ GridInsert(r)
  BY DEF Step, Quiet

LEMMA RequestsAreProfiles == Requests \subseteq Profiles
  BY DEF Profiles

\* A row comes to be by the request that it is named for.
LEMMA RowsAppear ==
  ASSUME Types, KindOK, OwnerOK, NEW r \in Requests, Step(r) \/ Fail(r),
         NEW i \in Profiles, row'[i] # 0, row[i] = 0
  PROVE  i = r /\ pc'[r] \in {"row", "done"} /\ kind'[r] \in {"create", "insert"}
<1>1. CASE Quiet(r)
  BY <1>1, QuietTables
<1>2. CASE Commit(r)
  <2>1. i = id[r]
    BY <1>2, CommitWrites DEF Elsewhere
  <2>2. pc[r] = "commit" /\ kind[r] \in {"create", "patch"} /\ kind'[r] = kind[r] /\ pc'[r] \in {"row", "done"}
    BY <1>2, CommitDoes DEF CommitAt, KindOK, KindAt, Writing, Owning
  <2>3. kind[r] # "patch"
    BY <2>1, <2>2 DEF OwnerOK, Owning
  <2> QED
    BY <2>1, <2>2, <2>3 DEF KindOK, KindAt
<1>3. CASE Delete(r)
  BY <1>3, DeleteWrites DEF Elsewhere
<1>4. CASE GridUpdate(r)
  BY <1>4, GridUpdateWrites DEF Elsewhere
<1>5. CASE GridInsert(r)
  <2>1. i = id[r] /\ id[r] = r
    BY <1>5, GridInsertWrites DEF Elsewhere
  <2> QED
    BY <1>5, <2>1, GridInsertDoes DEF GridInsertAt, GridInsert
<1> QED
  BY <1>1, <1>2, <1>3, <1>4, <1>5, QuietOrNot

\* A row that somebody owns stays.
LEMMA RowsVanish ==
  ASSUME Types, KindOK, NEW r \in Requests, Step(r) \/ Fail(r),
         NEW i \in Profiles, row'[i] = 0, row[i] # 0
  PROVE  Owners(i) = {}
<1>1. CASE Quiet(r)
  BY <1>1, QuietTables
<1>2. CASE Commit(r)
  BY <1>2, CommitWrites DEF Elsewhere, Types
<1>3. CASE Delete(r)
  <2>1. i = id[r]
    BY <1>3, DeleteWrites DEF Elsewhere
  <2> QED
    BY <1>3, <2>1 DEF Delete, RowFree, Gone
<1>4. CASE GridUpdate(r)
  <2>1. clock + 1 # 0
    BY DEF Types
  <2> QED
    BY <1>4, <2>1, GridUpdateWrites DEF Elsewhere
<1>5. CASE GridInsert(r)
  BY <1>5, GridInsertWrites DEF Elsewhere, Types
<1> QED
  BY <1>1, <1>2, <1>3, <1>4, <1>5, QuietOrNot

-----------------------------------------------------------------------------
(* The parts of the invariant *)

LEMMA NewNext ==
  ASSUME Types, KindOK, OwnerOK, NewOK, NEW r \in Requests, Step(r) \/ Fail(r) PROVE NewOK'
<1> SUFFICES ASSUME NEW q \in Requests, row'[q] # 0
             PROVE  pc'[q] \in Reading \cup {"done"} /\ kind'[q] \in {"create", "insert"}
  BY DEF NewOK
<1>1. q \in Profiles
  BY RequestsAreProfiles
<1>2. CASE row[q] = 0
  BY <1>1, <1>2, RowsAppear DEF Reading
<1>3. CASE row[q] # 0 /\ q # r
  BY <1>3, OnlyOwn, OthersSame DEF NewOK
<1>4. CASE row[q] # 0 /\ q = r
  <2>0. pc[r] \in Reading \cup {"done"} /\ kind[r] \in {"create", "insert"}
    BY <1>4 DEF NewOK
  <2>1. CASE Start(r)
    BY <1>4, <2>0, <2>1, StartDoes DEF StartAt, First, Kinds, Steps, Fetching, Locking, Owning, Listing, Writing, Reading
  <2>2. CASE Begin(r)
    BY <1>4, <2>0, <2>2, BeginDoes DEF BeginAt, First, Kinds, Steps, Fetching, Locking, Owning, Listing, Writing, Reading
  <2>3. CASE InsertRow(r)
    BY <1>4, <2>0, <2>3, InsertRowDoes DEF InsertRowAt, First, Kinds, Steps, Fetching, Locking, Owning, Listing, Writing, Reading
  <2>4. CASE UpdateRow(r)
    BY <1>4, <2>0, <2>4, UpdateRowDoes DEF UpdateRowAt, First, Kinds, Steps, Fetching, Locking, Owning, Listing, Writing, Reading
  <2>5. CASE DeleteTags(r)
    BY <1>4, <2>0, <2>5, DeleteTagsDoes DEF DeleteTagsAt, First, Kinds, Steps, Fetching, Locking, Owning, Listing, Writing, Reading
  <2>6. CASE ReplaceSources(r)
    BY <1>4, <2>0, <2>6, ReplaceSourcesDoes DEF ReplaceSourcesAt, First, Kinds, Steps, Fetching, Locking, Owning, Listing, Writing, Reading
  <2>7. CASE Commit(r)
    BY <1>4, <2>0, <2>7, CommitDoes DEF CommitAt, First, Kinds, Steps, Fetching, Locking, Owning, Listing, Writing, Reading
  <2>8. CASE GetRow(r)
    BY <1>4, <2>0, <2>8, GetRowDoes DEF GetRowAt, First, Kinds, Steps, Fetching, Locking, Owning, Listing, Writing, Reading
  <2>9. CASE LoadTags(r)
    BY <1>4, <2>0, <2>9, LoadTagsDoes DEF LoadTagsAt, First, Kinds, Steps, Fetching, Locking, Owning, Listing, Writing, Reading
  <2>10. CASE LoadSources(r)
    BY <1>4, <2>0, <2>10, LoadSourcesDoes DEF LoadSourcesAt, First, Kinds, Steps, Fetching, Locking, Owning, Listing, Writing, Reading
  <2>11. CASE ListRows(r)
    BY <1>4, <2>0, <2>11, ListRowsDoes DEF ListRowsAt, First, Kinds, Steps, Fetching, Locking, Owning, Listing, Writing, Reading
  <2>12. CASE GridColumns(r)
    BY <1>4, <2>0, <2>12, GridColumnsDoes DEF GridColumnsAt, First, Kinds, Steps, Fetching, Locking, Owning, Listing, Writing, Reading
  <2>13. CASE GridRows(r)
    BY <1>4, <2>0, <2>13, GridRowsDoes DEF GridRowsAt, First, Kinds, Steps, Fetching, Locking, Owning, Listing, Writing, Reading
  <2>14. CASE Acquire(r)
    BY <1>4, <2>0, <2>14, AcquireDoes DEF AcquireAt, First, Kinds, Steps, Fetching, Locking, Owning, Listing, Writing, Reading
  <2>15. CASE Delete(r)
    BY <1>4, <2>0, <2>15, DeleteDoes DEF DeleteAt, First, Kinds, Steps, Fetching, Locking, Owning, Listing, Writing, Reading
  <2>16. CASE GridUpdate(r)
    BY <1>4, <2>0, <2>16, GridUpdateDoes DEF GridUpdateAt, First, Kinds, Steps, Fetching, Locking, Owning, Listing, Writing, Reading
  <2>17. CASE GridInsert(r)
    BY <1>4, <2>0, <2>17, GridInsertDoes DEF GridInsertAt, First, Kinds, Steps, Fetching, Locking, Owning, Listing, Writing, Reading
  <2>18. CASE Fail(r)
    BY <1>4, <2>0, <2>18, FailDoes DEF FailAt, First, Kinds, Steps, Fetching, Locking, Owning, Listing, Writing, Reading
  <2> QED
    BY <2>1, <2>2, <2>3, <2>4, <2>5, <2>6, <2>7, <2>8, <2>9, <2>10, <2>11, <2>12, <2>13, <2>14, <2>15, <2>16, <2>17, <2>18 DEF Step
<1> QED
  BY <1>2, <1>3, <1>4

\* A request comes to own a row by INSERT or UPDATE, and owns the same until then.
LEMMA Entering ==
  ASSUME Types, KindOK, NEW r \in Requests, Step(r) \/ Fail(r), pc'[r] \in Owning
  PROVE  /\ id'[r] = id[r] /\ kind'[r] = kind[r]
         /\ pc[r] \in Owning \/ InsertRow(r) \/ UpdateRow(r)
<1>start. ASSUME Start(r)
      PROVE  /\ pc'[r] \in {"outer", "row", "begin", "conn", "columns"}
             /\ pc'[r] = "outer" => kind'[r] = "list"
             /\ pc'[r] = "row" => kind'[r] = "get"
             /\ pc'[r] = "begin" => kind'[r] \in {"create", "patch"}
             /\ pc'[r] = "conn" => kind'[r] = "delete"
             /\ pc'[r] = "columns" => kind'[r] \in {"rows", "insert", "edit"}
  BY <1>start, StartDoes, FirstStep DEF StartAt
<1>1. CASE Start(r)
  BY <1>1, StartDoes, <1>start DEF StartAt, Kinds, Steps, Fetching, Locking, Owning, Listing, Writing, Reading
<1>2. CASE Begin(r)
  BY <1>2, BeginDoes DEF BeginAt, Kinds, Steps, Fetching, Locking, Owning, Listing, Writing, Reading
<1>3. CASE InsertRow(r)
  BY <1>3, InsertRowDoes DEF InsertRowAt, Kinds, Steps, Fetching, Locking, Owning, Listing, Writing, Reading
<1>4. CASE UpdateRow(r)
  BY <1>4, UpdateRowDoes DEF UpdateRowAt, Kinds, Steps, Fetching, Locking, Owning, Listing, Writing, Reading
<1>5. CASE DeleteTags(r)
  BY <1>5, DeleteTagsDoes DEF DeleteTagsAt, Kinds, Steps, Fetching, Locking, Owning, Listing, Writing, Reading
<1>6. CASE ReplaceSources(r)
  BY <1>6, ReplaceSourcesDoes DEF ReplaceSourcesAt, Kinds, Steps, Fetching, Locking, Owning, Listing, Writing, Reading
<1>7. CASE Commit(r)
  BY <1>7, CommitDoes DEF CommitAt, Kinds, Steps, Fetching, Locking, Owning, Listing, Writing, Reading
<1>8. CASE GetRow(r)
  BY <1>8, GetRowDoes DEF GetRowAt, Kinds, Steps, Fetching, Locking, Owning, Listing, Writing, Reading
<1>9. CASE LoadTags(r)
  BY <1>9, LoadTagsDoes DEF LoadTagsAt, Kinds, Steps, Fetching, Locking, Owning, Listing, Writing, Reading
<1>10. CASE LoadSources(r)
  BY <1>10, LoadSourcesDoes DEF LoadSourcesAt, Kinds, Steps, Fetching, Locking, Owning, Listing, Writing, Reading
<1>11. CASE ListRows(r)
  BY <1>11, ListRowsDoes DEF ListRowsAt, Kinds, Steps, Fetching, Locking, Owning, Listing, Writing, Reading
<1>12. CASE GridColumns(r)
  BY <1>12, GridColumnsDoes DEF GridColumnsAt, Kinds, Steps, Fetching, Locking, Owning, Listing, Writing, Reading
<1>13. CASE GridRows(r)
  BY <1>13, GridRowsDoes DEF GridRowsAt, Kinds, Steps, Fetching, Locking, Owning, Listing, Writing, Reading
<1>14. CASE Acquire(r)
  BY <1>14, AcquireDoes DEF AcquireAt, Kinds, Steps, Fetching, Locking, Owning, Listing, Writing, Reading
<1>15. CASE Delete(r)
  BY <1>15, DeleteDoes DEF DeleteAt, Kinds, Steps, Fetching, Locking, Owning, Listing, Writing, Reading
<1>16. CASE GridUpdate(r)
  BY <1>16, GridUpdateDoes DEF GridUpdateAt, Kinds, Steps, Fetching, Locking, Owning, Listing, Writing, Reading
<1>17. CASE GridInsert(r)
  BY <1>17, GridInsertDoes DEF GridInsertAt, Kinds, Steps, Fetching, Locking, Owning, Listing, Writing, Reading
<1>18. CASE Fail(r)
  BY <1>18, FailDoes DEF FailAt, Kinds, Steps, Fetching, Locking, Owning, Listing, Writing, Reading
<1> QED
  BY <1>1, <1>2, <1>3, <1>4, <1>5, <1>6, <1>7, <1>8, <1>9, <1>10, <1>11, <1>12, <1>13, <1>14, <1>15, <1>16, <1>17, <1>18 DEF Step

LEMMA OwnerNext ==
  ASSUME Types, KindOK, OwnerOK, NewOK, NEW r \in Requests, Step(r) \/ Fail(r) PROVE OwnerOK'
<1>1. ASSUME NEW q \in Requests, q # r, pc'[r] \in Owning, pc[q] \in Owning, id[q] = id'[r] PROVE FALSE
  <2>1. id'[r] = id[r] /\ kind'[r] = kind[r]
    BY <1>1, Entering
  <2>2. CASE pc[r] \in Owning
    BY <1>1, <2>1, <2>2 DEF OwnerOK
  <2>3. CASE InsertRow(r)
    <3>1. id[r] = r /\ pc[r] = "lock"
      BY <2>3, InsertRowDoes DEF InsertRowAt, KindOK, KindAt
    <3>2. row[r] = 0
      BY <3>1 DEF NewOK, Reading
    <3>3. kind[q] \in {"create", "patch"} /\ pc[q] # "idle"
      BY <1>1 DEF KindOK, KindAt, Writing, Owning
    <3>4. kind[q] # "create"
      BY <1>1, <2>1, <3>1, <3>3 DEF KindOK, KindAt
    <3>5. row[id[q]] # 0
      BY <1>1, <3>3, <3>4 DEF OwnerOK
    <3> QED
      BY <1>1, <2>1, <3>1, <3>2, <3>5
  <2>4. CASE UpdateRow(r)
    <3>1. pc'[r] = IF Gone(r) THEN "done" ELSE "delete tags"
      BY <2>4, UpdateRowDoes DEF UpdateRowAt
    <3>2. ~Gone(r)
      BY <1>1, <3>1 DEF Owning
    <3>3. Owners(id[r]) = {}
      BY <2>4, <3>2, UpdateRowDoes DEF UpdateRowAt, RowFree
    <3> QED
      BY <1>1, <2>1, <3>3 DEF Owners
  <2> QED
    BY <1>1, <2>2, <2>3, <2>4, Entering
<1>2. ASSUME NEW p \in Requests, NEW q \in Requests, pc'[p] \in Owning, pc'[q] \in Owning, id'[p] = id'[q]
      PROVE  p = q
  <2>1. \A s \in Requests : s # r => pc'[s] = pc[s] /\ id'[s] = id[s]
    BY OnlyOwn, OthersSame
  <2>2. CASE p # r /\ q # r
    BY <1>2, <2>1, <2>2 DEF OwnerOK
  <2>3. CASE p = r /\ q # r
    BY <1>1, <1>2, <2>1, <2>3
  <2>4. CASE p # r /\ q = r
    BY <1>1, <1>2, <2>1, <2>4
  <2> QED
    BY <2>2, <2>3, <2>4
<1>3. ASSUME NEW q \in Requests, pc'[q] \in Owning, kind'[q] = "patch" PROVE row'[id'[q]] # 0
  <2>1. CASE q # r
    <3>1. pc[q] \in Owning /\ kind[q] = "patch" /\ id'[q] = id[q]
      BY <1>3, <2>1, OnlyOwn, OthersSame
    <3>2. row[id[q]] # 0 /\ id[q] \in Profiles /\ q \in Owners(id[q])
      BY <3>1 DEF OwnerOK, KindOK, KindAt, Owning, Owners
    <3> QED
      BY <3>1, <3>2, RowsVanish
  <2>2. CASE q = r /\ pc[r] \in Owning
    <3>1. pc[q] \in Owning /\ kind[q] = "patch" /\ id'[q] = id[q]
      BY <1>3, <2>2, Entering
    <3>2. row[id[q]] # 0 /\ id[q] \in Profiles /\ q \in Owners(id[q])
      BY <3>1 DEF OwnerOK, KindOK, KindAt, Owning, Owners
    <3> QED
      BY <3>1, <3>2, RowsVanish
  <2>3. CASE q = r /\ InsertRow(r)
    BY <1>3, <2>3, InsertRowDoes DEF InsertRowAt
  <2>4. CASE q = r /\ UpdateRow(r)
    <3>1. /\ pc'[r] = IF Gone(r) THEN "done" ELSE "delete tags"
          /\ row' = row /\ id'[r] = id[r]
      BY <2>4, UpdateRowDoes DEF UpdateRowAt, tables
    <3> QED
      BY <1>3, <2>4, <3>1 DEF Gone, Owning
  <2> QED
    BY <1>3, <2>1, <2>2, <2>3, <2>4, Entering
<1> QED
  BY <1>2, <1>3 DEF OwnerOK

\* The owner of a row is the only one who replaces its children.
LEMMA ChildrenGrow ==
  ASSUME Types, KindOK, NEW r \in Requests, Step(r) \/ Fail(r), NEW i \in Profiles
  PROVE  \/ tags'[i] \subseteq tags[i] /\ sources'[i] \subseteq sources[i]
         \/ Commit(r) /\ i = id[r]
<1>1. CASE Quiet(r)
  BY <1>1, QuietTables
<1>2. CASE Commit(r)
  BY <1>2, CommitWrites DEF Elsewhere
<1>3. CASE Delete(r)
  BY <1>3, DeleteWrites DEF Elsewhere
<1>4. CASE GridUpdate(r)
  BY <1>4, GridUpdateWrites
<1>5. CASE GridInsert(r)
  BY <1>5, GridInsertWrites
<1> QED
  BY <1>1, <1>2, <1>3, <1>4, <1>5, QuietOrNot

\* How a request comes to have deleted children.
LEMMA Clearing ==
  ASSUME Types, KindOK, NEW r \in Requests, Step(r) \/ Fail(r)
  PROVE  /\ pc'[r] = "delete sources" => DeleteTags(r)
         /\ pc'[r] = "commit" => ReplaceSources(r)
<1>start. ASSUME Start(r)
      PROVE  /\ pc'[r] \in {"outer", "row", "begin", "conn", "columns"}
             /\ pc'[r] = "outer" => kind'[r] = "list"
             /\ pc'[r] = "row" => kind'[r] = "get"
             /\ pc'[r] = "begin" => kind'[r] \in {"create", "patch"}
             /\ pc'[r] = "conn" => kind'[r] = "delete"
             /\ pc'[r] = "columns" => kind'[r] \in {"rows", "insert", "edit"}
  BY <1>start, StartDoes, FirstStep DEF StartAt
<1>1. CASE Start(r)
  BY <1>1, StartDoes, <1>start DEF StartAt, Kinds, Steps, Fetching, Locking, Owning, Listing, Writing, Reading
<1>2. CASE Begin(r)
  BY <1>2, BeginDoes DEF BeginAt, Kinds, Steps, Fetching, Locking, Owning, Listing, Writing, Reading
<1>3. CASE InsertRow(r)
  BY <1>3, InsertRowDoes DEF InsertRowAt, Kinds, Steps, Fetching, Locking, Owning, Listing, Writing, Reading
<1>4. CASE UpdateRow(r)
  BY <1>4, UpdateRowDoes DEF UpdateRowAt, Kinds, Steps, Fetching, Locking, Owning, Listing, Writing, Reading
<1>5. CASE DeleteTags(r)
  BY <1>5, DeleteTagsDoes DEF DeleteTagsAt, Kinds, Steps, Fetching, Locking, Owning, Listing, Writing, Reading
<1>6. CASE ReplaceSources(r)
  BY <1>6, ReplaceSourcesDoes DEF ReplaceSourcesAt, Kinds, Steps, Fetching, Locking, Owning, Listing, Writing, Reading
<1>7. CASE Commit(r)
  BY <1>7, CommitDoes DEF CommitAt, Kinds, Steps, Fetching, Locking, Owning, Listing, Writing, Reading
<1>8. CASE GetRow(r)
  BY <1>8, GetRowDoes DEF GetRowAt, Kinds, Steps, Fetching, Locking, Owning, Listing, Writing, Reading
<1>9. CASE LoadTags(r)
  BY <1>9, LoadTagsDoes DEF LoadTagsAt, Kinds, Steps, Fetching, Locking, Owning, Listing, Writing, Reading
<1>10. CASE LoadSources(r)
  BY <1>10, LoadSourcesDoes DEF LoadSourcesAt, Kinds, Steps, Fetching, Locking, Owning, Listing, Writing, Reading
<1>11. CASE ListRows(r)
  BY <1>11, ListRowsDoes DEF ListRowsAt, Kinds, Steps, Fetching, Locking, Owning, Listing, Writing, Reading
<1>12. CASE GridColumns(r)
  BY <1>12, GridColumnsDoes DEF GridColumnsAt, Kinds, Steps, Fetching, Locking, Owning, Listing, Writing, Reading
<1>13. CASE GridRows(r)
  BY <1>13, GridRowsDoes DEF GridRowsAt, Kinds, Steps, Fetching, Locking, Owning, Listing, Writing, Reading
<1>14. CASE Acquire(r)
  BY <1>14, AcquireDoes DEF AcquireAt, Kinds, Steps, Fetching, Locking, Owning, Listing, Writing, Reading
<1>15. CASE Delete(r)
  BY <1>15, DeleteDoes DEF DeleteAt, Kinds, Steps, Fetching, Locking, Owning, Listing, Writing, Reading
<1>16. CASE GridUpdate(r)
  BY <1>16, GridUpdateDoes DEF GridUpdateAt, Kinds, Steps, Fetching, Locking, Owning, Listing, Writing, Reading
<1>17. CASE GridInsert(r)
  BY <1>17, GridInsertDoes DEF GridInsertAt, Kinds, Steps, Fetching, Locking, Owning, Listing, Writing, Reading
<1>18. CASE Fail(r)
  BY <1>18, FailDoes DEF FailAt, Kinds, Steps, Fetching, Locking, Owning, Listing, Writing, Reading
<1> QED
  BY <1>1, <1>2, <1>3, <1>4, <1>5, <1>6, <1>7, <1>8, <1>9, <1>10, <1>11, <1>12, <1>13, <1>14, <1>15, <1>16, <1>17, <1>18 DEF Step

LEMMA ClearedNext ==
  ASSUME Types, KindOK, OwnerOK, ClearedOK, NEW r \in Requests, Step(r) \/ Fail(r) PROVE ClearedOK'
<1>1. ASSUME NEW q \in Requests, q # r, pc'[q] \in {"delete sources", "commit"}
      PROVE  /\ tags'[id'[q]] \subseteq cleared'[q].tags
             /\ pc'[q] = "commit" => sources'[id'[q]] \subseteq cleared'[q].sources
  <2>1. pc'[q] = pc[q] /\ id'[q] = id[q] /\ cleared'[q] = cleared[q]
    BY <1>1, OnlyOwn, OthersSame
  <2>2. id[q] \in Profiles /\ pc[q] \in Owning
    BY <1>1, <2>1 DEF KindOK, KindAt, Owning
  <2>3. ~(Commit(r) /\ id[q] = id[r])
    <3>1. ASSUME Commit(r) PROVE pc[r] \in Owning
      BY <3>1 DEF Commit, Owning
    <3> QED
      BY <1>1, <2>2, <3>1 DEF OwnerOK
  <2>4. tags'[id[q]] \subseteq tags[id[q]] /\ sources'[id[q]] \subseteq sources[id[q]]
    BY <2>2, <2>3, ChildrenGrow
  <2>5. tags[id[q]] \subseteq cleared[q].tags /\ (pc[q] = "commit" => sources[id[q]] \subseteq cleared[q].sources)
    BY <1>1, <2>1 DEF ClearedOK
  <2> QED
    BY <2>1, <2>4, <2>5
<1>2. ASSUME pc'[r] = "delete sources" PROVE tags'[id'[r]] \subseteq cleared'[r].tags
  BY <1>2, Clearing, DeleteTagsDoes DEF DeleteTagsAt, tables
<1>3. ASSUME pc'[r] = "commit"
      PROVE  tags'[id'[r]] \subseteq cleared'[r].tags /\ sources'[id'[r]] \subseteq cleared'[r].sources
  <2>1. ReplaceSourcesAt(r)
    BY <1>3, Clearing, ReplaceSourcesDoes
  <2>2. tags[id[r]] \subseteq cleared[r].tags
    BY <2>1 DEF ReplaceSourcesAt, ClearedOK
  <2> QED
    BY <2>1, <2>2 DEF ReplaceSourcesAt, tables
<1> QED
  BY <1>1, <1>2, <1>3 DEF ClearedOK

\* A transaction leaves the children that it wrote, and no others.
LEMMA CommitReplaces ==
  ASSUME Types, KindOK, ClearedOK, NEW r \in Requests, Commit(r)
  PROVE  tags'[id[r]] = {clock + 1} /\ sources'[id[r]] = {clock + 1}
<1>1. tags[id[r]] \subseteq cleared[r].tags /\ sources[id[r]] \subseteq cleared[r].sources
  BY DEF Commit, ClearedOK
<1> QED
  BY <1>1, CommitWrites

LEMMA ChildNext ==
  ASSUME Types, KindOK, ClearedOK, ChildOK, Types', NEW r \in Requests, Step(r) \/ Fail(r) PROVE ChildOK'
<1> SUFFICES ASSUME NEW i \in Profiles
             PROVE  /\ tags'[i] = sources'[i]
                    /\ \A s, t \in tags'[i] : s = t
                    /\ row'[i] = 0 => tags'[i] = {}
  <2>1. tags' \in [Profiles -> SUBSET Stamps'] /\ sources' \in [Profiles -> SUBSET Stamps']
    BY DEF Types
  <2>2. ASSUME \A i \in Profiles : tags'[i] = sources'[i] PROVE tags' = sources'
    BY <2>1, <2>2
  <2> QED
    BY <2>2 DEF ChildOK
<1>0. tags[i] = sources[i] /\ (\A s, t \in tags[i] : s = t) /\ (row[i] = 0 => tags[i] = {})
  BY DEF ChildOK
<1>1. CASE Quiet(r)
  BY <1>0, <1>1, QuietTables
<1>2. CASE Commit(r)
  <2>1. clock + 1 # 0
    BY DEF Types
  <2>2. CASE i = id[r]
    BY <1>2, <2>1, <2>2, CommitReplaces, CommitWrites
  <2>3. CASE i # id[r]
    BY <1>2, <2>3, <1>0, CommitWrites DEF Elsewhere
  <2> QED
    BY <2>2, <2>3
<1>3. CASE Delete(r)
  BY <1>0, <1>3, DeleteWrites DEF Elsewhere
<1>4. CASE GridUpdate(r)
  <2>1. clock + 1 # 0
    BY DEF Types
  <2>2. tags'[i] = tags[i] /\ sources'[i] = sources[i]
    BY <1>4, GridUpdateWrites
  <2>3. CASE i = id[r]
    BY <1>0, <1>4, <2>1, <2>2, <2>3, GridUpdateWrites
  <2>4. CASE i # id[r]
    BY <1>0, <1>4, <2>2, <2>4, GridUpdateWrites DEF Elsewhere
  <2> QED
    BY <2>3, <2>4
<1>5. CASE GridInsert(r)
  <2>1. clock + 1 # 0
    BY DEF Types
  <2> QED
    BY <1>5, <2>1, <1>0, GridInsertWrites DEF Elsewhere
<1> QED
  BY <1>1, <1>2, <1>3, <1>4, <1>5, QuietOrNot

\* What is written is newer than what anybody has seen.
LEMMA Forward ==
  ASSUME Types, KindOK, ClearedOK, NEW r \in Requests, Step(r) \/ Fail(r), NEW i \in Profiles
  PROVE  /\ row'[i] \in {0, row[i], clock + 1}
         /\ tags'[i] \subseteq tags[i] \cup {clock + 1}
         /\ sources'[i] \subseteq sources[i] \cup {clock + 1}
<1>1. CASE Quiet(r)
  BY <1>1, QuietTables
<1>2. CASE Commit(r)
  BY <1>2, CommitWrites DEF Elsewhere
<1>3. CASE Delete(r)
  BY <1>3, DeleteWrites DEF Elsewhere
<1>4. CASE GridUpdate(r)
  BY <1>4, GridUpdateWrites DEF Elsewhere
<1>5. CASE GridInsert(r)
  BY <1>5, GridInsertWrites DEF Elsewhere
<1> QED
  BY <1>1, <1>2, <1>3, <1>4, <1>5, QuietOrNot

\* Nobody's write, and nothing that anybody has read, is newer than the clock.
LEMMA Past ==
  ASSUME Types, NEW q \in Requests
  PROVE  /\ clock + 1 >= mine[q] /\ mine[q] \in Nat
         /\ \A t \in seen[q].tags : t \in Nat /\ t <= clock + 1
<1>1. mine[q] \in Stamps /\ seen[q].tags \subseteq Stamps /\ clock \in Nat
  BY DEF Types
<1> QED
  BY <1>1 DEF Stamps

\* What a request has written, and what it has read, while it goes on.
LEMMA Progress ==
  ASSUME Types, KindOK, NEW r \in Requests, Step(r) \/ Fail(r)
  PROVE  \/ Commit(r)
         \/ mine'[r] = mine[r] /\ pc'[r] \in {"sources", "list sources"} /\ LoadTags(r)
         \/ /\ mine'[r] = mine[r]
            /\ pc'[r] \notin {"sources", "list sources"}
            /\ mine[r] # 0 => id'[r] = id[r]
<1>start. ASSUME Start(r)
      PROVE  /\ pc'[r] \in {"outer", "row", "begin", "conn", "columns"}
             /\ pc'[r] = "outer" => kind'[r] = "list"
             /\ pc'[r] = "row" => kind'[r] = "get"
             /\ pc'[r] = "begin" => kind'[r] \in {"create", "patch"}
             /\ pc'[r] = "conn" => kind'[r] = "delete"
             /\ pc'[r] = "columns" => kind'[r] \in {"rows", "insert", "edit"}
  BY <1>start, StartDoes, FirstStep DEF StartAt
<1>1. CASE Start(r)
  BY <1>1, StartDoes, <1>start DEF StartAt, KindOK, KindAt, Kinds, Steps, Fetching, Locking, Owning, Listing, Writing, Reading
<1>2. CASE Begin(r)
  BY <1>2, BeginDoes DEF BeginAt, KindOK, KindAt, Kinds, Steps, Fetching, Locking, Owning, Listing, Writing, Reading
<1>3. CASE InsertRow(r)
  BY <1>3, InsertRowDoes DEF InsertRowAt, KindOK, KindAt, Kinds, Steps, Fetching, Locking, Owning, Listing, Writing, Reading
<1>4. CASE UpdateRow(r)
  BY <1>4, UpdateRowDoes DEF UpdateRowAt, KindOK, KindAt, Kinds, Steps, Fetching, Locking, Owning, Listing, Writing, Reading
<1>5. CASE DeleteTags(r)
  BY <1>5, DeleteTagsDoes DEF DeleteTagsAt, KindOK, KindAt, Kinds, Steps, Fetching, Locking, Owning, Listing, Writing, Reading
<1>6. CASE ReplaceSources(r)
  BY <1>6, ReplaceSourcesDoes DEF ReplaceSourcesAt, KindOK, KindAt, Kinds, Steps, Fetching, Locking, Owning, Listing, Writing, Reading
<1>7. CASE Commit(r)
  BY <1>7, CommitDoes DEF CommitAt, KindOK, KindAt, Kinds, Steps, Fetching, Locking, Owning, Listing, Writing, Reading
<1>8. CASE GetRow(r)
  BY <1>8, GetRowDoes DEF GetRowAt, KindOK, KindAt, Kinds, Steps, Fetching, Locking, Owning, Listing, Writing, Reading
<1>9. CASE LoadTags(r)
  BY <1>9, LoadTagsDoes DEF LoadTagsAt, KindOK, KindAt, Kinds, Steps, Fetching, Locking, Owning, Listing, Writing, Reading
<1>10. CASE LoadSources(r)
  BY <1>10, LoadSourcesDoes DEF LoadSourcesAt, KindOK, KindAt, Kinds, Steps, Fetching, Locking, Owning, Listing, Writing, Reading
<1>11. CASE ListRows(r)
  BY <1>11, ListRowsDoes DEF ListRowsAt, KindOK, KindAt, Kinds, Steps, Fetching, Locking, Owning, Listing, Writing, Reading
<1>12. CASE GridColumns(r)
  BY <1>12, GridColumnsDoes DEF GridColumnsAt, KindOK, KindAt, Kinds, Steps, Fetching, Locking, Owning, Listing, Writing, Reading
<1>13. CASE GridRows(r)
  BY <1>13, GridRowsDoes DEF GridRowsAt, KindOK, KindAt, Kinds, Steps, Fetching, Locking, Owning, Listing, Writing, Reading
<1>14. CASE Acquire(r)
  BY <1>14, AcquireDoes DEF AcquireAt, KindOK, KindAt, Kinds, Steps, Fetching, Locking, Owning, Listing, Writing, Reading
<1>15. CASE Delete(r)
  BY <1>15, DeleteDoes DEF DeleteAt, KindOK, KindAt, Kinds, Steps, Fetching, Locking, Owning, Listing, Writing, Reading
<1>16. CASE GridUpdate(r)
  BY <1>16, GridUpdateDoes DEF GridUpdateAt, KindOK, KindAt, Kinds, Steps, Fetching, Locking, Owning, Listing, Writing, Reading
<1>17. CASE GridInsert(r)
  BY <1>17, GridInsertDoes DEF GridInsertAt, KindOK, KindAt, Kinds, Steps, Fetching, Locking, Owning, Listing, Writing, Reading
<1>18. CASE Fail(r)
  BY <1>18, FailDoes DEF FailAt, KindOK, KindAt, Kinds, Steps, Fetching, Locking, Owning, Listing, Writing, Reading
<1> QED
  BY <1>1, <1>2, <1>3, <1>4, <1>5, <1>6, <1>7, <1>8, <1>9, <1>10, <1>11, <1>12, <1>13, <1>14, <1>15, <1>16, <1>17, <1>18 DEF Step

LEMMA NewerNext ==
  ASSUME Types, KindOK, ClearedOK, ChildOK, NewerOK, NEW r \in Requests, Step(r) \/ Fail(r)
  PROVE  NewerOK'
<1>0. clock \in Nat
  BY DEF Types
<1>1. ASSUME NEW q \in Requests, mine'[q] = mine[q], id'[q] = id[q], mine[q] # 0
      PROVE  /\ row'[id'[q]] # 0 => row'[id'[q]] >= mine'[q]
             /\ \A t \in tags'[id'[q]] : t >= mine'[q]
  <2>1. id[q] \in Profiles
    BY <1>1 DEF KindOK, KindAt, Reading
  <2>a. mine[q] # 0
    BY <1>1
  <2>2. /\ row[id[q]] # 0 => row[id[q]] >= mine[q]
        /\ \A t \in tags[id[q]] : t >= mine[q]
    BY <2>a DEF NewerOK
  <2>3. /\ row'[id[q]] \in {0, row[id[q]], clock + 1}
        /\ tags'[id[q]] \subseteq tags[id[q]] \cup {clock + 1}
    BY <2>1, Forward
  <2>4. clock + 1 >= mine[q]
    BY Past
  <2> QED
    BY <1>1, <2>2, <2>3, <2>4
<1>2. ASSUME NEW q \in Requests, mine'[q] # 0
      PROVE  /\ row'[id'[q]] # 0 => row'[id'[q]] >= mine'[q]
             /\ \A t \in tags'[id'[q]] : t >= mine'[q]
  <2>1. CASE q # r
    BY <1>1, <1>2, <2>1, OnlyOwn, OthersSame
  <2>2. CASE q = r /\ Commit(r)
    <3>1. mine'[r] = clock + 1 /\ id'[r] = id[r]
      BY <2>2, CommitDoes DEF CommitAt
    <3>2. row'[id[r]] = clock + 1 /\ tags'[id[r]] = {clock + 1}
      BY <2>2, CommitWrites, CommitReplaces
    <3>3. clock + 1 >= clock + 1
      BY <1>0
    <3> QED
      BY <2>2, <3>1, <3>2, <3>3
  <2>3. CASE q = r /\ LoadTags(r)
    <3>1. mine'[r] = mine[r] /\ (kind[r] # "list" => id'[r] = id[r])
      BY <2>3, LoadTagsDoes DEF LoadTagsAt
    <3>2. id'[r] = id[r]
      BY <1>2, <2>3, <3>1 DEF KindOK, KindAt
    <3> QED
      BY <1>1, <1>2, <2>3, <3>1, <3>2
  <2>4. CASE q = r /\ ~Commit(r) /\ ~LoadTags(r)
    BY <1>1, <1>2, <2>4, Progress
  <2> QED
    BY <2>1, <2>2, <2>3, <2>4
<1>3. ASSUME NEW q \in Requests, pc'[q] \in {"sources", "list sources"},
             NEW t \in seen'[q].tags, NEW s \in sources'[id'[q]]
      PROVE  t <= s
  <2>1. CASE q # r
    <3>1. pc'[q] = pc[q] /\ id'[q] = id[q] /\ seen'[q] = seen[q]
      BY <2>1, OnlyOwn, OthersSame
    <3>2. id[q] \in Profiles
      BY <1>3, <3>1 DEF KindOK, KindAt
    <3>3. s \in sources[id[q]] \/ s = clock + 1
      BY <1>3, <3>1, <3>2, Forward
    <3>4. t \in seen[q].tags /\ t <= clock + 1
      BY <1>3, <3>1, Past
    <3>5. \A z \in sources[id[q]] : t <= z
      BY <1>3, <3>1, <3>4 DEF NewerOK
    <3> QED
      BY <3>3, <3>4, <3>5
  <2>2. CASE q = r
    <3>1. LoadTags(r)
      <4>1. ~Commit(r)
        BY <1>3, <2>2, CommitDoes DEF CommitAt
      <4> QED
        BY <1>3, <2>2, <4>1, Progress
    <3>2. /\ UNCHANGED tables /\ id'[r] \in Profiles
          /\ seen'[r].tags = tags[id'[r]]
      BY <3>1, LoadTagsDoes DEF LoadTagsAt
    <3>3. t \in tags[id'[r]] /\ s \in tags[id'[r]]
      BY <1>3, <2>2, <3>2 DEF tables, ChildOK
    <3>4. t = s
      BY <3>2, <3>3 DEF ChildOK
    <3>5. t \in Stamps
      BY <3>2, <3>3 DEF Types
    <3> QED
      BY <3>4, <3>5, <1>0 DEF Stamps
  <2> QED
    BY <2>1, <2>2
<1> QED
  BY <1>2, <1>3 DEF NewerOK

LEMMA ForwardNext ==
  ASSUME Types, KindOK, ClearedOK, ChildOK, NewerOK, AnswersForward, NEW r \in Requests, Step(r) \/ Fail(r)
  PROVE  AnswersForward'
<1> DEFINE Good(q) == /\ seen[q].row # 0 => seen[q].row >= mine[q]
                      /\ \A t \in seen[q].tags \cup seen[q].sources : t >= mine[q]
                      /\ \A t \in seen[q].tags, s \in seen[q].sources : t <= s
<1>1. \A q \in Requests : Good(q)
  BY DEF AnswersForward
<1>2. ASSUME NEW q \in Requests, mine'[q] = mine[q], seen'[q] = seen[q] PROVE Good(q)'
  BY <1>1, <1>2
<1>3. ASSUME NEW q \in Requests, q # r PROVE Good(q)'
  BY <1>2, <1>3, OnlyOwn, OthersSame
<1> SUFFICES Good(r)'
  BY <1>3 DEF AnswersForward
<1>4. id[r] \in Profiles => row[id[r]] \in Nat /\ tags[id[r]] \subseteq Nat
  BY DEF Types, Stamps
<1>5. mine[r] # 0 => id[r] \in Profiles /\ kind[r] # "list"
  BY DEF KindOK, KindAt, Reading
<1>6. /\ mine[r] # 0 /\ row[id[r]] # 0 => row[id[r]] >= mine[r]
      /\ mine[r] # 0 => \A t \in tags[id[r]] : t >= mine[r]
  BY DEF NewerOK
<1>7. CASE Commit(r)
  <2>1. seen'[r] = seen[r]
    BY <1>7, CommitDoes DEF CommitAt
  <2>2. seen[r].row = 0 /\ seen[r].tags = {} /\ seen[r].sources = {}
    BY <1>7, CommitDoes DEF CommitAt, KindOK, KindAt, Writing, Owning
  <2> QED
    BY <2>1, <2>2
<1>8. CASE GetRow(r)
  <2>1. /\ mine'[r] = mine[r] /\ seen'[r].row = row[id[r]] /\ pc[r] = "row"
        /\ seen'[r].tags = seen[r].tags /\ seen'[r].sources = seen[r].sources
    BY <1>8, GetRowDoes DEF GetRowAt
  <2>2. id[r] \in Profiles
    BY <2>1 DEF KindOK, KindAt
  <2>3. row[id[r]] # 0 => row[id[r]] >= mine[r]
    BY <1>4, <1>6, <2>2
  <2> QED
    BY <1>1, <2>1, <2>3
<1>9. CASE LoadTags(r)
  <2>1. /\ mine'[r] = mine[r] /\ seen'[r].row = seen[r].row /\ id'[r] \in Profiles
        /\ seen'[r].tags = tags[id'[r]] /\ seen'[r].sources = {}
        /\ kind[r] # "list" => id'[r] = id[r]
    BY <1>9, LoadTagsDoes DEF LoadTagsAt
  <2>2. tags[id'[r]] \subseteq Nat
    BY <2>1 DEF Types, Stamps
  <2>3. \A t \in tags[id'[r]] : t >= mine[r]
    BY <1>5, <1>6, <2>1, <2>2
  <2>4. seen[r].row # 0 => seen[r].row >= mine[r]
    BY <1>1
  <2> QED
    BY <2>1, <2>3, <2>4
<1>10. CASE LoadSources(r)
  <2>1. /\ mine'[r] = mine[r] /\ seen'[r].row = seen[r].row
        /\ seen'[r].tags = seen[r].tags /\ seen'[r].sources = sources[id[r]]
        /\ pc[r] \in {"sources", "list sources"}
    BY <1>10, LoadSourcesDoes DEF LoadSourcesAt
  <2>2. id[r] \in Profiles
    BY <2>1 DEF KindOK, KindAt
  <2>3. \A t \in sources[id[r]] : t >= mine[r]
    BY <1>4, <1>6, <2>2 DEF ChildOK
  <2>4. \A t \in seen[r].tags, s \in sources[id[r]] : t <= s
    BY <2>1 DEF NewerOK
  <2>5. Good(r)
    BY <1>1
  <2> QED
    BY <2>1, <2>3, <2>4, <2>5
<1>11. CASE ~(Commit(r) \/ GetRow(r) \/ LoadTags(r) \/ LoadSources(r))
  <2>1. mine'[r] = mine[r] /\ seen'[r] = seen[r]
    <3>1. CASE Start(r)
      BY <3>1, StartDoes DEF StartAt
    <3>2. CASE Begin(r)
      BY <3>2, BeginDoes DEF BeginAt
    <3>3. CASE InsertRow(r)
      BY <3>3, InsertRowDoes DEF InsertRowAt
    <3>4. CASE UpdateRow(r)
      BY <3>4, UpdateRowDoes DEF UpdateRowAt
    <3>5. CASE DeleteTags(r)
      BY <3>5, DeleteTagsDoes DEF DeleteTagsAt
    <3>6. CASE ReplaceSources(r)
      BY <3>6, ReplaceSourcesDoes DEF ReplaceSourcesAt
    <3>7. CASE ListRows(r)
      BY <3>7, ListRowsDoes DEF ListRowsAt
    <3>8. CASE GridColumns(r)
      BY <3>8, GridColumnsDoes DEF GridColumnsAt
    <3>9. CASE GridRows(r)
      BY <3>9, GridRowsDoes DEF GridRowsAt
    <3>10. CASE Acquire(r)
      BY <3>10, AcquireDoes DEF AcquireAt
    <3>11. CASE Delete(r)
      BY <3>11, DeleteDoes DEF DeleteAt
    <3>12. CASE GridUpdate(r)
      BY <3>12, GridUpdateDoes DEF GridUpdateAt
    <3>13. CASE GridInsert(r)
      BY <3>13, GridInsertDoes DEF GridInsertAt
    <3>14. CASE Fail(r)
      BY <3>14, FailDoes DEF FailAt
    <3> QED
      BY <1>11, <3>1, <3>2, <3>3, <3>4, <3>5, <3>6, <3>7, <3>8, <3>9, <3>10, <3>11, <3>12, <3>13, <3>14 DEF Step
  <2> QED
    BY <1>2, <2>1
<1> QED
  BY <1>7, <1>8, <1>9, <1>10, <1>11

-----------------------------------------------------------------------------
(* Types *)

LEMMA ClockForward ==
  ASSUME Types, KindOK, NEW r \in Requests, Step(r) \/ Fail(r)
  PROVE  /\ clock' = clock \/ clock' = clock + 1
         /\ clock' \in Nat /\ Stamps \subseteq Stamps'
<1>1. clock' = clock \/ clock' = clock + 1
  <2>1. CASE Quiet(r)
    BY <2>1, QuietTables
  <2>2. CASE ~Quiet(r)
    BY <2>2, QuietOrNot, CommitWrites, DeleteWrites, GridUpdateWrites, GridInsertWrites
  <2> QED
    BY <2>1, <2>2
<1>2. clock \in Nat
  BY DEF Types
<1> QED
  BY <1>1, <1>2 DEF Stamps

LEMMA TablesNext ==
  ASSUME Types, KindOK, ClearedOK, NEW r \in Requests, Step(r) \/ Fail(r)
  PROVE  /\ row' \in [Profiles -> Stamps']
         /\ tags' \in [Profiles -> SUBSET Stamps'] /\ sources' \in [Profiles -> SUBSET Stamps']
<1>1. /\ row' = [i \in Profiles |-> row'[i]]
      /\ tags' = [i \in Profiles |-> tags'[i]] /\ sources' = [i \in Profiles |-> sources'[i]]
  <2>0. /\ row = [i \in Profiles |-> row[i]]
        /\ tags = [i \in Profiles |-> tags[i]] /\ sources = [i \in Profiles |-> sources[i]]
    BY DEF Types
  <2>1. CASE Quiet(r)
    BY <2>0, <2>1, QuietTables
  <2>2. CASE Commit(r)
    BY <2>0, <2>2 DEF Commit
  <2>3. CASE Delete(r)
    BY <2>0, <2>3 DEF Delete
  <2>4. CASE GridUpdate(r)
    <3>1. CASE Gone(r)
      BY <2>0, <2>4, <3>1 DEF GridUpdate
    <3>2. CASE ~Gone(r)
      BY <2>0, <2>4, <3>2 DEF GridUpdate
    <3> QED
      BY <3>1, <3>2
  <2>5. CASE GridInsert(r)
    BY <2>0, <2>5 DEF GridInsert
  <2> QED
    BY <2>1, <2>2, <2>3, <2>4, <2>5, QuietOrNot
<1>2. ASSUME NEW i \in Profiles
      PROVE  row'[i] \in Stamps' /\ tags'[i] \subseteq Stamps' /\ sources'[i] \subseteq Stamps'
  <2>1. row[i] \in Stamps' /\ tags[i] \subseteq Stamps' /\ sources[i] \subseteq Stamps'
    BY ClockForward DEF Types
  <2>2. CASE clock' = clock + 1
    <3>1. clock + 1 \in Stamps' /\ 0 \in Stamps'
      BY <2>2, ClockForward DEF Stamps
    <3> QED
      BY <2>1, <3>1, Forward
  <2>3. CASE clock' = clock
    <3>1. 0 \in Stamps'
      BY ClockForward DEF Stamps
    <3>2. clock + 1 # clock
      BY DEF Types
    <3>3. CASE Quiet(r)
      BY <2>1, <3>3, QuietTables
    <3>4. CASE Delete(r)
      BY <2>1, <3>1, <3>4, DeleteWrites DEF Elsewhere
    <3>5. CASE GridUpdate(r)
      BY <2>1, <2>3, <3>2, <3>5, GridUpdateWrites DEF Elsewhere
    <3>6. ~Commit(r) /\ ~GridInsert(r)
      BY <2>3, <3>2, CommitWrites, GridInsertWrites
    <3> QED
      BY <3>3, <3>4, <3>5, <3>6, QuietOrNot
  <2> QED
    BY <2>2, <2>3, ClockForward
<1> QED
  BY <1>1, <1>2

\* What a step gives its request.
LEMMA OwnTypes ==
  ASSUME Types, KindOK, NEW r \in Requests, Step(r) \/ Fail(r)
  PROVE  /\ pc'[r] \in Steps
         /\ kind'[r] \in Kinds \cup {None} /\ id'[r] \in Profiles \cup {None}
         /\ mine'[r] \in {mine[r], clock'}
<1>0. pc[r] \in Steps /\ kind[r] \in Kinds \cup {None} /\ id[r] \in Profiles \cup {None}
  BY DEF Types
<1>start. ASSUME Start(r)
      PROVE  /\ pc'[r] \in {"outer", "row", "begin", "conn", "columns"}
             /\ pc'[r] = "outer" => kind'[r] = "list"
             /\ pc'[r] = "row" => kind'[r] = "get"
             /\ pc'[r] = "begin" => kind'[r] \in {"create", "patch"}
             /\ pc'[r] = "conn" => kind'[r] = "delete"
             /\ pc'[r] = "columns" => kind'[r] \in {"rows", "insert", "edit"}
  BY <1>start, StartDoes, FirstStep DEF StartAt
<1>1. CASE Start(r)
  BY <1>0, <1>1, StartDoes, <1>start DEF StartAt, Steps, Fetching, Locking, Owning, Listing
<1>2. CASE Begin(r)
  BY <1>0, <1>2, BeginDoes DEF BeginAt, Steps, Fetching, Locking, Owning, Listing
<1>3. CASE InsertRow(r)
  BY <1>0, <1>3, InsertRowDoes DEF InsertRowAt, Steps, Fetching, Locking, Owning, Listing
<1>4. CASE UpdateRow(r)
  BY <1>0, <1>4, UpdateRowDoes DEF UpdateRowAt, Steps, Fetching, Locking, Owning, Listing
<1>5. CASE DeleteTags(r)
  BY <1>0, <1>5, DeleteTagsDoes DEF DeleteTagsAt, Steps, Fetching, Locking, Owning, Listing
<1>6. CASE ReplaceSources(r)
  BY <1>0, <1>6, ReplaceSourcesDoes DEF ReplaceSourcesAt, Steps, Fetching, Locking, Owning, Listing
<1>7. CASE Commit(r)
  BY <1>0, <1>7, CommitDoes, CommitWrites DEF CommitAt, Steps, Fetching, Locking, Owning, Listing
<1>8. CASE GetRow(r)
  BY <1>0, <1>8, GetRowDoes DEF GetRowAt, Steps, Fetching, Locking, Owning, Listing
<1>9. CASE LoadTags(r)
  BY <1>0, <1>9, LoadTagsDoes DEF LoadTagsAt, Steps, Fetching, Locking, Owning, Listing
<1>10. CASE LoadSources(r)
  BY <1>0, <1>10, LoadSourcesDoes DEF LoadSourcesAt, Steps, Fetching, Locking, Owning, Listing
<1>11. CASE ListRows(r)
  BY <1>0, <1>11, ListRowsDoes DEF ListRowsAt, Steps, Fetching, Locking, Owning, Listing
<1>12. CASE GridColumns(r)
  BY <1>0, <1>12, GridColumnsDoes DEF GridColumnsAt, Steps, Fetching, Locking, Owning, Listing
<1>13. CASE GridRows(r)
  BY <1>0, <1>13, GridRowsDoes DEF GridRowsAt, Steps, Fetching, Locking, Owning, Listing
<1>14. CASE Acquire(r)
  BY <1>0, <1>14, AcquireDoes DEF AcquireAt, Steps, Fetching, Locking, Owning, Listing
<1>15. CASE Delete(r)
  BY <1>0, <1>15, DeleteDoes DEF DeleteAt, Steps, Fetching, Locking, Owning, Listing
<1>16. CASE GridUpdate(r)
  BY <1>0, <1>16, GridUpdateDoes DEF GridUpdateAt, Steps, Fetching, Locking, Owning, Listing
<1>17. CASE GridInsert(r)
  BY <1>0, <1>17, GridInsertDoes DEF GridInsertAt, Steps, Fetching, Locking, Owning, Listing
<1>18. CASE Fail(r)
  BY <1>0, <1>18, FailDoes DEF FailAt, Steps, Fetching, Locking, Owning, Listing
<1> QED
  BY <1>1, <1>2, <1>3, <1>4, <1>5, <1>6, <1>7, <1>8, <1>9, <1>10, <1>11, <1>12, <1>13, <1>14, <1>15, <1>16, <1>17, <1>18 DEF Step

LEMMA OwnRecords ==
  ASSUME Types, KindOK, NEW r \in Requests, Step(r) \/ Fail(r)
  PROVE  /\ cleared'[r] \in [row : {0}, tags : SUBSET Stamps, sources : SUBSET Stamps]
         /\ seen'[r] \in [row : Stamps, tags : SUBSET Stamps, sources : SUBSET Stamps]
<1>0. /\ cleared[r] \in [row : {0}, tags : SUBSET Stamps, sources : SUBSET Stamps]
      /\ seen[r] \in [row : Stamps, tags : SUBSET Stamps, sources : SUBSET Stamps]
  BY DEF Types
<1>i. id[r] \in Profiles => row[id[r]] \in Stamps /\ tags[id[r]] \subseteq Stamps /\ sources[id[r]] \subseteq Stamps
  BY DEF Types
<1>n. Nothing \in [row : {0}, tags : SUBSET Stamps, sources : SUBSET Stamps]
  BY DEF Nothing
<1>1. CASE Start(r)
  <2>1. cleared'[r] = cleared[r] /\ seen'[r] = seen[r]
    BY <1>1, StartDoes DEF StartAt
  <2> QED
    BY <1>0, <2>1
<1>2. CASE Begin(r)
  <2>1. cleared'[r] = cleared[r] /\ seen'[r] = seen[r]
    BY <1>2, BeginDoes DEF BeginAt
  <2> QED
    BY <1>0, <2>1
<1>3. CASE InsertRow(r)
  <2>1. cleared'[r] = cleared[r] /\ seen'[r] = seen[r]
    BY <1>3, InsertRowDoes DEF InsertRowAt
  <2> QED
    BY <1>0, <2>1
<1>4. CASE UpdateRow(r)
  <2>1. cleared'[r] = cleared[r] /\ seen'[r] = seen[r]
    BY <1>4, UpdateRowDoes DEF UpdateRowAt
  <2> QED
    BY <1>0, <2>1
<1>5. CASE DeleteTags(r)
  <2>1. DeleteTagsAt(r)
    BY <1>5, DeleteTagsDoes
  <2>2. id[r] \in Profiles
    BY <2>1 DEF DeleteTagsAt, KindOK, KindAt
  <2>3. seen'[r] = seen[r] /\ cleared'[r] = [row |-> cleared[r].row, tags |-> tags[id[r]], sources |-> cleared[r].sources]
    BY <2>1 DEF DeleteTagsAt
  <2> QED
    BY <1>0, <1>i, <2>2, <2>3
<1>6. CASE ReplaceSources(r)
  <2>1. ReplaceSourcesAt(r)
    BY <1>6, ReplaceSourcesDoes
  <2>2. id[r] \in Profiles
    BY <2>1 DEF ReplaceSourcesAt, KindOK, KindAt
  <2>3. seen'[r] = seen[r] /\ cleared'[r] = [row |-> cleared[r].row, tags |-> cleared[r].tags, sources |-> sources[id[r]]]
    BY <2>1 DEF ReplaceSourcesAt
  <2> QED
    BY <1>0, <1>i, <2>2, <2>3
<1>7. CASE Commit(r)
  BY <1>0, <1>n, <1>7, CommitDoes DEF CommitAt
<1>8. CASE GetRow(r)
  <2>1. GetRowAt(r)
    BY <1>8, GetRowDoes
  <2>2. id[r] \in Profiles
    BY <2>1 DEF GetRowAt, KindOK, KindAt
  <2>3. cleared'[r] = cleared[r] /\ seen'[r] = [row |-> row[id[r]], tags |-> seen[r].tags, sources |-> seen[r].sources]
    BY <2>1 DEF GetRowAt
  <2> QED
    BY <1>0, <1>i, <2>2, <2>3
<1>9. CASE LoadTags(r)
  <2>1. LoadTagsAt(r)
    BY <1>9, LoadTagsDoes
  <2>2. tags[id'[r]] \subseteq Stamps
    BY <2>1 DEF LoadTagsAt, Types
  <2>3. cleared'[r] = cleared[r] /\ seen'[r] = [row |-> seen[r].row, tags |-> tags[id'[r]], sources |-> {}]
    BY <2>1 DEF LoadTagsAt
  <2> QED
    BY <1>0, <2>2, <2>3
<1>10. CASE LoadSources(r)
  <2>1. LoadSourcesAt(r)
    BY <1>10, LoadSourcesDoes
  <2>2. id[r] \in Profiles
    BY <2>1 DEF LoadSourcesAt, KindOK, KindAt
  <2>3. cleared'[r] = cleared[r] /\ seen'[r] = [row |-> seen[r].row, tags |-> seen[r].tags, sources |-> sources[id[r]]]
    BY <2>1 DEF LoadSourcesAt
  <2> QED
    BY <1>0, <1>i, <2>2, <2>3
<1>11. CASE ListRows(r)
  <2>1. cleared'[r] = cleared[r] /\ seen'[r] = seen[r]
    BY <1>11, ListRowsDoes DEF ListRowsAt
  <2> QED
    BY <1>0, <2>1
<1>12. CASE GridColumns(r)
  <2>1. cleared'[r] = cleared[r] /\ seen'[r] = seen[r]
    BY <1>12, GridColumnsDoes DEF GridColumnsAt
  <2> QED
    BY <1>0, <2>1
<1>13. CASE GridRows(r)
  <2>1. cleared'[r] = cleared[r] /\ seen'[r] = seen[r]
    BY <1>13, GridRowsDoes DEF GridRowsAt
  <2> QED
    BY <1>0, <2>1
<1>14. CASE Acquire(r)
  <2>1. cleared'[r] = cleared[r] /\ seen'[r] = seen[r]
    BY <1>14, AcquireDoes DEF AcquireAt
  <2> QED
    BY <1>0, <2>1
<1>15. CASE Delete(r)
  <2>1. cleared'[r] = cleared[r] /\ seen'[r] = seen[r]
    BY <1>15, DeleteDoes DEF DeleteAt
  <2> QED
    BY <1>0, <2>1
<1>16. CASE GridUpdate(r)
  <2>1. cleared'[r] = cleared[r] /\ seen'[r] = seen[r]
    BY <1>16, GridUpdateDoes DEF GridUpdateAt
  <2> QED
    BY <1>0, <2>1
<1>17. CASE GridInsert(r)
  <2>1. cleared'[r] = cleared[r] /\ seen'[r] = seen[r]
    BY <1>17, GridInsertDoes DEF GridInsertAt
  <2> QED
    BY <1>0, <2>1
<1>18. CASE Fail(r)
  <2>1. cleared'[r] = cleared[r] /\ seen'[r] = seen[r]
    BY <1>18, FailDoes DEF FailAt
  <2> QED
    BY <1>0, <2>1
<1> QED
  BY <1>1, <1>2, <1>3, <1>4, <1>5, <1>6, <1>7, <1>8, <1>9, <1>10, <1>11, <1>12, <1>13, <1>14, <1>15, <1>16, <1>17, <1>18 DEF Step

LEMMA OwnTodo == ASSUME Types, NEW r \in Requests, Step(r) \/ Fail(r) PROVE todo'[r] \subseteq Profiles
<1>0. todo[r] \subseteq Profiles
  BY DEF Types
<1>1. CASE todo' = todo
  BY <1>0, <1>1
<1>2. CASE LoadSources(r)
  <2>1. todo' = [todo EXCEPT ![r] = todo[r] \ {id[r]}]
    BY <1>2 DEF LoadSources
  <2> QED
    BY <1>0, <2>1 DEF Types
<1>3. CASE ListRows(r)
  <2>1. todo' = [todo EXCEPT ![r] = {i \in Profiles : row[i] # 0}]
    BY <1>3 DEF ListRows
  <2> QED
    BY <2>1 DEF Types
<1> QED
  BY <1>1, <1>2, <1>3 DEF Step, request, Start, Begin, InsertRow, UpdateRow, DeleteTags, ReplaceSources, Commit, GetRow, LoadTags, GridColumns, GridRows, Acquire, Delete, GridUpdate, GridInsert, Fail

LEMMA MishapsNext == ASSUME Types, NEW r \in Requests, Step(r) \/ Fail(r) PROVE mishaps' \in 0..MaxMishaps
<1>0. mishaps \in 0..MaxMishaps /\ MaxMishaps \in Nat
  BY DEF Types
<1>1. mishaps' = mishaps \/ (mishaps < MaxMishaps /\ mishaps' = mishaps + 1)
  BY DEF Step, Start, Begin, InsertRow, UpdateRow, DeleteTags, ReplaceSources, Commit, GetRow, LoadTags, LoadSources, ListRows, GridColumns, GridRows, Acquire, Delete, GridUpdate, GridInsert, Fail
<1> QED
  BY <1>0, <1>1

LEMMA TypesNext ==
  ASSUME Types, KindOK, ClearedOK, NEW r \in Requests, Step(r) \/ Fail(r) PROVE Types'
<1>0. Only(r) /\ clock' \in Nat /\ Stamps \subseteq Stamps' /\ clock' \in Stamps'
  BY OnlyOwn, ClockForward DEF Stamps
<1>1. pc' \in [Requests -> Steps]
  BY <1>0, OwnTypes DEF Only, Types
<1>2. kind' \in [Requests -> Kinds \cup {None}]
  BY <1>0, OwnTypes DEF Only, Types
<1>3. id' \in [Requests -> Profiles \cup {None}]
  BY <1>0, OwnTypes DEF Only, Types
<1>4. mine' \in [Requests -> Stamps']
  <2>1. mine \in [Requests -> Stamps]
    BY DEF Types
  <2>2. mine'[r] \in Stamps'
    BY <1>0, <2>1, OwnTypes
  <2>3. mine' = [mine EXCEPT ![r] = mine'[r]]
    BY <1>0 DEF Only
  <2> QED
    BY <1>0, <2>1, <2>2, <2>3
<1>5. todo' \in [Requests -> SUBSET Profiles]
  BY <1>0, OwnTodo DEF Only, Types
<1> DEFINE C(s) == [row : {0}, tags : SUBSET s, sources : SUBSET s]
           D(s) == [row : s, tags : SUBSET s, sources : SUBSET s]
<1>6. C(Stamps) \subseteq C(Stamps') /\ D(Stamps) \subseteq D(Stamps')
  BY <1>0
<1>7. cleared \in [Requests -> C(Stamps)] /\ seen \in [Requests -> D(Stamps)]
  BY DEF Types
<1>8. cleared'[r] \in C(Stamps) /\ seen'[r] \in D(Stamps)
  BY OwnRecords
<1>9. /\ cleared' = [cleared EXCEPT ![r] = cleared'[r]]
      /\ seen' = [seen EXCEPT ![r] = seen'[r]]
  BY <1>0 DEF Only
<1> HIDE DEF C, D
<1>10. cleared' \in [Requests -> C(Stamps')]
  BY <1>6, <1>7, <1>8, <1>9
<1>11. seen' \in [Requests -> D(Stamps')]
  BY <1>6, <1>7, <1>8, <1>9
<1> QED
  BY <1>0, <1>1, <1>2, <1>3, <1>4, <1>5, <1>10, <1>11, TablesNext, MishapsNext DEF C, D, Types

-----------------------------------------------------------------------------
(* The connections *)

Conn == Locking \cup Owning \cup Listing

\* A step that takes a connection finds one free.
LEMMA Taking ==
  ASSUME Types, KindOK, NEW r \in Requests, Step(r) \/ Fail(r)
  PROVE  pc'[r] \in Conn => pc[r] \in Conn \/ Free
<1>start. ASSUME Start(r)
      PROVE  /\ pc'[r] \in {"outer", "row", "begin", "conn", "columns"}
             /\ pc'[r] = "outer" => kind'[r] = "list"
             /\ pc'[r] = "row" => kind'[r] = "get"
             /\ pc'[r] = "begin" => kind'[r] \in {"create", "patch"}
             /\ pc'[r] = "conn" => kind'[r] = "delete"
             /\ pc'[r] = "columns" => kind'[r] \in {"rows", "insert", "edit"}
  BY <1>start, StartDoes, FirstStep DEF StartAt
<1>1. CASE Start(r)
  BY <1>1, StartDoes, <1>start DEF StartAt, Conn, Locking, Owning, Listing
<1>2. CASE Begin(r)
  BY <1>2, BeginDoes DEF BeginAt, Conn, Locking, Owning, Listing, Begin
<1>3. CASE InsertRow(r)
  BY <1>3, InsertRowDoes DEF InsertRowAt, Conn, Locking, Owning, Listing
<1>4. CASE UpdateRow(r)
  BY <1>4, UpdateRowDoes DEF UpdateRowAt, Conn, Locking, Owning, Listing
<1>5. CASE DeleteTags(r)
  BY <1>5, DeleteTagsDoes DEF DeleteTagsAt, Conn, Locking, Owning, Listing
<1>6. CASE ReplaceSources(r)
  BY <1>6, ReplaceSourcesDoes DEF ReplaceSourcesAt, Conn, Locking, Owning, Listing
<1>7. CASE Commit(r)
  BY <1>7, CommitDoes DEF CommitAt, Conn, Locking, Owning, Listing
<1>8. CASE GetRow(r)
  BY <1>8, GetRowDoes DEF GetRowAt, Conn, Locking, Owning, Listing
<1>9. CASE LoadTags(r)
  BY <1>9, LoadTagsDoes DEF LoadTagsAt, Conn, Locking, Owning, Listing, LoadTags
<1>10. CASE LoadSources(r)
  BY <1>10, LoadSourcesDoes DEF LoadSourcesAt, Conn, Locking, Owning, Listing, LoadSources
<1>11. CASE ListRows(r)
  BY <1>11, ListRowsDoes DEF ListRowsAt, Conn, Locking, Owning, Listing, ListRows
<1>12. CASE GridColumns(r)
  BY <1>12, GridColumnsDoes DEF GridColumnsAt, Conn, Locking, Owning, Listing
<1>13. CASE GridRows(r)
  BY <1>13, GridRowsDoes DEF GridRowsAt, Conn, Locking, Owning, Listing
<1>14. CASE Acquire(r)
  BY <1>14, AcquireDoes DEF AcquireAt, Conn, Locking, Owning, Listing, Acquire
<1>15. CASE Delete(r)
  BY <1>15, DeleteDoes DEF DeleteAt, Conn, Locking, Owning, Listing
<1>16. CASE GridUpdate(r)
  BY <1>16, GridUpdateDoes DEF GridUpdateAt, Conn, Locking, Owning, Listing
<1>17. CASE GridInsert(r)
  BY <1>17, GridInsertDoes DEF GridInsertAt, Conn, Locking, Owning, Listing
<1>18. CASE Fail(r)
  BY <1>18, FailDoes DEF FailAt, Conn, Locking, Owning, Listing
<1> QED
  BY <1>1, <1>2, <1>3, <1>4, <1>5, <1>6, <1>7, <1>8, <1>9, <1>10, <1>11, <1>12, <1>13, <1>14, <1>15, <1>16, <1>17, <1>18 DEF Step

LEMMA HeldFinite == IsFiniteSet(Held) /\ Cardinality(Held) \in Nat /\ IsFiniteSet(Lists) /\ Cardinality(Lists) \in Nat
<1>1. Held \subseteq Requests /\ Lists \subseteq Requests /\ IsFiniteSet(Requests)
  BY DEF Held, Lists
<1>2. IsFiniteSet(Held) /\ IsFiniteSet(Lists)
  BY <1>1, FS_Subset
<1> QED
  BY <1>2, FS_CardinalityType

LEMMA PoolNext ==
  ASSUME Types, KindOK, PoolOK, NEW r \in Requests, Step(r) \/ Fail(r) PROVE PoolOK'
<1>0. IsFiniteSet(Held) /\ Cardinality(Held) \in Nat /\ PoolSize \in Nat
  BY HeldFinite
<1>1. \A q \in Requests : q # r => pc'[q] = pc[q]
  BY OnlyOwn, OthersSame
<1>2. Held' \subseteq Held \cup {r}
  BY <1>1 DEF Held
<1>3. CASE pc'[r] \notin Conn \/ pc[r] \in Conn
  <2>1. Held' \subseteq Held
    BY <1>1, <1>3 DEF Held, Conn
  <2>2. Cardinality(Held') <= Cardinality(Held) /\ IsFiniteSet(Held')
    BY <1>0, <2>1, FS_Subset
  <2>3. Cardinality(Held') \in Nat
    BY <2>2, FS_CardinalityType
  <2> QED
    BY <1>0, <2>2, <2>3 DEF PoolOK
<1>4. CASE Free
  <2>1. IsFiniteSet(Held \cup {r}) /\ Cardinality(Held \cup {r}) <= Cardinality(Held) + 1
    BY <1>0, FS_AddElement
  <2>2. Cardinality(Held') <= Cardinality(Held \cup {r}) /\ IsFiniteSet(Held')
    BY <1>2, <2>1, FS_Subset
  <2>3. Cardinality(Held') \in Nat /\ Cardinality(Held \cup {r}) \in Nat
    BY <2>1, <2>2, FS_CardinalityType
  <2> QED
    BY <1>0, <1>4, <2>1, <2>2, <2>3 DEF PoolOK, Free
<1> QED
  BY <1>3, <1>4, Taking

-----------------------------------------------------------------------------
(* The invariant *)

LEMMA Start_IInv == Init => IInv
<1> SUFFICES ASSUME Init PROVE IInv
  OBVIOUS
<1>0. 0 \in Stamps /\ 1 \in Stamps /\ 0 \in 0..MaxMishaps /\ clock \in Nat
  BY DEF Init, Stamps
<1>1. Nothing.row = 0 /\ Nothing.tags = {} /\ Nothing.sources = {}
  BY DEF Nothing
<1>2. Types
  <2>1. row \in [Profiles -> Stamps] /\ tags \in [Profiles -> SUBSET Stamps] /\ sources \in [Profiles -> SUBSET Stamps]
    BY <1>0 DEF Init
  <2>2. /\ Nothing \in [row : {0}, tags : SUBSET Stamps, sources : SUBSET Stamps]
        /\ Nothing \in [row : Stamps, tags : SUBSET Stamps, sources : SUBSET Stamps]
    BY <1>0 DEF Nothing
  <2>3. /\ cleared \in [Requests -> [row : {0}, tags : SUBSET Stamps, sources : SUBSET Stamps]]
        /\ seen \in [Requests -> [row : Stamps, tags : SUBSET Stamps, sources : SUBSET Stamps]]
    BY <2>2 DEF Init
  <2>4. /\ pc \in [Requests -> Steps]
        /\ kind \in [Requests -> Kinds \cup {None}] /\ id \in [Requests -> Profiles \cup {None}]
        /\ mine \in [Requests -> Stamps] /\ todo \in [Requests -> SUBSET Profiles]
        /\ mishaps \in 0..MaxMishaps
    BY <1>0 DEF Init, Steps
  <2> QED
    BY <1>0, <2>1, <2>3, <2>4 DEF Types
<1>3. PoolOK
  <2>1. Held = {}
    BY DEF Init, Held, Locking, Owning, Listing
  <2> QED
    BY <2>1, FS_EmptySet DEF PoolOK
<1>4. ASSUME NEW r \in Requests
      PROVE  pc[r] = "idle" /\ mine[r] = 0 /\ row[r] = 0 /\ seen[r] = Nothing
  BY RequestsAreProfiles DEF Init
<1>5. KindOK
  BY <1>1, <1>4 DEF KindOK, KindAt, Writing, Owning, Reading, Listing
<1>6. NewOK /\ OwnerOK /\ ClearedOK
  BY <1>4 DEF NewOK, OwnerOK, ClearedOK, Owning
<1>7. ChildOK
  BY DEF Init, ChildOK
<1>8. NewerOK /\ AnswersForward
  BY <1>1, <1>4 DEF NewerOK, AnswersForward
<1> QED
  BY <1>2, <1>3, <1>5, <1>6, <1>7, <1>8 DEF IInv, DataInv

LEMMA Next_IInv == IInv /\ [Next]_vars => IInv'
<1>1. CASE UNCHANGED vars
  <2>1. Types => Types'
    BY <1>1 DEF vars, tables, request, Types, Stamps
  <2>2. PoolOK => PoolOK'
    BY <1>1 DEF vars, PoolOK, Held
  <2>3. KindOK => KindOK'
    BY <1>1 DEF vars, request, KindOK, KindAt
  <2>4. (NewOK => NewOK') /\ (OwnerOK => OwnerOK') /\ (ClearedOK => ClearedOK') /\ (ChildOK => ChildOK')
    BY <1>1 DEF vars, tables, request, NewOK, OwnerOK, ClearedOK, ChildOK
  <2>5. (NewerOK => NewerOK') /\ (AnswersForward => AnswersForward')
    BY <1>1 DEF vars, tables, request, NewerOK, AnswersForward
  <2> QED
    BY <2>1, <2>2, <2>3, <2>4, <2>5 DEF IInv, DataInv
<1>2. ASSUME IInv, NEW r \in Requests, Step(r) \/ Fail(r) PROVE IInv'
  <2>1. Types /\ PoolOK /\ KindOK /\ NewOK /\ OwnerOK /\ ClearedOK /\ ChildOK /\ NewerOK /\ AnswersForward
    BY <1>2 DEF IInv, DataInv
  <2>2. Types' /\ PoolOK' /\ KindOK'
    BY <1>2, <2>1, TypesNext, PoolNext, KindNext
  <2>3. NewOK' /\ OwnerOK' /\ ClearedOK'
    BY <1>2, <2>1, NewNext, OwnerNext, ClearedNext
  <2>4. ChildOK' /\ NewerOK' /\ AnswersForward'
    BY <1>2, <2>1, <2>2, ChildNext, NewerNext, ForwardNext
  <2> QED
    BY <2>2, <2>3, <2>4 DEF IInv, DataInv
<1> QED
  BY <1>1, <1>2 DEF Next

\* The inductive invariant holds of every behaviour: connections, row locks and the
\* snapshots that the statements of search_profiles.go read stay consistent.
THEOREM Invariance == Spec => []IInv
  BY Start_IInv, Next_IInv, PTL DEF Spec

-----------------------------------------------------------------------------
(* What a reader wants to know *)

\* The variables stay in their ranges, and no more connections are taken than the
\* pool has, whatever requests come and whichever fail (TypeOK).
THEOREM TypeCorrect == Spec => []TypeOK
<1>1. IInv => TypeOK
  BY DEF IInv, Types, PoolOK, TypeOK
<1> QED
  BY <1>1, Invariance, PTL

\* No answer is older than the write it answers, nor has it child rows that go back in
\* time from one statement of GetSearchProfile to the next.
THEOREM AnswersGoForward == Spec => []AnswersForward
<1>1. IInv => AnswersForward
  BY DEF IInv, DataInv
<1> QED
  BY <1>1, Invariance, PTL

\* Transactions, row locks and the pool never wait for one another in a circle: only
\* lists that hold every connection do.
THEOREM PoolUnstuck == Spec => []Unstuck
<1>1. ASSUME IInv, NEW r \in Requests, pc[r] \notin {"idle", "done"}, Cardinality(Lists) < PoolSize
      PROVE  \E q \in Requests : CanGo(q)
  <2>1. CASE \E q \in Requests : pc[q] \in Owning
    BY <2>1 DEF CanGo
  <2>2. CASE /\ \A q \in Requests : pc[q] \notin Owning
             /\ \E q \in Requests : pc[q] \in Locking
    BY <2>2 DEF CanGo, RowFree, Owners
  <2>3. CASE \A q \in Requests : pc[q] \notin Owning \cup Locking
    <3>1. Held = Lists
      BY <2>3 DEF Held, Lists
    <3>2. Free
      BY <1>1, <3>1 DEF Free
    <3>3. pc[r] \in Fetching \cup Listing
      BY <1>1, <2>3 DEF IInv, Types, Steps
    <3> QED
      BY <3>2, <3>3 DEF CanGo
  <2> QED
    BY <2>1, <2>2, <2>3
<1>2. IInv => Unstuck
  BY <1>1 DEF Unstuck
<1> QED
  BY <1>2, Invariance, PTL

LEMMA WritesImplement ==
  ASSUME Types, KindOK, ClearedOK, NEW r \in Requests, Step(r) \/ Fail(r)
  PROVE  P!Next \/ UNCHANGED P!vars
<1>1. CASE Quiet(r)
  BY <1>1, QuietTables DEF P!vars
<1>2. CASE Commit(r)
  <2>1. id[r] \in Profiles /\ row'[id[r]] = clock + 1 /\ clock + 1 # 0
    BY <1>2, CommitWrites DEF Types
  <2>2. tags'[id[r]] = {clock + 1} /\ sources'[id[r]] = {clock + 1}
    BY <1>2, CommitReplaces
  <2>3. row' = [row EXCEPT ![id[r]] = row'[id[r]]]
    BY <1>2, <2>1 DEF Commit
  <2>4. PICK x : tags' = [tags EXCEPT ![id[r]] = x]
    BY <1>2 DEF Commit
  <2>5. PICK y : sources' = [sources EXCEPT ![id[r]] = y]
    BY <1>2 DEF Commit
  <2>6. x = {clock + 1} /\ y = {clock + 1}
    BY <2>1, <2>2, <2>4, <2>5 DEF Types
  <2>7. P!Put(id[r])
    BY <2>1, <2>3, <2>4, <2>5, <2>6 DEF P!Put, P!Written
  <2> QED
    BY <2>1, <2>7 DEF P!Next
<1>3. CASE Delete(r)
  <2>1. id[r] \in Profiles /\ P!Remove(id[r])
    BY <1>3, DeleteWrites DEF Delete, P!Remove
  <2> QED
    BY <2>1 DEF P!Next
<1>4. CASE GridUpdate(r) \/ GridInsert(r)
  <2>1. id[r] \in Profiles /\ tags' = tags /\ sources' = sources /\ clock + 1 # 0
    BY <1>4, GridUpdateWrites, GridInsertWrites DEF Types
  <2>2. CASE row' = row
    BY <2>1, <2>2 DEF P!vars
  <2>3. CASE row' = [row EXCEPT ![id[r]] = clock + 1]
    <3>1. row'[id[r]] = clock + 1
      BY <2>1, <2>3 DEF Types
    <3>2. P!Edit(id[r])
      BY <2>1, <2>3, <3>1 DEF P!Edit, P!Written
    <3> QED
      BY <2>1, <3>2 DEF P!Next
  <2>4. row' = row \/ row' = [row EXCEPT ![id[r]] = clock + 1]
    BY <1>4 DEF GridUpdate, GridInsert
  <2> QED
    BY <2>2, <2>3, <2>4
<1> QED
  BY <1>1, <1>2, <1>3, <1>4, QuietOrNot

\* A profile is written, edited or removed as ProfileStore says, in one step: row, tags
\* and sources from one request, though three statements each replace them.
THEOREM ProfilesWhole == Spec => ImplementsProfileStore
<1>1. Init => P!Init
  BY DEF Init, P!Init
<1>2. IInv /\ [Next]_vars => [P!Next]_(P!vars)
  <2>1. ASSUME IInv, NEW r \in Requests, Step(r) \/ Fail(r) PROVE P!Next \/ UNCHANGED P!vars
    BY <2>1, WritesImplement DEF IInv, DataInv
  <2>2. ASSUME UNCHANGED vars PROVE UNCHANGED P!vars
    BY <2>2 DEF vars, tables, P!vars
  <2> QED
    BY <2>1, <2>2 DEF Next
<1> QED
  BY <1>1, <1>2, Invariance, PTL DEF Spec, ImplementsProfileStore, P!Spec

=============================================================================
