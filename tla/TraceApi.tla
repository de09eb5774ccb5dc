-------------------------------- MODULE TraceApi --------------------------------
(***************************************************************************)
(* The traces API of SentinelLLM (api/routers/traces.py): ingestion under  *)
(* an id of the client's choice, labels by reviewers, lists and exports,   *)
(* and replays.                                                            *)
(*                                                                         *)
(* A request is one READ COMMITTED transaction.  An INSERT takes the       *)
(* unique index on trace_id until its transaction ends, an UPDATE writes   *)
(* the columns whose values differ from what the request read.             *)
(***************************************************************************)
EXTENDS Integers, SequencesExt

CONSTANTS
    Apps,
    Everyone,       \* the scope of a key that is not scoped to an application
    Ids,            \* trace ids
    NoId,           \* stands for none of them
    Contents,       \* what a trace holds: prompt, response, measurements
    Unusable,       \* contents /generate would reject, an empty prompt
    Verdicts,       \* what reviewers submit: a rating and a note
    Unnoted,        \* the note of a verdict that comes without one
    TagSets,        \* the normalised tag sets reviewers submit
    Requests,       \* requests in flight at a time
    Menus,          \* what the clients of one behaviour do: sets of operations
    Filters,        \* what a list is filtered by: an application, a tag, NoFilter
    NoFilter,
    PageSize, ExportCap,
    MaxEdits        \* bound on the labels that are submitted

ASSUME TraceAssumption ==
    /\ Everyone \notin Apps /\ NoId \notin Ids
    /\ Unusable \subseteq Contents
    /\ \A v \in Verdicts : v = [rating |-> v.rating, note |-> v.note]
    /\ NoFilter \in Filters
    /\ PageSize \in Nat \ {0} /\ ExportCap \in Nat \ {0}
    /\ MaxEdits \in Nat

Scopes == Apps \cup {Everyone}

NoRow == [stored |-> FALSE]
NoVerdict == [rating |-> "none", note |-> Unnoted]

VARIABLES
    traces,     \* per id, the committed row
    order,      \* the ids inserted, also where uncommitted, by created_at
    menu,       \* the operations clients ask for
    req,        \* per request, its transaction
    walk,       \* a client that reads the list page by page
    edits,      \* the labels submitted so far
    told,       \* history: per id, what clients were told of it, all answers together
    strayed,    \* history: the traces told to a scope that does not hold them
    crossed     \* history: the traces whose verdict two requests wrote at once

vars == << traces, order, menu, req, walk, edits, told, strayed, crossed >>

Idle == [step |-> "idle"]

Init ==
    /\ traces = [t \in Ids |-> NoRow]
    /\ order = << >>
    /\ menu \in Menus
    /\ req = [r \in Requests |-> Idle]
    /\ walk = Idle
    /\ edits = 0
    /\ told = [t \in Ids |-> {}]
    /\ strayed = {}
    /\ crossed = {}

Stored == { t \in Ids : traces[t].stored }

\* ApplicationScope.contains
InScope(scope, app) == scope = Everyone \/ scope = app

\* The column or the tag a list is filtered by; the others are alike.
Matches(t, filter) ==
    filter = NoFilter \/ filter = traces[t].app \/ filter \in traces[t].tags

Visible(scope) == { t \in Stored : InScope(scope, traces[t].app) }

\* The traces ts, rows of `rows', are answered to a key of that scope.
\* Clients tell answers apart by the owner and the contents.
Tell(scope, ts, rows) ==
    /\ told' = [t \in Ids |-> IF t \in ts
                              THEN told[t] \cup {<< rows[t].app, rows[t].content >>}
                              ELSE told[t]]
    /\ strayed' = strayed \cup { t \in ts : ~InScope(scope, rows[t].app) }

Begin(r, request) ==
    /\ req[r].step = "idle"
    /\ request.op \in menu
    /\ req' = [req EXCEPT ![r] = request]

End(r) == req' = [req EXCEPT ![r] = Idle]

-----------------------------------------------------------------------------
(***************************************************************************)
(* Ingestion.                                                              *)
(***************************************************************************)

\* A row as ingest_trace and generate build it.
NewTrace(app, content, arm, replayOf) ==
    [stored |-> TRUE, app |-> app, content |-> content, verdict |-> NoVerdict,
     tags |-> {}, arm |-> arm, replayOf |-> replayOf]

\* A client may be told of the trace that has its id if it sent it itself.
SameOwner(row, app) == row.app = app

\* ingest_trace where the SELECT finds the id: a trace of the same application
\* is the answer, one of another application is a 409.
Resubmit(r) ==
    /\ req[r].step = "idle" /\ "ingest" \in menu
    /\ \E scope \in Scopes, app \in Apps : \E t \in Stored :
          /\ InScope(scope, app)
          /\ SameOwner(traces[t], app)
          /\ Tell(scope, {t}, traces)
    /\ UNCHANGED << traces, order, menu, req, walk, edits, crossed >>

\* ingest_trace where it does not.
Ingest(r) ==
    /\ \E scope \in Scopes, app \in Apps, t \in Ids \ Stored, content \in Contents :
          /\ InScope(scope, app)
          /\ Begin(r, [op |-> "ingest", step |-> "insert", scope |-> scope, id |-> t,
                       app |-> app, content |-> content])
    /\ UNCHANGED << traces, order, menu, walk, edits, told, strayed, crossed >>

\* Whoever holds the entry of the unique index for t.
Inserting(t) == { r \in Requests : req[r].step = "inserted" /\ req[r].id = t }

\* Mutant: ids are not unique.
TakenMutant(t) == FALSE

Taken(t) == t \in Stored

\* The flush: it waits for the transaction that has inserted the id, and
\* fails with a 409 if that has committed.
Insert(r) ==
    /\ req[r].step = "insert"
    /\ Inserting(req[r].id) = {}
    /\ IF Taken(req[r].id)
       THEN End(r) /\ UNCHANGED order
       ELSE /\ req' = [req EXCEPT ![r] =
                         [op |-> "ingest", step |-> "inserted", id |-> @.id, scope |-> @.scope,
                          row |-> NewTrace(@.app, @.content, NoId, NoId)]]
            /\ order' = Append(order, req[r].id)
    /\ UNCHANGED << traces, menu, walk, edits, told, strayed, crossed >>

\* The end of an ingestion or a replay: the row is committed, and answered.
Store(r) ==
    /\ req[r].step = "inserted"
    /\ traces' = [traces EXCEPT ![req[r].id] = req[r].row]
    /\ Tell(req[r].scope, {req[r].id}, traces')
    /\ End(r)
    /\ UNCHANGED << order, menu, walk, edits, crossed >>

-----------------------------------------------------------------------------
(***************************************************************************)
(* Labels.                                                                 *)
(***************************************************************************)

\* A reviewer's request reads the trace and what it is labelled with.
Label(r) ==
    /\ edits < MaxEdits
    /\ edits' = edits + 1
    /\ \E scope \in Scopes : \E t \in Visible(scope) :
          \/ \E v \in Verdicts :
                Begin(r, [op |-> "feedback", step |-> "label", id |-> t, new |-> v,
                          read |-> traces[t].verdict])
          \/ \E tags \in TagSets :
                Begin(r, [op |-> "tags", step |-> "label", id |-> t, new |-> tags,
                          read |-> traces[t].tags])
    /\ UNCHANGED << traces, order, menu, walk, told, strayed, crossed >>

\* Mutant: a verdict without a note keeps the note there is.
CorrectedMutant(stored, read, new) ==
    [rating |-> IF new.rating = read.rating THEN stored.rating ELSE new.rating,
     note |-> IF new.note \in {read.note, Unnoted} THEN stored.note ELSE new.note]

\* The columns of the stored verdict that an UPDATE sets.
Corrected(stored, read, new) ==
    [rating |-> IF new.rating = read.rating THEN stored.rating ELSE new.rating,
     note |-> IF new.note = read.note THEN stored.note ELSE new.note]

\* submit_trace_feedback: a first verdict is inserted, which the unique index
\* refuses if another one came first; a later one is corrected.
Review(r) ==
    LET t == req[r].id
        stored == traces[t].verdict
        first == req[r].read = NoVerdict
    IN
    /\ req[r].step = "label" /\ req[r].op = "feedback"
    /\ IF first /\ stored # NoVerdict
       THEN UNCHANGED << traces, crossed >>
       ELSE /\ traces' = [traces EXCEPT ![t].verdict =
                            IF first THEN req[r].new
                            ELSE Corrected(stored, req[r].read, req[r].new)]
            /\ crossed' = IF req[r].read # stored THEN crossed \cup {t} ELSE crossed
    /\ End(r)
    /\ UNCHANGED << order, menu, walk, edits, told, strayed >>

\* update_trace_tags: the whole set is replaced, or, if it is the one that was
\* read, left to whoever replaced it since.
Tag(r) ==
    /\ req[r].step = "label" /\ req[r].op = "tags"
    /\ traces' = [traces EXCEPT ![req[r].id].tags =
                    IF req[r].new = req[r].read THEN @ ELSE req[r].new]
    /\ End(r)
    /\ UNCHANGED << order, menu, walk, edits, told, strayed, crossed >>

-----------------------------------------------------------------------------
(***************************************************************************)
(* Reading.                                                                *)
(***************************************************************************)

\* ORDER BY created_at DESC: what precedes t in a list of ids.
Newer(t, ids) ==
    { u \in ids : \E i, j \in DOMAIN order : i < j /\ order[i] = t /\ order[j] = u }

\* The rows a LIMIT and an OFFSET leave.
Cut(ids, limit, offset) ==
    { t \in ids : Cardinality(Newer(t, ids)) \in offset..(offset + limit - 1) }

\* What a list shows a key of that scope, over all pages.
Found(scope, filter) == { t \in Visible(scope) : Matches(t, filter) }

\* get_trace
Get(scope) ==
    /\ "read" \in menu
    /\ \E t \in Visible(scope) : Tell(scope, {t}, traces)
    /\ UNCHANGED << traces, order, menu, req, walk, edits, crossed >>

\* export_traces: the newest rows that match, at most ExportCap.
Export(scope) ==
    /\ "read" \in menu
    /\ \E filter \in Filters :
          Tell(scope, Cut(Found(scope, filter), ExportCap, 0), traces)
    /\ UNCHANGED << traces, order, menu, req, walk, edits, crossed >>

\* Mutant: the page is cut before the rows that do not match are left out.
PageMutant(scope, filter, offset) ==
    Cut(Stored, PageSize, offset) \cap Found(scope, filter)

\* list_traces
Page(scope, filter, offset) == Cut(Found(scope, filter), PageSize, offset)

\* A client reads the list from its start to the first page that is empty.
StartWalk ==
    /\ "pages" \in menu
    /\ walk = Idle
    /\ \E scope \in Scopes, filter \in Filters :
          walk' = [step |-> "walking", scope |-> scope, filter |-> filter, offset |-> 0,
                   seen |-> {}, start |-> Found(scope, filter)]
    /\ UNCHANGED << traces, order, menu, req, edits, told, strayed, crossed >>

NextPage ==
    /\ walk.step = "walking"
    /\ LET page == Page(walk.scope, walk.filter, walk.offset) IN
       walk' = IF page = {} THEN [walk EXCEPT !.step = "done"]
               ELSE [walk EXCEPT !.offset = @ + PageSize, !.seen = @ \cup page]
    /\ UNCHANGED << traces, order, menu, req, edits, told, strayed, crossed >>

-----------------------------------------------------------------------------
(***************************************************************************)
(* Replay.                                                                 *)
(***************************************************************************)

\* Mutant: the new trace inherits the metadata of the original's execution.
InheritedArmMutant(original) == original.arm

\* What the original's execution wrote into its metadata and the replay
\* copies: nothing of _EXECUTION_METADATA.
InheritedArm(original) == NoId

\* replay_trace up to the call of generate: a 422 if the original cannot be
\* generated from.
Replay(r) ==
    /\ \E scope \in Scopes : \E t \in Visible(scope) :
          /\ traces[t].content \notin Unusable
          /\ Begin(r, [op |-> "replay", step |-> "generate", scope |-> scope, id |-> t,
                       original |-> traces[t]])
    /\ UNCHANGED << traces, order, menu, walk, edits, told, strayed, crossed >>

\* generate: a new id, and the arm of a rollout if this execution is in one.
Generate(r) ==
    /\ req[r].step = "generate"
    /\ \E new \in Ids \ Stored, inRollout \in BOOLEAN :
          /\ Inserting(new) = {}
          /\ order' = Append(order, new)
          /\ req' = [req EXCEPT ![r] =
                [op |-> "replay", step |-> "inserted", scope |-> @.scope, id |-> new,
                 row |-> NewTrace(@.original.app, @.original.content,
                                  IF inRollout THEN new ELSE InheritedArm(@.original),
                                  @.id)]]
    /\ UNCHANGED << traces, menu, walk, edits, told, strayed, crossed >>

\* A request that fails before its commit leaves nothing.
Abort(r) ==
    /\ req[r].step # "idle"
    /\ End(r)
    /\ IF req[r].step = "inserted"
       THEN \E i \in DOMAIN order : order[i] = req[r].id /\ order' = RemoveAt(order, i)
       ELSE UNCHANGED order
    /\ UNCHANGED << traces, menu, walk, edits, told, strayed, crossed >>

Next ==
    \/ \E r \in Requests :
          \/ Resubmit(r) \/ Ingest(r) \/ Insert(r) \/ Store(r)
          \/ Label(r) \/ Review(r) \/ Tag(r)
          \/ Replay(r) \/ Generate(r) \/ Abort(r)
    \/ \E scope \in Scopes : Get(scope) \/ Export(scope)
    \/ StartWalk \/ NextPage

Spec == Init /\ [][Next]_vars

-----------------------------------------------------------------------------
\* An id names one trace for good: all answers about it, to the client that
\* sent it first, to one that sends it again with other contents and to
\* readers, tell the same, and what is stored does too.  None, of whatever
\* endpoint, holds a trace outside the scope of the key that asked
\* (traces.py:158-186, 74-81).
AnswersAgree ==
    /\ \A t \in Ids :
          told[t] \subseteq IF t \in Stored THEN {<< traces[t].app, traces[t].content >>}
                            ELSE {}
    /\ strayed = {}

\* What a trace is labelled with was submitted as one, however often it was
\* corrected: a verdict mixes two reviewers' only if they overlapped
\* (traces.py:386-430).
LabelsAreWhole ==
    \A t \in Stored :
       /\ t \notin crossed => traces[t].verdict \in Verdicts \cup {NoVerdict}
       /\ traces[t].tags \in TagSets \cup {{}}

\* The same without the exception, which overlapping corrections break.
VerdictIsWhole == \A t \in Stored : traces[t].verdict \in Verdicts \cup {NoVerdict}

\* Traces that are stored while a client turns the pages may show it a trace
\* twice, but keep none from it (traces.py:261-301): where the list is filtered by
\* what does not change.  Tags do: a list filtered by one gets shorter, and its
\* rows move up past the client, when the tag is taken from a trace
\* (TraceApiRetagged.cfg).
PagesSkipNothing == walk.step = "done" => walk.start \subseteq walk.seen

\* A replay, also one of a replay, stays with its original's application and
\* prompt and claims no other execution's rollout arm for itself
\* (traces.py:48-60, 433-480).
ReplayIsItsOwn ==
    \A t \in Stored :
       /\ traces[t].arm \in {NoId, t}
       /\ traces[t].replayOf # NoId =>
             LET original == traces[traces[t].replayOf] IN
             /\ original.stored /\ traces[t].replayOf # t
             /\ original.app = traces[t].app /\ original.content = traces[t].content

=============================================================================
