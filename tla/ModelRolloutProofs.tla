-------------------------- MODULE ModelRolloutProofs --------------------------
(***************************************************************************)
(* What ModelRollout guarantees for every number of applications, rollouts *)
(* replicas and operators, every guard rail, window and bound.             *)
(***************************************************************************)
EXTENDS ModelRollout, FiniteSetTheorems, TLAPS

LEMMA Bounds ==
    /\ MaxPct \in Nat \ {0} /\ StepPct \in Nat \ {0} /\ InitialPcts \subseteq 0..MaxPct
    /\ MaxTime \in Nat /\ Grace \in Nat /\ MaxFaults \in Nat
BY RolloutAssumption

LEMMA NoRowType == NoRow \in Row
BY Bounds DEF NoRow, Row

\* NextTraffic stays within the ceiling.
LEMMA NextTrafficType ==
    ASSUME NEW current \in 0..MaxPct
    PROVE  LET next == NextTraffic(current, StepPct, MaxPct)
           IN  next.traffic \in 0..MaxPct /\ next.promoted \in BOOLEAN
BY Bounds DEF NextTraffic

\* NextTraffic promotes exactly when the step reaches the ceiling.
LEMMA NextTrafficStep ==
    ASSUME NEW current \in 0..MaxPct
    PROVE  LET next == NextTraffic(current, StepPct, MaxPct)
           IN  \/ /\ current + StepPct < MaxPct
                  /\ next.traffic = current + StepPct /\ ~next.promoted
               \/ /\ current + StepPct >= MaxPct
                  /\ next.traffic = MaxPct /\ next.promoted
<1> DEFINE new == IF current + StepPct < MaxPct THEN current + StepPct ELSE MaxPct
           next == NextTraffic(current, StepPct, MaxPct)
<1>1. next.traffic = new
  BY DEF NextTraffic
<1>2. next.promoted = (new >= MaxPct)
  BY Zenon DEF NextTraffic
<1>3. \/ current + StepPct < MaxPct /\ new = current + StepPct /\ ~(new >= MaxPct)
      \/ current + StepPct >= MaxPct /\ new = MaxPct /\ new >= MaxPct
  BY Bounds
<1> HIDE DEF new, next
<1>4. QED
  BY <1>1, <1>2, <1>3 DEF next

\* What a decision or an operator writes into a row keeps its type.
LEMMA RowUpdate ==
    ASSUME NEW row \in Row, NEW stage \in Active \cup Terminal \cup {"none"},
           NEW traffic \in 0..MaxPct, NEW since \in 0..MaxTime, NEW evidence \in SUBSET Traces
    PROVE  /\ [row EXCEPT !.stage = stage] \in Row
           /\ [row EXCEPT !.stage = stage, !.traffic = traffic, !.since = since] \in Row
           /\ [row EXCEPT !.stage = stage, !.traffic = traffic, !.since = since,
                          !.evidence = evidence] \in Row
<1>1. [row EXCEPT !.stage = stage] \in Row
  BY DEF Row
<1>2. [row EXCEPT !.stage = stage, !.traffic = traffic, !.since = since] \in Row
  BY DEF Row
<1>3. [row EXCEPT !.stage = stage, !.traffic = traffic, !.since = since,
                  !.evidence = evidence] \in Row
  BY DEF Row
<1>4. QED
  BY <1>1, <1>2, <1>3

\* A window that is decided on ends after the cursor, and not in the future.
LEMMA UntilType ==
    ASSUME TypeOK, NEW row \in Row, EnoughEvidence(row)
    PROVE  Until \in 0..MaxTime
<1>1. now \in 0..MaxTime /\ row.since \in 0..MaxTime
  BY DEF TypeOK, Row
<1>2. now - Grace > row.since
  BY DEF EnoughEvidence, Until
<1>3. QED
  BY <1>1, <1>2, Bounds DEF Until

LEMMA DraftType ==
    ASSUME TypeOK, NEW p \in Owners, NEW r \in Rollouts, NEW new \in Row,
           draft' = [draft EXCEPT ![p][r] = new]
    PROVE  draft' \in [Owners -> [Rollouts -> Row]]
<1>1. draft[p] \in [Rollouts -> Row]
  BY DEF TypeOK
<1>2. [draft[p] EXCEPT ![r] = new] \in [Rollouts -> Row]
  BY <1>1
<1>3. QED
  BY <1>2 DEF TypeOK

\* A transaction's end keeps the types.
LEMMA CloseType ==
    ASSUME TypeOK, NEW p \in Owners, Close(p)
    PROVE  /\ draft' \in [Owners -> [Rollouts -> Row]]
           /\ lock' \in [Rollouts -> Owners \cup {NoOne}]
<1>1. draft' \in [Owners -> [Rollouts -> Row]]
  <2>1. [r \in Rollouts |-> NoRow] \in [Rollouts -> Row]
    BY NoRowType
  <2>2. QED
    BY <2>1 DEF TypeOK, Close
<1>2. lock' \in [Rollouts -> Owners \cup {NoOne}]
  BY DEF TypeOK, Close
<1>3. QED
  BY <1>1, <1>2

LEMMA CommitType ==
    ASSUME TypeOK, NEW p \in Owners, Commit(p) \/ Abort(p)
    PROVE  /\ rows' \in [Rollouts -> Row]
           /\ draft' \in [Owners -> [Rollouts -> Row]]
           /\ lock' \in [Rollouts -> Owners \cup {NoOne}]
           /\ announced' = announced
<1>1. Close(p) /\ announced' = announced
  BY DEF Commit, Abort
<1>2. rows' \in [Rollouts -> Row]
  <2>1. \A r \in Rollouts : rows[r] \in Row /\ draft[p][r] \in Row
    BY DEF TypeOK
  <2>2. CASE Commit(p)
    BY <2>1, <2>2 DEF Commit
  <2>3. CASE Abort(p)
    BY <2>3 DEF Abort, TypeOK
  <2>4. QED
    BY <2>2, <2>3
<1>3. QED
  BY <1>1, <1>2, CloseType

\* TypeOK is an invariant: every value the pass, the operators and the traffic
\* write stays in its domain (worker/tasks/rollout.py, api/routers/rollouts.py).
THEOREM TypeCorrect == Spec => []TypeOK
<1>1. Init => TypeOK
  <2> SUFFICES ASSUME Init PROVE TypeOK
    OBVIOUS
  <2>1. rows \in [Rollouts -> Row]
    BY NoRowType DEF Init
  <2>2. draft \in [Owners -> [Rollouts -> Row]]
    BY NoRowType DEF Init
  <2>3. NoTrace \in Trace
    BY Bounds DEF NoTrace, Trace, Arms
  <2>4. traces \in [Traces -> Trace]
    BY <2>3 DEF Init
  <2>5. now \in 0..MaxTime /\ faults \in 0..MaxFaults
    BY Bounds DEF Init
  <2>6. QED
    BY <2>1, <2>2, <2>4, <2>5 DEF Init, TypeOK
<1>2. TypeOK /\ [Next]_vars => TypeOK'
  <2>1. CASE UNCHANGED vars
    BY <2>1 DEF vars, tableVars, TypeOK
  <2> SUFFICES ASSUME TypeOK, Next PROVE TypeOK'
    BY <2>1
  <2>2. ASSUME NEW w \in Replicas, Pass(w) PROVE TypeOK'
    <3>1. CASE PassStart(w)
      <4>1. [r \in Rollouts |-> IF r \in Lockable THEN rows[r] ELSE NoRow]
              \in [Rollouts -> Row]
        BY NoRowType DEF TypeOK
      <4>2. draft' \in [Owners -> [Rollouts -> Row]]
        BY <3>1, <4>1 DEF PassStart, TypeOK
      <4>3. lock' \in [Rollouts -> Owners \cup {NoOne}]
        BY <3>1 DEF PassStart, TypeOK, Owners
      <4>4. todo' \in [Replicas -> SUBSET Rollouts]
        BY <3>1 DEF PassStart, TypeOK, Lockable
      <4>5. QED
        BY <3>1, <4>2, <4>3, <4>4 DEF PassStart, TypeOK
    <3>2. ASSUME NEW r \in Rollouts, Decide(w, r) PROVE TypeOK'
      <4>0. 0 \in 0..MaxPct /\ "rolled_back" \in Active \cup Terminal
        BY Bounds DEF Terminal
      <4>1. w \in Owners /\ draft[w][r] \in Row
        BY DEF TypeOK, Owners
      <4>2. now \in 0..MaxTime
        BY DEF TypeOK
      <4>d. Decided(w, r) => todo' \in [Replicas -> SUBSET Rollouts]
        BY DEF Decided, TypeOK
      <4>3. CASE DecideUnhealthy(w, r)
        <5>1. [draft[w][r] EXCEPT !.stage = "rolled_back", !.traffic = 0,
                                  !.since = now] \in Row
          BY <4>0, <4>1, <4>2, RowUpdate
        <5>2. draft' \in [Owners -> [Rollouts -> Row]]
          BY <4>1, <4>3, <5>1, DraftType DEF DecideUnhealthy
        <5>3. QED
          BY <4>3, <4>d, <5>2 DEF DecideUnhealthy, Decided, TypeOK
      <4>4. CASE DecideLater(w, r)
        BY <4>4, <4>d DEF DecideLater, Decided, TypeOK
      <4>5. Challengers(draft[w][r]) \in SUBSET Traces
        BY DEF Challengers, InWindow
      <4> DEFINE seen == draft[w][r].evidence \cup Challengers(draft[w][r])
      <4>e. seen \in SUBSET Traces
        BY <4>1, <4>5 DEF Row
      <4>6. CASE DecideRollback(w, r)
        <5> HIDE DEF seen
        <5>0. Until \in 0..MaxTime
          BY <4>1, <4>6, UntilType DEF DecideRollback
        <5>1. [draft[w][r] EXCEPT !.stage = "rolled_back", !.traffic = 0,
                 !.since = Until, !.evidence = seen] \in Row
          BY <4>0, <4>1, <4>e, <5>0, RowUpdate
        <5>2. draft' \in [Owners -> [Rollouts -> Row]]
          BY <4>1, <4>6, <5>1, DraftType DEF DecideRollback, seen
        <5>3. QED
          BY <4>6, <4>d, <5>2 DEF DecideRollback, Decided, TypeOK
      <4>7. CASE DecideAdvance(w, r)
        <5> DEFINE next == NextTraffic(draft[w][r].traffic, StepPct, MaxPct)
        <5>1. next.traffic \in 0..MaxPct
          BY <4>1, NextTrafficType DEF Row
        <5> HIDE DEF next
        <5> DEFINE stage == IF next.promoted THEN "promoted" ELSE draft[w][r].stage
        <5>2. stage \in Active \cup Terminal \cup {"none"}
          BY <4>1 DEF Row, Terminal
        <5> HIDE DEF stage, seen
        <5>0. Until \in 0..MaxTime
          BY <4>1, <4>7, UntilType DEF DecideAdvance
        <5>3. [draft[w][r] EXCEPT !.stage = stage, !.traffic = next.traffic,
                 !.since = Until, !.evidence = seen] \in Row
          BY <4>1, <4>e, <5>0, <5>1, <5>2, RowUpdate
        <5>5. draft' \in [Owners -> [Rollouts -> Row]]
          BY <4>1, <4>7, <5>3, DraftType DEF DecideAdvance, next, stage, seen
        <5>4. QED
          BY <4>7, <4>d, <5>5 DEF DecideAdvance, Decided, TypeOK
      <4>8. QED
        BY <3>2, <4>3, <4>4, <4>6, <4>7 DEF Decide
    <3>3. CASE PassCommit(w)
      <4>1. w \in Owners /\ Commit(w)
        BY <3>3 DEF PassCommit, Owners
      <4>2. leader' \in Replicas \cup {NoOne}
        BY <3>3 DEF PassCommit, FreeLeader, TypeOK
      <4>3. QED
        BY <3>3, <4>1, <4>2, CommitType DEF PassCommit, TypeOK
    <3>4. CASE PassFail(w)
      <4>1. w \in Owners /\ Abort(w)
        BY <3>4 DEF PassFail, Owners
      <4>2. leader' \in Replicas \cup {NoOne}
        BY <3>4 DEF PassFail, FreeLeader, TypeOK
      <4>3. faults' \in 0..MaxFaults
        BY <3>4, Bounds DEF PassFail, Fault, TypeOK
      <4>4. todo' \in [Replicas -> SUBSET Rollouts]
        BY <3>4 DEF PassFail, TypeOK
      <4>5. QED
        BY <3>4, <4>1, <4>2, <4>3, <4>4, CommitType DEF PassFail, TypeOK
    <3>5. CASE LeaderLost(w)
      BY <3>5, Bounds DEF LeaderLost, Fault, TypeOK, tableVars
    <3>6. QED
      BY <2>2, <3>1, <3>2, <3>3, <3>4, <3>5 DEF Pass
  <2>3. ASSUME NEW o \in Operators, Operator(o) PROVE TypeOK'
    <3>1. ASSUME NEW r \in Rollouts, NEW new \in Row, Write(o, r, new)
          PROVE  TypeOK'
      <4>1. draft' \in [Owners -> [Rollouts -> Row]]
        BY <3>1, DraftType DEF Write, Owners
      <4>2. lock' \in [Rollouts -> Owners \cup {NoOne}]
        BY <3>1 DEF Write, TypeOK, Owners
      <4>3. QED
        BY <3>1, <4>1, <4>2 DEF Write, TypeOK
    <3>2. ASSUME NEW r \in Rollouts,
                 Pause(o, r) \/ Resume(o, r) \/ Promote(o, r) \/ Rollback(o, r)
          PROVE  TypeOK'
      <4>1. rows[r] \in Row /\ now \in 0..MaxTime
        BY DEF TypeOK
      <4>0. /\ 0 \in 0..MaxPct /\ MaxPct \in 0..MaxPct
            /\ {"paused", "running", "promoted", "rolled_back"}
                 \subseteq Active \cup Terminal
        BY Bounds DEF Active, Terminal
      <4>2. /\ [rows[r] EXCEPT !.stage = "paused"] \in Row
            /\ [rows[r] EXCEPT !.stage = "running"] \in Row
            /\ [rows[r] EXCEPT !.stage = "promoted", !.traffic = MaxPct,
                               !.since = now] \in Row
            /\ [rows[r] EXCEPT !.stage = "rolled_back", !.traffic = 0,
                               !.since = now] \in Row
        BY <4>0, <4>1, RowUpdate
      <4>3. QED
        BY <3>2, <4>2, <3>1 DEF Pause, Resume, Promote, Rollback
    <3>3. CASE OperatorCommit(o) \/ OperatorFail(o)
      <4>1. o \in Owners /\ (Commit(o) \/ Abort(o))
        BY <3>3 DEF OperatorCommit, OperatorFail, Owners
      <4>2. faults' \in 0..MaxFaults
        BY <3>3, Bounds DEF OperatorCommit, OperatorFail, Fault, TypeOK
      <4>3. QED
        BY <3>3, <4>1, <4>2, CommitType DEF OperatorCommit, OperatorFail, TypeOK
    <3>4. ASSUME NEW a \in Apps, CreateCheck(o, a) PROVE TypeOK'
      BY <3>4 DEF CreateCheck, TypeOK, tableVars
    <3>5. ASSUME NEW r \in Rollouts, CreateInsert(o, r) PROVE TypeOK'
      <4>1. PICK pct \in InitialPcts :
              rows' = [rows EXCEPT ![r] =
                         [ stage |-> "running", app |-> creating[o], traffic |-> pct,
                           created |-> now, since |-> now, initial |-> pct,
                           evidence |-> {} ]]
        BY <3>5 DEF CreateInsert
      <4>2. [ stage |-> "running", app |-> creating[o], traffic |-> pct,
              created |-> now, since |-> now, initial |-> pct,
              evidence |-> {} ] \in Row
        BY Bounds DEF Row, Active, TypeOK
      <4>3. rows' \in [Rollouts -> Row]
        BY <4>1, <4>2 DEF TypeOK
      <4>4. creating' \in [Operators -> Apps \cup {NoApp}]
        BY <3>5 DEF CreateInsert, TypeOK
      <4>5. QED
        BY <3>5, <4>3, <4>4 DEF CreateInsert, TypeOK
    <3>6. CASE CreateConflict(o)
      BY <3>6 DEF CreateConflict, TypeOK, tableVars
    <3>7. QED
      BY <2>3, <3>2, <3>3, <3>4, <3>5, <3>6 DEF Operator
  <2>4. CASE Traffic
    <3>1. ASSUME NEW t \in Traces, NEW a \in Apps, NEW arm \in Arms, Serve(t, a, arm)
          PROVE  TypeOK'
      BY <3>1 DEF Serve, TypeOK, tableVars, Trace
    <3>2. ASSUME NEW t \in Traces, CommitTrace(t) \/ Score(t) PROVE TypeOK'
      <4>1. CASE CommitTrace(t)
        BY <4>1 DEF CommitTrace, TypeOK, tableVars, Trace
      <4>2. CASE Score(t)
        BY <4>2 DEF Score, TypeOK, tableVars, Trace
      <4>3. QED
        BY <3>2, <4>1, <4>2
    <3>3. ASSUME NEW arm \in Arms, Flag(arm) PROVE TypeOK'
      BY <3>3 DEF Flag, TypeOK, tableVars
    <3>4. QED
      BY <2>4, <3>1, <3>2, <3>3 DEF Traffic
  <2>5. CASE Tick
    BY <2>5, Bounds DEF Tick, TypeOK, tableVars
  <2>6. QED
    BY <2>2, <2>3, <2>4, <2>5 DEF Next
<1>3. QED
  BY <1>1, <1>2, PTL DEF Spec

------------------------------------------------------------------------------
(* Isolation: the inductive invariant *)

Inv == TypeOK /\ Isolation

\* What depends on the committed rows alone.
LEMMA RowsFrame ==
    ASSUME Isolation, UNCHANGED rows
    PROVE  (CreatedInOrder /\ ServedRollout)'
BY DEF Isolation, CreatedInOrder, ServedRollout, IsLatest, OfApp

\* A step that touches no row, version, lock or work list keeps it.
LEMMA IsolationFrame ==
    ASSUME Isolation, UNCHANGED <<rows, draft, lock, todo>>
    PROVE  Isolation'
<1>1. rows' = rows /\ draft' = draft /\ lock' = lock /\ todo' = todo
  OBVIOUS
<1>2. HeldIsLocked'
  BY <1>1 DEF Isolation, HeldIsLocked, Held
<1>3. DraftIsOneMove'
  <2> SUFFICES ASSUME NEW p \in Owners, NEW r \in Rollouts, r \in Held(p)'
               PROVE  rows'[r].stage \in Active /\ OneMove(rows'[r], draft'[p][r])
    BY DEF DraftIsOneMove
  <2>1. QED
    BY <1>1 DEF Isolation, DraftIsOneMove, Held
<1>4. TodoIsFresh'
  BY <1>1 DEF Isolation, TodoIsFresh, Held
<1>5. QED
  BY <1>1, <1>2, <1>3, <1>4, RowsFrame DEF Isolation

\* A pass selects running rows that nobody holds.
LEMMA PassStartIsolated ==
    ASSUME Inv, NEW w \in Replicas, PassStart(w)
    PROVE  Isolation'
<1>1. w \in Owners /\ w # NoOne
  BY RolloutAssumption DEF Owners
<1>2. \A r \in Rollouts : lock[r] # w
  BY <1>1 DEF Inv, Isolation, HeldIsLocked, PassStart
<1>3. \A p \in Owners \ {w} : draft'[p] = draft[p] /\ Held(p)' = Held(p)
  BY DEF PassStart, Held, Inv, TypeOK
<1>4. draft'[w] = [r \in Rollouts |-> IF r \in Lockable THEN rows[r] ELSE NoRow]
  BY <1>1 DEF PassStart, Inv, TypeOK
<1>5. \A r \in Lockable : rows[r] # NoRow /\ rows[r].stage = "running" /\ r \in Rollouts
  BY DEF Lockable, NoRow
<1>6. Held(w)' = Lockable
  BY <1>4, <1>5 DEF Held
<1>7. HeldIsLocked'
  <2> SUFFICES ASSUME NEW p \in Owners, NEW r \in Rollouts
               PROVE  r \in Held(p)' <=> lock'[r] = p
    BY DEF HeldIsLocked
  <2>1. lock'[r] = IF r \in Lockable THEN w ELSE lock[r]
    BY DEF PassStart
  <2>2. CASE p = w
    BY <1>2, <1>6, <2>1, <2>2
  <2>3. CASE p # w
    <3>1. r \in Held(p) <=> lock[r] = p
      BY DEF Inv, Isolation, HeldIsLocked
    <3>2. r \in Lockable => lock[r] # p
      BY RolloutAssumption DEF Lockable, Owners
    <3>3. QED
      BY <1>3, <2>1, <2>3, <3>1, <3>2
  <2>4. QED
    BY <2>2, <2>3
<1>8. rows' = rows
  BY DEF PassStart
<1>9. DraftIsOneMove'
  <2> SUFFICES ASSUME NEW p \in Owners, NEW r \in Rollouts, r \in Held(p)'
               PROVE  rows'[r].stage \in Active /\ OneMove(rows'[r], draft'[p][r])
    BY DEF DraftIsOneMove
  <2>1. CASE p = w
    <3>1. r \in Lockable
      BY <1>6, <2>1
    <3>2. draft'[p][r] = rows[r]
      BY <1>4, <2>1, <3>1
    <3>3. QED
      BY <1>5, <1>8, <3>1, <3>2 DEF Active, OneMove
  <2>2. CASE p # w
    <3>1. r \in Held(p) /\ draft'[p][r] = draft[p][r]
      BY <1>3, <2>2
    <3>2. QED
      BY <1>8, <3>1 DEF Inv, Isolation, DraftIsOneMove
  <2>3. QED
    BY <2>1, <2>2
<1>10. TodoIsFresh'
  <2> SUFFICES ASSUME NEW v \in Replicas, NEW r \in Rollouts, r \in todo'[v]
               PROVE  /\ r \in Held(v)'
                      /\ draft'[v][r] = rows'[r]
                      /\ rows'[r].stage = "running"
    BY DEF TodoIsFresh
  <2>1. CASE v = w
    <3>1. r \in Lockable
      BY <2>1 DEF PassStart, Inv, TypeOK
    <3>2. QED
      BY <1>4, <1>5, <1>6, <1>8, <2>1, <3>1
  <2>2. CASE v # w
    <3>1. r \in todo[v] /\ v \in Owners
      BY <2>2 DEF PassStart, Inv, TypeOK, Owners
    <3>2. QED
      BY <1>3, <1>8, <2>2, <3>1 DEF Inv, Isolation, TodoIsFresh
  <2>3. QED
    BY <2>1, <2>2
<1>11. QED
  BY <1>7, <1>8, <1>9, <1>10, RowsFrame DEF Inv, Isolation

\* The moves of RolloutLifecycle, field by field.
LEMMA EndMove ==
    ASSUME NEW old, NEW new, old.stage \in Active, new.app = old.app,
           \/ new.stage = "rolled_back" /\ new.traffic = 0
           \/ new.stage = "promoted" /\ new.traffic = MaxPct
    PROVE  OneMove(old, new)
<1>1. CASE new.stage = "rolled_back" /\ new.traffic = 0
  <2>1. Lifecycle!Rollback(Entry(old), Entry(new))
    BY <1>1 DEF Lifecycle!Rollback, Lifecycle!Ended, Lifecycle!Active, Active, Entry
  <2>2. QED
    BY <2>1 DEF OneMove, Lifecycle!Move
<1>2. CASE new.stage = "promoted" /\ new.traffic = MaxPct
  <2>1. Lifecycle!Promote(Entry(old), Entry(new))
    BY <1>2 DEF Lifecycle!Promote, Lifecycle!Ended, Lifecycle!Active, Active, Entry
  <2>2. QED
    BY <2>1 DEF OneMove, Lifecycle!Move
<1>3. QED
  BY <1>1, <1>2

LEMMA PauseMove ==
    ASSUME NEW old, NEW new, new.app = old.app, new.traffic = old.traffic,
           \/ old.stage = "running" /\ new.stage = "paused"
           \/ old.stage = "paused" /\ new.stage = "running"
    PROVE  OneMove(old, new)
<1>1. Lifecycle!Pause(Entry(old), Entry(new)) \/ Lifecycle!Resume(Entry(old), Entry(new))
  BY DEF Lifecycle!Pause, Lifecycle!Resume, Entry
<1>2. QED
  BY <1>1 DEF OneMove, Lifecycle!Move

LEMMA AdvanceMove ==
    ASSUME NEW old, NEW new, new.app = old.app, old.stage = "running",
           \/ /\ old.traffic + StepPct < MaxPct
              /\ new.stage = old.stage /\ new.traffic = old.traffic + StepPct
           \/ /\ old.traffic + StepPct >= MaxPct
              /\ new.stage = "promoted" /\ new.traffic = MaxPct
    PROVE  OneMove(old, new)
<1>1. Lifecycle!Advance(Entry(old), Entry(new))
  BY DEF Lifecycle!Advance, Lifecycle!Ended, Entry
<1>2. QED
  BY <1>1 DEF OneMove, Lifecycle!Move

LEMMA MoveKeeps ==
    ASSUME NEW old, NEW new, old.stage \in Active, OneMove(old, new)
    PROVE  new.app = old.app /\ new.stage # "none"
<1>1. /\ Entry(old).stage = old.stage /\ Entry(new).stage = new.stage
      /\ Entry(old).key = old.app /\ Entry(new).key = new.app
  BY DEF Entry
<1>2. CASE Entry(new) = Entry(old)
  BY <1>1, <1>2 DEF Active
<1>3. CASE Lifecycle!Move(Entry(old), Entry(new))
  BY <1>3, <1>1 DEF Entry, Active, Lifecycle!Move, Lifecycle!Advance, Lifecycle!Promote,
     Lifecycle!Rollback, Lifecycle!Pause, Lifecycle!Resume, Lifecycle!Ended
<1>4. QED
  BY <1>2, <1>3 DEF OneMove

\* A decision is one move of a row the pass holds.
LEMMA DecisionIsolated ==
    ASSUME Inv, NEW w \in Replicas, NEW r \in Rollouts, NEW new \in Row,
           r \in todo[w], OneMove(rows[r], new), new.stage # "none",
           draft' = [draft EXCEPT ![w][r] = new],
           todo' = [todo EXCEPT ![w] = @ \ {r}],
           UNCHANGED <<rows, lock>>
    PROVE  Isolation'
<1>1. w \in Owners
  BY DEF Owners
<1>2. r \in Held(w) /\ rows[r].stage \in Active
  BY DEF Inv, Isolation, TodoIsFresh, Active
<1>3. /\ draft'[w][r] = new
      /\ \A p \in Owners, q \in Rollouts :
           p # w \/ q # r => draft'[p][q] = draft[p][q]
  BY <1>1 DEF Inv, TypeOK
<1>4. new # NoRow
  BY DEF NoRow
<1>5. \A p \in Owners : Held(p)' = Held(p)
  <2> SUFFICES ASSUME NEW p \in Owners, NEW q \in Rollouts
               PROVE  q \in Held(p)' <=> q \in Held(p)
    BY DEF Held
  <2>1. CASE p = w /\ q = r
    BY <1>2, <1>3, <1>4, <2>1 DEF Held
  <2>2. CASE p # w \/ q # r
    BY <1>3, <2>2 DEF Held
  <2>3. QED
    BY <2>1, <2>2
<1>6. HeldIsLocked'
  BY <1>5 DEF Inv, Isolation, HeldIsLocked
<1>7. DraftIsOneMove'
  <2> SUFFICES ASSUME NEW p \in Owners, NEW q \in Rollouts, q \in Held(p)'
               PROVE  rows'[q].stage \in Active /\ OneMove(rows'[q], draft'[p][q])
    BY DEF DraftIsOneMove
  <2>1. CASE p = w /\ q = r
    BY <1>2, <1>3, <2>1
  <2>2. CASE p # w \/ q # r
    BY <1>3, <1>5, <2>2 DEF Inv, Isolation, DraftIsOneMove
  <2>3. QED
    BY <2>1, <2>2
<1>8. TodoIsFresh'
  <2> SUFFICES ASSUME NEW v \in Replicas, NEW q \in Rollouts, q \in todo'[v]
               PROVE  /\ q \in Held(v)'
                      /\ draft'[v][q] = rows'[q]
                      /\ rows'[q].stage = "running"
    BY DEF TodoIsFresh
  <2>1. q \in todo[v] /\ (v # w \/ q # r) /\ v \in Owners
    BY DEF Inv, TypeOK, Owners
  <2>2. QED
    BY <1>3, <1>5, <2>1 DEF Inv, Isolation, TodoIsFresh
<1>9. QED
  BY <1>6, <1>7, <1>8, RowsFrame DEF Inv, Isolation

\* Every decision of a pass is such a move.
LEMMA DecideIsolated ==
    ASSUME Inv, NEW w \in Replicas, NEW r \in Rollouts, Decide(w, r)
    PROVE  Isolation'
<1> DEFINE old == rows[r]
<1>1. w \in Owners /\ old \in Row /\ r \in todo[w]
  BY DEF Inv, TypeOK, Owners, Decide, DecideUnhealthy, DecideLater, DecideRollback,
     DecideAdvance
<1>2. draft[w][r] = old /\ old.stage = "running"
  BY <1>1 DEF Inv, Isolation, TodoIsFresh
<1>3. UNCHANGED <<rows, lock>> /\ todo' = [todo EXCEPT ![w] = @ \ {r}]
  BY DEF Decide, DecideUnhealthy, DecideLater, DecideRollback, DecideAdvance, Decided
<1>4. now \in 0..MaxTime /\ 0 \in 0..MaxPct /\ old.traffic \in 0..MaxPct
  BY <1>1, Bounds DEF Inv, TypeOK, Row
<1>5. old.evidence \cup Challengers(old) \in SUBSET Traces
  BY <1>1 DEF Row, Challengers, InWindow
<1>6. CASE DecideUnhealthy(w, r)
  <2> DEFINE new == [old EXCEPT !.stage = "rolled_back", !.traffic = 0, !.since = now]
  <2>1. new \in Row
    BY <1>1, <1>4, RowUpdate DEF Terminal
  <2>2. OneMove(old, new) /\ new.stage # "none"
    <3>1. new.stage = "rolled_back" /\ new.traffic = 0 /\ new.app = old.app
      BY <1>1 DEF Row
    <3> HIDE DEF new
    <3>2. QED
      BY <1>2, <3>1, EndMove DEF Active
  <2>3. draft' = [draft EXCEPT ![w][r] = new]
    BY <1>2, <1>6 DEF DecideUnhealthy
  <2> HIDE DEF new
  <2>4. QED
    BY <1>1, <1>3, <2>1, <2>2, <2>3, DecisionIsolated
<1>7. CASE DecideLater(w, r)
  <2>1. OneMove(old, old) /\ old.stage # "none"
    BY <1>2 DEF OneMove
  <2>2. draft' = [draft EXCEPT ![w][r] = old]
    BY <1>1, <1>2, <1>7 DEF DecideLater, Inv, TypeOK
  <2>3. QED
    BY <1>1, <1>3, <2>1, <2>2, DecisionIsolated
<1>8. CASE DecideRollback(w, r)
  <2> DEFINE new == [old EXCEPT !.stage = "rolled_back", !.traffic = 0, !.since = Until,
                                !.evidence = old.evidence \cup Challengers(old)]
  <2>0. Until \in 0..MaxTime
    BY <1>1, <1>2, <1>8, UntilType DEF DecideRollback, Inv
  <2>1. new \in Row
    BY <1>1, <1>4, <1>5, <2>0, RowUpdate DEF Terminal
  <2>2. OneMove(old, new) /\ new.stage # "none"
    <3>1. new.stage = "rolled_back" /\ new.traffic = 0 /\ new.app = old.app
      BY <1>1 DEF Row
    <3> HIDE DEF new
    <3>2. QED
      BY <1>2, <3>1, EndMove DEF Active
  <2>3. draft' = [draft EXCEPT ![w][r] = new]
    BY <1>2, <1>8 DEF DecideRollback
  <2> HIDE DEF new
  <2>4. QED
    BY <1>1, <1>3, <2>1, <2>2, <2>3, DecisionIsolated
<1>9. CASE DecideAdvance(w, r)
  <2> DEFINE next == NextTraffic(old.traffic, StepPct, MaxPct)
             stage == IF next.promoted THEN "promoted" ELSE old.stage
             new == [old EXCEPT !.stage = stage, !.traffic = next.traffic,
                                !.since = Until,
                                !.evidence = old.evidence \cup Challengers(old)]
  <2>0. Until \in 0..MaxTime
    BY <1>1, <1>2, <1>9, UntilType DEF DecideAdvance, Inv
  <2>1. new \in Row
    <3>1. stage \in Active \cup Terminal \cup {"none"}
      BY <1>2 DEF Active, Terminal
    <3>2. next.traffic \in 0..MaxPct
      BY <1>4, NextTrafficType
    <3> HIDE DEF stage, next
    <3>3. QED
      BY <1>1, <1>4, <1>5, <2>0, <3>1, <3>2, RowUpdate
  <2>2. OneMove(old, new) /\ new.stage # "none"
    <3>1. /\ new.stage = stage
          /\ new.traffic = next.traffic
          /\ new.app = old.app
      BY <1>1 DEF Row
    <3> HIDE DEF new
    <3>2. \/ /\ old.traffic + StepPct < MaxPct
             /\ next.traffic = old.traffic + StepPct /\ ~next.promoted
          \/ /\ old.traffic + StepPct >= MaxPct
             /\ next.traffic = MaxPct /\ next.promoted
      BY <1>4, NextTrafficStep
    <3>3. \/ ~next.promoted /\ stage = old.stage
          \/ next.promoted /\ stage = "promoted"
      OBVIOUS
    <3> HIDE DEF old, stage, next
    <3>4. QED
      BY <1>2, <3>1, <3>2, <3>3, AdvanceMove
  <2>3. draft' = [draft EXCEPT ![w][r] = new]
    BY <1>2, <1>9 DEF DecideAdvance
  <2> HIDE DEF new
  <2>4. QED
    BY <1>1, <1>3, <2>1, <2>2, <2>3, DecisionIsolated
<1>10. QED
  BY <1>6, <1>7, <1>8, <1>9 DEF Decide

\* The end of a transaction disturbs nobody else's.
LEMMA EndIsolated ==
    ASSUME Inv, NEW p \in Owners, Commit(p) \/ Abort(p),
           todo' \in [Replicas -> SUBSET Rollouts],
           \A v \in Replicas : todo'[v] = IF v = p THEN {} ELSE todo[v]
    PROVE  Isolation'
<1>1. /\ draft'[p] = [r \in Rollouts |-> NoRow]
      /\ \A o \in Owners \ {p} : draft'[o] = draft[o]
  BY DEF Inv, TypeOK, Commit, Abort, Close
<1>2. Held(p)' = {} /\ \A o \in Owners \ {p} : Held(o)' = Held(o)
  BY <1>1 DEF Held
<1>3. \A r \in Rollouts : lock'[r] = IF lock[r] = p THEN NoOne ELSE lock[r]
  BY DEF Commit, Abort, Close
<1>4. \A o \in Owners, r \in Rollouts : r \in Held(o) <=> lock[r] = o
  BY DEF Inv, Isolation, HeldIsLocked
<1>5. \A o \in Owners \ {p}, r \in Rollouts : r \in Held(o) => r \notin Held(p)
  BY <1>4
<1>6. HeldIsLocked'
  <2> SUFFICES ASSUME NEW o \in Owners, NEW r \in Rollouts
               PROVE  r \in Held(o)' <=> lock'[r] = o
    BY DEF HeldIsLocked
  <2>1. o # NoOne /\ p # NoOne
    BY RolloutAssumption DEF Owners
  <2>2. QED
    BY <1>2, <1>3, <1>4, <2>1
<1>7. \A r \in Rollouts : r \notin Held(p) => rows'[r] = rows[r]
  BY DEF Commit, Abort
<1>8. DraftIsOneMove'
  <2> SUFFICES ASSUME NEW o \in Owners, NEW r \in Rollouts, r \in Held(o)'
               PROVE  rows'[r].stage \in Active /\ OneMove(rows'[r], draft'[o][r])
    BY DEF DraftIsOneMove
  <2>1. o # p /\ r \in Held(o) /\ draft'[o][r] = draft[o][r]
    BY <1>1, <1>2
  <2>2. QED
    BY <1>5, <1>7, <2>1 DEF Inv, Isolation, DraftIsOneMove
<1>9. TodoIsFresh'
  <2> SUFFICES ASSUME NEW v \in Replicas, NEW r \in Rollouts, r \in todo'[v]
               PROVE  /\ r \in Held(v)'
                      /\ draft'[v][r] = rows'[r]
                      /\ rows'[r].stage = "running"
    BY DEF TodoIsFresh
  <2>1. v # p /\ v \in Owners /\ r \in todo[v]
    BY DEF Owners
  <2>2. r \in Held(v) /\ draft[v][r] = rows[r] /\ rows[r].stage = "running"
    BY <2>1 DEF Inv, Isolation, TodoIsFresh
  <2>3. QED
    BY <1>1, <1>2, <1>5, <1>7, <2>1, <2>2
<1>10. ASSUME NEW r \in Rollouts
       PROVE  /\ rows'[r].app = rows[r].app
              /\ rows'[r].stage = "none" <=> rows[r].stage = "none"
              /\ rows'[r] = NoRow <=> rows[r] = NoRow
              /\ rows'[r].stage \in Active => rows[r].stage \in Active
  <2>1. CASE rows'[r] = rows[r]
    BY <2>1
  <2>2. CASE rows'[r] # rows[r]
    <3>1. r \in Held(p) /\ rows'[r] = draft[p][r]
      BY <2>2 DEF Commit, Abort
    <3>2. rows[r].stage \in Active /\ OneMove(rows[r], draft[p][r])
      BY <3>1 DEF Inv, Isolation, DraftIsOneMove
    <3>3. draft[p][r].app = rows[r].app /\ draft[p][r].stage # "none"
      BY <3>2, MoveKeeps
    <3>4. QED
      BY <3>1, <3>2, <3>3 DEF Active, NoRow
  <2>3. QED
    BY <2>1, <2>2
<1>11. CreatedInOrder'
  <2> SUFFICES ASSUME NEW q \in Rollouts
               PROVE  /\ rows'[q].stage = "none" <=> rows'[q] = NoRow
                      /\ rows'[q] # NoRow => \A s \in 1..(q - 1) : rows'[s] # NoRow
    BY DEF CreatedInOrder, NoRow
  <2>1. \A s \in 1..(q - 1) : s \in Rollouts
    BY RolloutAssumption DEF Rollouts
  <2>2. QED
    BY <1>10, <2>1 DEF Inv, Isolation, CreatedInOrder
<1>12. ServedRollout'
  <2>1. \A a : OfApp(a)' = OfApp(a)
    BY <1>10 DEF OfApp
  <2>2. QED
    BY <1>10, <2>1 DEF Inv, Isolation, ServedRollout, IsLatest
<1>13. QED
  BY <1>6, <1>8, <1>9, <1>11, <1>12 DEF Isolation

\* An operator's write opens a transaction on one free row.
LEMMA WriteIsolated ==
    ASSUME Inv, NEW o \in Operators, NEW r \in Rollouts, NEW new \in Row,
           Write(o, r, new), rows[r].stage \in Active, OneMove(rows[r], new),
           new.stage # "none"
    PROVE  Isolation'
<1>1. o \in Owners /\ o # NoOne /\ o \notin Replicas
  BY RolloutAssumption DEF Owners
<1>2. \A q \in Rollouts : lock[q] # o /\ q \notin Held(o)
  BY <1>1 DEF Inv, Isolation, HeldIsLocked, Write, Idle
<1>3. /\ draft'[o][r] = new
      /\ \A p \in Owners, q \in Rollouts :
           p # o \/ q # r => draft'[p][q] = draft[p][q]
  BY <1>1 DEF Inv, TypeOK, Write
<1>4. new # NoRow
  BY DEF NoRow
<1>5. \A p \in Owners, q \in Rollouts :
        q \in Held(p)' <=> (q \in Held(p) \/ (p = o /\ q = r))
  BY <1>3, <1>4 DEF Held
<1>6. rows' = rows /\ todo' = todo
  BY DEF Write
<1>7. HeldIsLocked'
  <2> SUFFICES ASSUME NEW p \in Owners, NEW q \in Rollouts
               PROVE  q \in Held(p)' <=> lock'[q] = p
    BY DEF HeldIsLocked
  <2>1. lock'[q] = IF q = r THEN o ELSE lock[q]
    BY DEF Write, Inv, TypeOK
  <2>2. lock[r] = NoOne /\ p # NoOne
    BY RolloutAssumption DEF Write, Owners
  <2>3. q \in Held(p) <=> lock[q] = p
    BY DEF Inv, Isolation, HeldIsLocked
  <2>4. QED
    BY <1>2, <1>5, <2>1, <2>2, <2>3
<1>8. DraftIsOneMove'
  <2> SUFFICES ASSUME NEW p \in Owners, NEW q \in Rollouts, q \in Held(p)'
               PROVE  rows'[q].stage \in Active /\ OneMove(rows'[q], draft'[p][q])
    BY DEF DraftIsOneMove
  <2>1. CASE p = o /\ q = r
    BY <1>3, <1>6, <2>1
  <2>2. CASE p # o \/ q # r
    BY <1>3, <1>5, <1>6, <2>2 DEF Inv, Isolation, DraftIsOneMove
  <2>3. QED
    BY <2>1, <2>2
<1>9. TodoIsFresh'
  <2> SUFFICES ASSUME NEW v \in Replicas, NEW q \in Rollouts, q \in todo'[v]
               PROVE  /\ q \in Held(v)'
                      /\ draft'[v][q] = rows'[q]
                      /\ rows'[q].stage = "running"
    BY DEF TodoIsFresh
  <2>1. v \in Owners /\ v # o /\ q \in todo[v]
    BY <1>1, <1>6 DEF Owners
  <2>2. QED
    BY <1>3, <1>5, <1>6, <2>1 DEF Inv, Isolation, TodoIsFresh
<1>10. QED
  BY <1>6, <1>7, <1>8, <1>9, RowsFrame DEF Inv, Isolation

\* Every endpoint writes such a move.
LEMMA OperatorIsolated ==
    ASSUME Inv, NEW o \in Operators, NEW r \in Rollouts,
           Pause(o, r) \/ Resume(o, r) \/ Promote(o, r) \/ Rollback(o, r)
    PROVE  Isolation'
<1> DEFINE old == rows[r]
<1>1. old \in Row /\ now \in 0..MaxTime /\ 0 \in 0..MaxPct /\ MaxPct \in 0..MaxPct
  BY Bounds DEF Inv, TypeOK
<1>2. old.stage \in Active
  BY DEF Pause, Resume, Promote, Rollback, Active
<1>3. PICK new \in Row : Write(o, r, new) /\ OneMove(old, new) /\ new.stage # "none"
  <2>1. CASE Pause(o, r)
    <3> DEFINE new == [old EXCEPT !.stage = "paused"]
    <3>1. new \in Row
      BY <1>1, RowUpdate DEF Active
    <3>2. new.stage = "paused" /\ new.app = old.app /\ new.traffic = old.traffic
      BY <1>1 DEF Row
    <3>3. Write(o, r, new) /\ old.stage = "running"
      BY <2>1 DEF Pause
    <3> HIDE DEF new, old
    <3>4. QED
      BY <3>1, <3>2, <3>3, PauseMove
  <2>2. CASE Resume(o, r)
    <3> DEFINE new == [old EXCEPT !.stage = "running"]
    <3>1. new \in Row
      BY <1>1, RowUpdate DEF Active
    <3>2. new.stage = "running" /\ new.app = old.app /\ new.traffic = old.traffic
      BY <1>1 DEF Row
    <3>3. Write(o, r, new) /\ old.stage = "paused"
      BY <2>2 DEF Resume
    <3> HIDE DEF new, old
    <3>4. QED
      BY <3>1, <3>2, <3>3, PauseMove
  <2>3. CASE Promote(o, r)
    <3> DEFINE new == [old EXCEPT !.stage = "promoted", !.traffic = MaxPct, !.since = now]
    <3>1. new \in Row
      BY <1>1, RowUpdate DEF Terminal
    <3>2. new.stage = "promoted" /\ new.app = old.app /\ new.traffic = MaxPct
      BY <1>1 DEF Row
    <3>3. Write(o, r, new)
      BY <2>3 DEF Promote
    <3> HIDE DEF new, old
    <3>4. QED
      BY <1>2, <3>1, <3>2, <3>3, EndMove
  <2>4. CASE Rollback(o, r)
    <3> DEFINE new == [old EXCEPT !.stage = "rolled_back", !.traffic = 0, !.since = now]
    <3>1. new \in Row
      BY <1>1, RowUpdate DEF Terminal
    <3>2. new.stage = "rolled_back" /\ new.app = old.app /\ new.traffic = 0
      BY <1>1 DEF Row
    <3>3. Write(o, r, new)
      BY <2>4 DEF Rollback
    <3> HIDE DEF new, old
    <3>4. QED
      BY <1>2, <3>1, <3>2, <3>3, EndMove
  <2>5. QED
    BY <2>1, <2>2, <2>3, <2>4
<1>4. QED
  BY <1>2, <1>3, WriteIsolated

\* The partial unique index admits a rollout only as its application's one
\* active rollout, and it is created last.
LEMMA CreateIsolated ==
    ASSUME Inv, NEW o \in Operators, NEW r \in Rollouts, CreateInsert(o, r)
    PROVE  Isolation'
<1> DEFINE a == creating[o]
<1>0. PICK pct \in InitialPcts :
        rows' = [rows EXCEPT ![r] =
                   [ stage |-> "running", app |-> a, traffic |-> pct,
                     created |-> now, since |-> now, initial |-> pct,
                     evidence |-> {} ]]
  BY DEF CreateInsert
<1> DEFINE row == [ stage |-> "running", app |-> a, traffic |-> pct, created |-> now,
                    since |-> now, initial |-> pct, evidence |-> {} ]
<1>1. rows' = [rows EXCEPT ![r] = row] /\ row.stage = "running" /\ row.app = a
  BY <1>0
<1> HIDE DEF row
<1>2. /\ rows[r] = NoRow /\ rows[r].stage = "none"
      /\ rows'[r] = row
      /\ \A q \in Rollouts : q # r => rows'[q] = rows[q]
  BY <1>1 DEF CreateInsert, Inv, TypeOK, NoRow
<1>3. draft' = draft /\ lock' = lock /\ todo' = todo
  BY DEF CreateInsert
<1>4. \A p \in Owners, q \in Rollouts : q \in Held(p) => q # r
  BY <1>2 DEF Inv, Isolation, DraftIsOneMove, Active
<1>5. HeldIsLocked'
  BY <1>3 DEF Inv, Isolation, HeldIsLocked, Held
<1>6. DraftIsOneMove'
  <2> SUFFICES ASSUME NEW p \in Owners, NEW q \in Rollouts, q \in Held(p)'
               PROVE  rows'[q].stage \in Active /\ OneMove(rows'[q], draft'[p][q])
    BY DEF DraftIsOneMove
  <2>1. q \in Held(p)
    BY <1>3 DEF Held
  <2>2. QED
    BY <1>2, <1>3, <1>4, <2>1 DEF Inv, Isolation, DraftIsOneMove
<1>7. TodoIsFresh'
  <2> SUFFICES ASSUME NEW v \in Replicas, NEW q \in Rollouts, q \in todo'[v]
               PROVE  /\ q \in Held(v)'
                      /\ draft'[v][q] = rows'[q]
                      /\ rows'[q].stage = "running"
    BY DEF TodoIsFresh
  <2>1. v \in Owners /\ q \in Held(v) /\ q \in Held(v)'
    BY <1>3 DEF Inv, Isolation, TodoIsFresh, Owners, Held
  <2>2. QED
    BY <1>2, <1>3, <1>4, <2>1 DEF Inv, Isolation, TodoIsFresh
<1>8. row # NoRow
  BY <1>1 DEF NoRow
<1>9. \A q \in Rollouts : rows[q] # NoRow => q < r
  <2> SUFFICES ASSUME NEW q \in Rollouts, rows[q] # NoRow, ~(q < r) PROVE FALSE
    OBVIOUS
  <2>1. q # r /\ r \in 1..(q - 1)
    BY <1>2, RolloutAssumption DEF Rollouts
  <2>2. QED
    BY <1>2, <2>1 DEF Inv, Isolation, CreatedInOrder
<1>10. CreatedInOrder'
  <2> SUFFICES ASSUME NEW q \in Rollouts
               PROVE  /\ rows'[q].stage = "none" <=> rows'[q] = NoRow
                      /\ rows'[q] # NoRow => \A s \in 1..(q - 1) : rows'[s] # NoRow
    BY DEF CreatedInOrder, NoRow
  <2>1. \A s \in 1..(q - 1) : s \in Rollouts
    BY RolloutAssumption DEF Rollouts
  <2>2. CASE q = r
    <3>1. \A s \in 1..(r - 1) : rows[s] # NoRow /\ s # r
      BY RolloutAssumption DEF CreateInsert, Rollouts
    <3>2. QED
      BY <1>1, <1>2, <1>8, <2>1, <2>2, <3>1
  <2>3. CASE q # r
    BY <1>2, <1>8, <2>1, <2>3 DEF Inv, Isolation, CreatedInOrder
  <2>4. QED
    BY <2>2, <2>3
<1>11. ServedRollout'
  <2> SUFFICES ASSUME NEW q \in Rollouts, rows'[q].stage \in Active,
                      NEW s \in Rollouts, rows'[s].stage # "none",
                      rows'[s].app = rows'[q].app
               PROVE  s <= q
    BY DEF ServedRollout, IsLatest, OfApp, Active
  <2>1. q \in Int /\ s \in Int /\ r \in Int
    BY RolloutAssumption DEF Rollouts
  <2>2. CASE s = q
    BY <2>1, <2>2
  <2>3. CASE s # q /\ q = r
    <3>1. rows[s] # NoRow
      BY <1>2, <2>3 DEF NoRow
    <3>2. QED
      BY <1>9, <2>1, <2>3, <3>1
  <2>4. CASE s # q /\ q # r
    <3>1. rows[q].stage \in Active /\ rows'[q].app = rows[q].app
      BY <1>2, <2>4
    <3>2. rows[q].app # a
      BY <3>1 DEF CreateInsert, IndexAdmits, ActiveFor
    <3>3. s # r
      BY <1>1, <1>2, <3>1, <3>2
    <3>4. s \in OfApp(rows[q].app)
      BY <1>2, <3>1, <3>3 DEF OfApp
    <3>5. QED
      BY <3>1, <3>4 DEF Inv, Isolation, ServedRollout, IsLatest
  <2>5. QED
    BY <2>2, <2>3, <2>4
<1>12. QED
  BY <1>5, <1>6, <1>7, <1>10, <1>11 DEF Isolation

\* Isolation is an invariant: whatever replicas, operators, crashes and lost
\* advisory locks interleave, nobody decides on a row somebody else has changed
\* (worker/tasks/rollout.py:85-99, api/routers/rollouts.py:76-85).
THEOREM Isolated == Spec => []Isolation
<1>1. Init => Isolation
  <2> SUFFICES ASSUME Init PROVE Isolation
    OBVIOUS
  <2>1. \A p \in Owners : Held(p) = {}
    BY DEF Init, Held
  <2>2. \A p \in Owners, r \in Rollouts : lock[r] # p
    BY RolloutAssumption DEF Init, Owners
  <2>3. HeldIsLocked /\ DraftIsOneMove
    BY <2>1, <2>2 DEF HeldIsLocked, DraftIsOneMove
  <2>4. TodoIsFresh
    BY DEF Init, TodoIsFresh
  <2>5. \A r \in Rollouts : rows[r] = NoRow /\ rows[r].stage = "none"
    BY DEF Init, NoRow
  <2>6. CreatedInOrder
    BY <2>5, RolloutAssumption DEF CreatedInOrder, Rollouts
  <2>7. ServedRollout
    BY <2>5 DEF ServedRollout, Active
  <2>8. QED
    BY <2>3, <2>4, <2>6, <2>7 DEF Isolation
<1>2. Inv /\ [Next]_vars => Isolation'
  <2>1. CASE UNCHANGED vars
    BY <2>1, IsolationFrame DEF vars, Inv
  <2> SUFFICES ASSUME Inv, Next PROVE Isolation'
    BY <2>1, IsolationFrame DEF vars, Inv
  <2>2. ASSUME NEW w \in Replicas, Pass(w) PROVE Isolation'
    <3>1. CASE PassStart(w)
      BY <3>1, PassStartIsolated
    <3>2. ASSUME NEW r \in Rollouts, Decide(w, r) PROVE Isolation'
      BY <3>2, DecideIsolated
    <3>3. CASE PassCommit(w)
      <4>1. w \in Owners /\ Commit(w) /\ todo' = todo /\ todo[w] = {}
        BY <3>3 DEF PassCommit, Owners
      <4>2. QED
        BY <4>1, EndIsolated DEF Inv, TypeOK
    <3>4. CASE PassFail(w)
      <4>1. w \in Owners /\ Abort(w) /\ todo' = [todo EXCEPT ![w] = {}]
        BY <3>4 DEF PassFail, Owners
      <4>2. /\ todo' \in [Replicas -> SUBSET Rollouts]
            /\ \A v \in Replicas : todo'[v] = IF v = w THEN {} ELSE todo[v]
        BY <4>1 DEF Inv, TypeOK
      <4>3. QED
        BY <4>1, <4>2, EndIsolated
    <3>5. CASE LeaderLost(w)
      BY <3>5, IsolationFrame DEF LeaderLost, tableVars, Inv
    <3>6. QED
      BY <2>2, <3>1, <3>2, <3>3, <3>4, <3>5 DEF Pass
  <2>3. ASSUME NEW o \in Operators, Operator(o) PROVE Isolation'
    <3>1. ASSUME NEW r \in Rollouts,
                 Pause(o, r) \/ Resume(o, r) \/ Promote(o, r) \/ Rollback(o, r)
          PROVE  Isolation'
      BY <3>1, OperatorIsolated
    <3>2. CASE OperatorCommit(o) \/ OperatorFail(o)
      <4>1. o \in Owners /\ (Commit(o) \/ Abort(o)) /\ todo' = todo /\ o \notin Replicas
        BY <3>2, RolloutAssumption DEF OperatorCommit, OperatorFail, Owners
      <4>2. QED
        BY <4>1, EndIsolated DEF Inv, TypeOK
    <3>3. ASSUME NEW a \in Apps, CreateCheck(o, a) PROVE Isolation'
      BY <3>3, IsolationFrame DEF CreateCheck, tableVars, Inv
    <3>4. ASSUME NEW r \in Rollouts, CreateInsert(o, r) PROVE Isolation'
      BY <3>4, CreateIsolated
    <3>5. CASE CreateConflict(o)
      BY <3>5, IsolationFrame DEF CreateConflict, tableVars, Inv
    <3>6. QED
      BY <2>3, <3>1, <3>2, <3>3, <3>4, <3>5 DEF Operator
  <2>4. CASE Traffic
    <3>1. UNCHANGED <<rows, draft, lock, todo>>
      BY <2>4 DEF Traffic, Serve, CommitTrace, Score, Flag, tableVars
    <3>2. QED
      BY <3>1, IsolationFrame DEF Inv
  <2>5. CASE Tick
    BY <2>5, IsolationFrame DEF Tick, tableVars, Inv
  <2>6. QED
    BY <2>2, <2>3, <2>4, <2>5 DEF Next
<1>3. QED
  BY <1>1, <1>2, TypeCorrect, PTL DEF Spec, Inv

\* ServedRollout is an invariant: the active rollout is always the one that
\* routes its application's traffic (services/rollouts.py:31-43).
THEOREM Served == Spec => []ServedRollout
<1>1. Isolation => ServedRollout
  BY DEF Isolation
<1>2. QED
  BY <1>1, Isolated, PTL

------------------------------------------------------------------------------
(* Refinement: the committed table is a RolloutLifecycle *)

\* A commit moves each of its rows by one move of the lifecycle.
LEMMA CommitMoves ==
    ASSUME Inv, NEW p \in Owners, Commit(p)
    PROVE  Lifecycle!MoveSome
<1>1. Lifecycle!Rollouts = Rollouts
  BY DEF Lifecycle!Rollouts, Rollouts
<1>2. /\ Table' = [r \in Rollouts |-> Entry(rows'[r])]
      /\ \A r \in Rollouts : Table[r] = Entry(rows[r]) /\ Table'[r] = Entry(rows'[r])
  BY DEF Table
<1>3. Table' = [r \in Rollouts |-> Table'[r]]
  BY <1>2
<1>4. ASSUME NEW r \in Rollouts
      PROVE  Table'[r] = Table[r] \/ Lifecycle!Move(Table[r], Table'[r])
  <2>1. CASE r \in Held(p)
    <3>1. rows'[r] = draft[p][r]
      BY <2>1 DEF Commit
    <3>2. OneMove(rows[r], rows'[r])
      BY <2>1, <3>1 DEF Inv, Isolation, DraftIsOneMove
    <3>3. QED
      BY <1>2, <3>2 DEF OneMove
  <2>2. CASE r \notin Held(p)
    BY <1>2, <2>2 DEF Commit
  <2>3. QED
    BY <2>1, <2>2
<1>5. QED
  BY <1>1, <1>3, <1>4 DEF Lifecycle!MoveSome

LEMMA InsertCreates ==
    ASSUME Inv, NEW o \in Operators, NEW r \in Rollouts, CreateInsert(o, r)
    PROVE  \E k \in Apps : Lifecycle!Create(r, k)
<1> DEFINE a == creating[o]
<1>1. Lifecycle!Rollouts = Rollouts /\ Lifecycle!Active = Active
  BY DEF Lifecycle!Rollouts, Rollouts, Lifecycle!Active, Active
<1>2. a \in Apps
  BY DEF CreateInsert, Inv, TypeOK
<1>3. \A q \in Rollouts : /\ Table[q].stage = rows[q].stage
                          /\ Table[q].key = rows[q].app
                          /\ Table[q].stage = "none" <=> rows[q] = NoRow
  BY DEF Table, Entry, Inv, Isolation, CreatedInOrder
<1>4. Lifecycle!None(r)
  BY <1>3 DEF CreateInsert, Lifecycle!None
<1>5. \A q \in 1..(r - 1) : ~Lifecycle!None(q)
  <2>1. \A q \in 1..(r - 1) : q \in Rollouts /\ rows[q] # NoRow
    BY RolloutAssumption DEF CreateInsert, Rollouts
  <2>2. QED
    BY <1>3, <2>1 DEF Lifecycle!None
<1>6. Lifecycle!ActiveFor(a) = {}
  BY <1>1, <1>3 DEF CreateInsert, IndexAdmits, ActiveFor, Lifecycle!ActiveFor
<1>7. PICK pct \in InitialPcts :
        rows' = [rows EXCEPT ![r] =
                   [ stage |-> "running", app |-> a, traffic |-> pct,
                     created |-> now, since |-> now, initial |-> pct,
                     evidence |-> {} ]]
  BY DEF CreateInsert
<1> DEFINE row == [ stage |-> "running", app |-> a, traffic |-> pct, created |-> now,
                    since |-> now, initial |-> pct, evidence |-> {} ]
           entry == [ stage |-> "running", key |-> a, traffic |-> pct ]
<1>8. Entry(row) = entry
  BY DEF Entry
<1>9. Table' = [Table EXCEPT ![r] = entry]
  <2>1. rows' = [rows EXCEPT ![r] = row]
    BY <1>7
  <2> HIDE DEF row, entry
  <2>2. \A q \in Rollouts : Entry(rows'[q]) = IF q = r THEN entry ELSE Entry(rows[q])
    BY <1>8, <2>1 DEF Inv, TypeOK
  <2>3. Table' = [q \in Rollouts |-> Entry(rows'[q])]
    BY DEF Table
  <2>4. QED
    BY <2>2, <2>3 DEF Table
<1>10. QED
  BY <1>2, <1>4, <1>5, <1>6, <1>9 DEF Lifecycle!Create

\* ModelRollout implements RolloutLifecycle: no committed decision is ever lost
\* and no terminal rollout ever moves again (worker/tasks/rollout.py:85-89).
THEOREM Implements == Spec => LifecycleSpec
<1>1. Init => Lifecycle!Init
  <2> SUFFICES ASSUME Init, NEW r \in Rollouts PROVE Table[r].stage = "none"
    BY DEF Lifecycle!Init, Lifecycle!None, Lifecycle!Rollouts, Rollouts
  <2>1. Table[r] = Entry(rows[r]) /\ rows[r] = NoRow
    BY DEF Table, Init
  <2>2. QED
    BY <2>1 DEF Entry, NoRow
<1>2. Inv /\ [Next]_vars => [Lifecycle!Next]_Table
  <2>1. ASSUME UNCHANGED rows PROVE UNCHANGED Table
    BY <2>1 DEF Table
  <2>2. CASE UNCHANGED vars
    BY <2>1, <2>2 DEF vars, tableVars
  <2> SUFFICES ASSUME Inv, Next, ~UNCHANGED rows PROVE Lifecycle!Next
    BY <2>1, <2>2
  <2>3. ASSUME NEW w \in Replicas, Pass(w) PROVE Lifecycle!Next
    <3>1. PassCommit(w)
      BY <2>3 DEF Pass, PassStart, Decide, DecideUnhealthy, DecideLater, DecideRollback,
         DecideAdvance, Decided, PassFail, Abort, LeaderLost, tableVars
    <3>2. QED
      BY <3>1, CommitMoves DEF PassCommit, Lifecycle!Next, Owners
  <2>4. ASSUME NEW o \in Operators, Operator(o) PROVE Lifecycle!Next
    <3>1. OperatorCommit(o) \/ \E r \in Rollouts : CreateInsert(o, r)
      BY <2>4 DEF Operator, Pause, Resume, Promote, Rollback, Write, OperatorFail, Abort,
         CreateCheck, CreateConflict, tableVars
    <3>2. CASE OperatorCommit(o)
      BY <3>2, CommitMoves DEF OperatorCommit, Lifecycle!Next, Owners
    <3>3. ASSUME NEW r \in Rollouts, CreateInsert(o, r) PROVE Lifecycle!Next
      BY <3>3, InsertCreates DEF Lifecycle!Next, Lifecycle!Rollouts, Rollouts
    <3>4. QED
      BY <3>1, <3>2, <3>3
  <2>5. CASE Traffic
    BY <2>5 DEF Traffic, Serve, CommitTrace, Score, Flag, tableVars
  <2>6. CASE Tick
    BY <2>6 DEF Tick, tableVars
  <2>7. QED
    BY <2>3, <2>4, <2>5, <2>6 DEF Next
<1>3. QED
  BY <1>1, <1>2, TypeCorrect, Isolated, PTL DEF Spec, Inv, LifecycleSpec, Lifecycle!Spec

------------------------------------------------------------------------------
(* The evidence: what a version of a row says of the traces it counted *)

\* The traces counted so far are committed, and none is after the cursor: the
\* next window counts none of them again.
Settled(row) ==
    \A t \in row.evidence : traces[t].state = "committed" /\ traces[t].at <= row.since

Backed(row) ==
    row.traffic <= row.initial
      + StepPct * (Cardinality(row.evidence) \div Guard.minSampleSize)

\* The cursor stays _EVALUATION_GRACE behind the clock once it has moved.
Paced(row) == row.since = row.created \/ row.since <= Until

Complete(row) ==
    \A t \in Traces :
        /\ traces[t].state = "committed"
        /\ traces[t].app = row.app
        /\ traces[t].arm = "challenger"
        /\ traces[t].at > row.created
        /\ traces[t].at <= row.since
        => t \in row.evidence

Sound(row) ==
    row.stage \in Active =>
        /\ Settled(row)
        /\ Backed(row)
        /\ CommitLag < Grace => Paced(row) /\ Complete(row)

\* A trace commits at most CommitLag after its stamp (ModelRollout's Tick).
FlushedIsRecent ==
    \A t \in Traces : traces[t].state = "flushed" => now <= traces[t].at + CommitLag

Evidence ==
    /\ FlushedIsRecent
    /\ \A r \in Rollouts : Sound(rows[r])
    /\ \A p \in Owners, r \in Rollouts : Sound(draft[p][r])

EvidenceInv == TypeOK /\ Evidence

\* minSampleSize more traces are one step more.
LEMMA SampleStep ==
    ASSUME NEW a \in Nat, NEW b \in Nat, NEW m \in Nat \ {0}, b >= m
    PROVE  (a + b) \div m \in Nat /\ a \div m \in Nat /\ (a + b) \div m >= a \div m + 1
<1>1. /\ a \div m \in Nat /\ a = m * (a \div m) + (a % m) /\ a % m \in 0..(m - 1)
  OBVIOUS
<1>2. /\ (a + b) \div m \in Nat /\ (a + b) % m \in 0..(m - 1)
      /\ a + b = m * ((a + b) \div m) + ((a + b) % m)
  OBVIOUS
<1>3. SUFFICES ASSUME NEW k \in Nat, k = a \div m, NEW n \in Nat, n = (a + b) \div m
               PROVE  n >= k + 1
  BY <1>1, <1>2
<1>4. m * n > m * k
  BY <1>1, <1>2, <1>3
<1>5. QED
  BY <1>4

LEMMA MoreSteps ==
    ASSUME NEW s \in Nat, NEW j \in Nat, NEW k \in Nat, j >= k + 1
    PROVE  s * j >= s * k + s
<1>1. s * (k + 1) = s * k + s
  OBVIOUS
<1>2. s * j >= s * (k + 1)
  OBVIOUS
<1>3. QED
  BY <1>1, <1>2

LEMMA Sampling == Guard.minSampleSize \in Nat \ {0}
BY RolloutAssumption DEF Guards

\* A window of min_sample_size new requests backs one step of traffic, and the
\* cursor passes exactly the traces it has counted.
LEMMA AdvanceSound ==
    ASSUME TypeOK, NEW row \in Row, Sound(row), EnoughEvidence(row),
           NEW stage, NEW traffic \in Nat,
           stage \in Active => row.stage \in Active /\ traffic <= row.traffic + StepPct
    PROVE  Sound([row EXCEPT !.stage = stage, !.traffic = traffic, !.since = Until,
                             !.evidence = row.evidence \cup Challengers(row)])
<1> DEFINE seen == Challengers(row)
           all == row.evidence \cup seen
           new == [row EXCEPT !.stage = stage, !.traffic = traffic, !.since = Until,
                              !.evidence = all]
<1>1. /\ new.stage = stage /\ new.traffic = traffic /\ new.since = Until
      /\ new.evidence = all /\ new.app = row.app /\ new.created = row.created
      /\ new.initial = row.initial
  BY DEF Row
<1> HIDE DEF new
<1> SUFFICES ASSUME stage \in Active
             PROVE  /\ Settled(new) /\ Backed(new)
                    /\ CommitLag < Grace => Paced(new) /\ Complete(new)
  BY <1>1 DEF Sound, new
<1>2. Settled(row) /\ Backed(row) /\ (CommitLag < Grace => Complete(row))
  BY DEF Sound
<1>3. /\ row.since \in Nat /\ row.traffic \in Nat /\ row.initial \in Nat
      /\ row.evidence \subseteq Traces /\ Until \in Int /\ Until > row.since
      /\ \A t \in Traces : traces[t].at \in Nat
  BY Bounds DEF Row, EnoughEvidence, Until, TypeOK, Trace
<1>4. /\ seen \subseteq Traces
      /\ \A t \in Traces : t \in seen <=> /\ traces[t].state = "committed"
                                          /\ traces[t].app = row.app
                                          /\ traces[t].arm = "challenger"
                                          /\ traces[t].at > row.since
                                          /\ traces[t].at <= Until
  BY DEF Challengers, InWindow
<1>5. Cardinality(seen) >= Guard.minSampleSize
  BY DEF EnoughEvidence
<1> HIDE DEF seen
<1>6. Settled(new)
  BY <1>1, <1>2, <1>3, <1>4 DEF Settled
<1>7. Backed(new)
  <2>1. row.evidence \cap seen = {}
    BY <1>2, <1>3, <1>4 DEF Settled
  <2>2. IsFiniteSet(row.evidence) /\ IsFiniteSet(seen)
    BY <1>3, <1>4, FS_Subset, RolloutAssumption
  <2>3. Cardinality(all) = Cardinality(row.evidence) + Cardinality(seen)
    <3>1. Cardinality(all) = Cardinality(row.evidence) + Cardinality(seen) - Cardinality({})
      BY <2>1, <2>2, FS_Union
    <3>2. Cardinality(row.evidence) \in Nat /\ Cardinality(seen) \in Nat
      BY <2>2, FS_CardinalityType
    <3>3. QED
      BY <3>1, <3>2, FS_EmptySet
  <2>4. SUFFICES ASSUME NEW a \in Nat, a = Cardinality(row.evidence),
                        NEW b \in Nat, b = Cardinality(seen)
                 PROVE  Backed(new)
    BY <2>2, FS_CardinalityType
  <2>5. SUFFICES ASSUME NEW m \in Nat \ {0}, m = Guard.minSampleSize
                 PROVE  Backed(new)
    BY Sampling
  <2>6. SUFFICES ASSUME NEW k \in Nat, k = a \div m, NEW j \in Nat, j = (a + b) \div m
                 PROVE  traffic <= row.initial + StepPct * j
    BY <1>1, <1>5, <2>3, <2>4, <2>5, SampleStep DEF Backed
  <2>7. j >= k + 1
    BY <1>5, <2>4, <2>5, <2>6, SampleStep
  <2>8. row.traffic <= row.initial + StepPct * k
    BY <1>2, <2>4, <2>5, <2>6 DEF Backed
  <2>9. StepPct \in Nat
    BY Bounds
  <2>10. StepPct * j >= StepPct * k + StepPct /\ StepPct * j \in Nat /\ StepPct * k \in Nat
    BY <2>7, <2>9, MoreSteps
  <2>11. QED
    BY <1>3, <2>8, <2>9, <2>10
<1>8. Paced(new)
  BY <1>1, <1>3 DEF Paced
<1>9. ASSUME CommitLag < Grace PROVE Complete(new)
  BY <1>1, <1>2, <1>3, <1>4, <1>9 DEF Complete
<1>10. QED
  BY <1>6, <1>7, <1>8, <1>9

\* An ended rollout has nothing left to be sound about.
LEMMA EndSound ==
    ASSUME NEW row \in Row, NEW stage \in Terminal, NEW traffic, NEW since, NEW evidence
    PROVE  /\ Sound([row EXCEPT !.stage = stage, !.traffic = traffic, !.since = since])
           /\ Sound([row EXCEPT !.stage = stage, !.traffic = traffic, !.since = since,
                                !.evidence = evidence])
BY DEF Sound, Row, Terminal, Active

LEMMA SwitchSound ==
    ASSUME NEW row \in Row, row.stage \in Active, Sound(row), NEW stage \in Active
    PROVE  Sound([row EXCEPT !.stage = stage])
<1> DEFINE new == [row EXCEPT !.stage = stage]
<1>1. /\ new.traffic = row.traffic /\ new.since = row.since /\ new.evidence = row.evidence
      /\ new.app = row.app /\ new.created = row.created /\ new.initial = row.initial
  BY DEF Row
<1> HIDE DEF new
<1>2. Settled(row) /\ Backed(row) /\ (CommitLag < Grace => Paced(row) /\ Complete(row))
  BY DEF Sound
<1>3. Settled(new) /\ Backed(new)
  BY <1>1, <1>2 DEF Settled, Backed
<1>4. CommitLag < Grace => Paced(new) /\ Complete(new)
  BY <1>1, <1>2 DEF Paced, Complete
<1>5. QED
  BY <1>3, <1>4 DEF Sound, new

LEMMA NoRowSound == Sound(NoRow)
BY DEF Sound, NoRow, Active

LEMMA NewSound ==
    ASSUME TypeOK, NEW app, NEW pct \in 0..MaxPct
    PROVE  Sound([ stage |-> "running", app |-> app, traffic |-> pct, created |-> now,
                   since |-> now, initial |-> pct, evidence |-> {} ])
<1> DEFINE new == [ stage |-> "running", app |-> app, traffic |-> pct, created |-> now,
                    since |-> now, initial |-> pct, evidence |-> {} ]
<1>1. /\ new.traffic = pct /\ new.initial = pct /\ new.evidence = {}
      /\ new.since = now /\ new.created = now
  OBVIOUS
<1> HIDE DEF new
<1>2. Settled(new)
  BY <1>1 DEF Settled
<1>3. Backed(new)
  <2>1. Cardinality(new.evidence) = 0
    BY <1>1, FS_EmptySet
  <2>2. SUFFICES ASSUME NEW m \in Nat \ {0}, m = Guard.minSampleSize PROVE Backed(new)
    BY Sampling
  <2>3. 0 \div m = 0
    OBVIOUS
  <2>4. StepPct * 0 = 0 /\ pct <= pct + 0
    BY Bounds
  <2>5. QED
    BY <1>1, <2>1, <2>2, <2>3, <2>4 DEF Backed
<1>4. Paced(new)
  BY <1>1 DEF Paced
<1>5. Complete(new)
  <2>1. now \in Int /\ \A t \in Traces : traces[t].at \in Int
    BY Bounds DEF TypeOK, Trace
  <2>2. QED
    BY <1>1, <2>1 DEF Complete
<1>6. QED
  BY <1>2, <1>3, <1>4, <1>5 DEF Sound, new

\* Whatever a decision writes is sound on the evidence it was taken on.
LEMMA DecideSound ==
    ASSUME EvidenceInv, NEW w \in Replicas, NEW r \in Rollouts, Decide(w, r)
    PROVE  \A p \in Owners, q \in Rollouts : Sound(draft'[p][q])
<1> DEFINE row == draft[w][r]
<1>1. w \in Owners /\ row \in Row /\ Sound(row)
  BY DEF Owners, EvidenceInv, Evidence, TypeOK
<1>2. SUFFICES ASSUME NEW new, Sound(new), draft' = [draft EXCEPT ![w][r] = new]
               PROVE  \A p \in Owners, q \in Rollouts : Sound(draft'[p][q])
  <2>1. CASE DecideUnhealthy(w, r)
    <3>1. Sound([row EXCEPT !.stage = "rolled_back", !.traffic = 0, !.since = now])
      BY <1>1, EndSound DEF Terminal
    <3>2. QED
      BY <1>2, <2>1, <3>1 DEF DecideUnhealthy
  <2>2. CASE DecideLater(w, r)
    BY <2>2 DEF DecideLater, EvidenceInv, Evidence
  <2>3. CASE DecideRollback(w, r)
    <3>1. Sound([row EXCEPT !.stage = "rolled_back", !.traffic = 0, !.since = Until,
                            !.evidence = row.evidence \cup Challengers(row)])
      BY <1>1, EndSound DEF Terminal
    <3>2. QED
      BY <1>2, <2>3, <3>1 DEF DecideRollback
  <2>4. CASE DecideAdvance(w, r)
    <3> DEFINE next == NextTraffic(row.traffic, StepPct, MaxPct)
               stage == IF next.promoted THEN "promoted" ELSE row.stage
    <3>1. row.traffic \in 0..MaxPct
      BY <1>1 DEF Row
    <3>2. next.traffic \in Nat /\ next.traffic <= row.traffic + StepPct
      <4>1. next.traffic \in 0..MaxPct
        BY <3>1, NextTrafficType
      <4>2. \/ next.traffic = row.traffic + StepPct
            \/ row.traffic + StepPct >= MaxPct /\ next.traffic = MaxPct
        BY <3>1, NextTrafficStep
      <4> HIDE DEF next
      <4>3. QED
        BY <3>1, <4>1, <4>2, Bounds
    <3>3. stage \in Active => row.stage \in Active
      BY DEF Active
    <3> HIDE DEF next
    <3>4. EnoughEvidence(row) /\ TypeOK
      BY <2>4 DEF DecideAdvance, EvidenceInv
    <3>5. Sound([row EXCEPT !.stage = stage, !.traffic = next.traffic, !.since = Until,
                            !.evidence = row.evidence \cup Challengers(row)])
      <4> HIDE DEF stage
      <4>1. QED
        BY <1>1, <3>2, <3>3, <3>4, AdvanceSound
    <3>6. QED
      BY <1>2, <2>4, <3>5 DEF DecideAdvance, next
  <2>5. QED
    BY <2>1, <2>2, <2>3, <2>4 DEF Decide
<1>3. ASSUME NEW p \in Owners, NEW q \in Rollouts PROVE Sound(draft'[p][q])
  <2>1. draft'[p][q] = IF p = w /\ q = r THEN new ELSE draft[p][q]
    BY <1>1, <1>2 DEF EvidenceInv, TypeOK
  <2>2. Sound(draft[p][q])
    BY DEF EvidenceInv, Evidence
  <2>3. QED
    BY <1>2, <2>1, <2>2
<1>4. QED
  BY <1>3

\* So is what a pass selects, what an operator writes and inserts, and what a
\* commit publishes: every version after a step is sound before it.
LEMMA VersionsSound ==
    ASSUME EvidenceInv, [Next]_vars
    PROVE  /\ \A r \in Rollouts : Sound(rows'[r])
           /\ \A p \in Owners, r \in Rollouts : Sound(draft'[p][r])
<1> DEFINE Goal == /\ \A r \in Rollouts : Sound(rows'[r])
                   /\ \A p \in Owners, r \in Rollouts : Sound(draft'[p][r])
<1>1. /\ \A r \in Rollouts : Sound(rows[r]) /\ rows[r] \in Row
      /\ \A p \in Owners, r \in Rollouts : Sound(draft[p][r])
      /\ TypeOK
  BY DEF EvidenceInv, Evidence, TypeOK
<1>2. ASSUME UNCHANGED <<rows, draft>> PROVE Goal
  BY <1>1, <1>2
<1>3. ASSUME NEW p \in Owners, Close(p)
      PROVE  \A q \in Owners, r \in Rollouts : Sound(draft'[q][r])
  <2> SUFFICES ASSUME NEW q \in Owners, NEW r \in Rollouts PROVE Sound(draft'[q][r])
    OBVIOUS
  <2>1. draft'[q][r] = IF q = p THEN NoRow ELSE draft[q][r]
    BY <1>1, <1>3 DEF Close, TypeOK
  <2>2. QED
    BY <1>1, <2>1, NoRowSound
<1>4. ASSUME NEW p \in Owners, Commit(p) \/ Abort(p) PROVE Goal
  <2>1. \A r \in Rollouts : rows'[r] = rows[r] \/ rows'[r] = draft[p][r]
    BY <1>4 DEF Commit, Abort
  <2>2. QED
    BY <1>1, <1>3, <1>4, <2>1 DEF Commit, Abort
<1>5. ASSUME NEW w \in Replicas, Pass(w) PROVE Goal
  <2>1. CASE PassStart(w)
    <3> SUFFICES ASSUME NEW p \in Owners, NEW r \in Rollouts PROVE Sound(draft'[p][r])
      BY <1>1, <2>1 DEF PassStart
    <3>1. draft'[p][r] \in {draft[p][r], rows[r], NoRow}
      BY <1>1, <2>1 DEF PassStart, TypeOK
    <3>2. QED
      BY <1>1, <3>1, NoRowSound
  <2>2. ASSUME NEW r \in Rollouts, Decide(w, r) PROVE Goal
    <3>1. rows' = rows
      BY <2>2 DEF Decide, DecideUnhealthy, DecideLater, DecideRollback, DecideAdvance,
                  Decided
    <3>2. QED
      BY <1>1, <2>2, <3>1, DecideSound
  <2>3. CASE PassCommit(w) \/ PassFail(w)
    BY <1>4, <2>3 DEF PassCommit, PassFail, Owners
  <2>4. CASE LeaderLost(w)
    BY <1>2, <2>4 DEF LeaderLost, tableVars
  <2>5. QED
    BY <1>5, <2>1, <2>2, <2>3, <2>4 DEF Pass
<1>6. ASSUME NEW o \in Operators, Operator(o) PROVE Goal
  <2>1. ASSUME NEW r \in Rollouts, NEW new, Sound(new), Write(o, r, new) PROVE Goal
    <3> SUFFICES ASSUME NEW p \in Owners, NEW q \in Rollouts PROVE Sound(draft'[p][q])
      BY <1>1, <2>1 DEF Write
    <3>1. draft'[p][q] = IF p = o /\ q = r THEN new ELSE draft[p][q]
      BY <1>1, <2>1 DEF Write, TypeOK, Owners
    <3>2. QED
      BY <1>1, <2>1, <3>1
  <2>2. ASSUME NEW r \in Rollouts,
               Pause(o, r) \/ Resume(o, r) \/ Promote(o, r) \/ Rollback(o, r)
        PROVE  Goal
    <3>1. rows[r] \in Row /\ Sound(rows[r]) /\ rows[r].stage \in Active
      BY <1>1, <2>2 DEF Pause, Resume, Promote, Rollback, Active
    <3>2. /\ Sound([rows[r] EXCEPT !.stage = "paused"])
          /\ Sound([rows[r] EXCEPT !.stage = "running"])
      BY <3>1, SwitchSound DEF Active
    <3>3. /\ Sound([rows[r] EXCEPT !.stage = "promoted", !.traffic = MaxPct, !.since = now])
          /\ Sound([rows[r] EXCEPT !.stage = "rolled_back", !.traffic = 0, !.since = now])
      BY <3>1, EndSound DEF Terminal
    <3>4. QED
      BY <2>1, <2>2, <3>2, <3>3 DEF Pause, Resume, Promote, Rollback
  <2>3. CASE OperatorCommit(o) \/ OperatorFail(o)
    BY <1>4, <2>3 DEF OperatorCommit, OperatorFail, Owners
  <2>4. CASE (\E a \in Apps : CreateCheck(o, a)) \/ CreateConflict(o)
    BY <1>2, <2>4 DEF CreateCheck, CreateConflict, tableVars
  <2>5. ASSUME NEW r \in Rollouts, CreateInsert(o, r) PROVE Goal
    <3>1. PICK pct \in InitialPcts :
            rows' = [rows EXCEPT ![r] =
                       [ stage |-> "running", app |-> creating[o], traffic |-> pct,
                         created |-> now, since |-> now, initial |-> pct,
                         evidence |-> {} ]]
      BY <2>5 DEF CreateInsert
    <3> DEFINE new == [ stage |-> "running", app |-> creating[o], traffic |-> pct,
                        created |-> now, since |-> now, initial |-> pct,
                        evidence |-> {} ]
    <3>2. Sound(new)
      BY <1>1, NewSound, Bounds
    <3> HIDE DEF new
    <3>3. \A q \in Rollouts : rows'[q] = IF q = r THEN new ELSE rows[q]
      BY <1>1, <3>1 DEF TypeOK, new
    <3>4. QED
      BY <1>1, <2>5, <3>2, <3>3 DEF CreateInsert
  <2>6. QED
    BY <1>6, <2>2, <2>3, <2>4, <2>5 DEF Operator
<1>7. CASE Traffic \/ Tick \/ UNCHANGED vars
  <2>1. UNCHANGED <<rows, draft>>
    BY <1>7 DEF Traffic, Serve, CommitTrace, Score, Flag, Tick, tableVars, vars
  <2>2. QED
    BY <1>2, <2>1
<1>8. QED
  BY <1>5, <1>6, <1>7 DEF Next

\* The clock never goes back.
LEMMA ClockStep ==
    ASSUME EvidenceInv, [Next]_vars
    PROVE  now' \in Int /\ now' >= now
<1>1. now \in Int
  BY Bounds DEF EvidenceInv, TypeOK
<1>2. now' = now \/ now' = now + 1
  BY DEF Next, Pass, PassStart, Decide, DecideUnhealthy, DecideLater, DecideRollback,
         DecideAdvance, Decided, PassCommit, PassFail, LeaderLost, Operator, Pause, Resume,
         Promote, Rollback, Write, OperatorCommit, OperatorFail, CreateCheck,
         CreateInsert, CreateConflict, Traffic, Serve, CommitTrace, Score, Flag, Tick, vars
<1>3. QED
  BY <1>1, <1>2

\* What a step does to a trace and to the clock.
LEMMA TraceStep ==
    ASSUME EvidenceInv, [Next]_vars, NEW t \in Traces
    PROVE  /\ \/ traces'[t] = traces[t]
              \/ /\ traces[t] = NoTrace
                 /\ traces'[t].state = "flushed" /\ traces'[t].at = now
                 /\ now' = now
              \/ /\ traces[t].state \in {"flushed", "committed"}
                 /\ traces'[t].state = "committed"
                 /\ \A f \in {"app", "arm", "at"} : traces'[t][f] = traces[t][f]
                 /\ now' = now
           /\ now' # now => /\ now' = now + 1 /\ traces'[t] = traces[t]
                            /\ traces[t].state = "flushed" => now < traces[t].at + CommitLag
<1> DEFINE Goal ==
      /\ \/ traces'[t] = traces[t]
         \/ /\ traces[t] = NoTrace
            /\ traces'[t].state = "flushed" /\ traces'[t].at = now
            /\ now' = now
         \/ /\ traces[t].state \in {"flushed", "committed"}
            /\ traces'[t].state = "committed"
            /\ \A f \in {"app", "arm", "at"} : traces'[t][f] = traces[t][f]
            /\ now' = now
      /\ now' # now => /\ now' = now + 1 /\ traces'[t] = traces[t]
                       /\ traces[t].state = "flushed" => now < traces[t].at + CommitLag
<1>1. now \in Int /\ traces \in [Traces -> Trace]
  BY Bounds DEF EvidenceInv, TypeOK
<1>2. ASSUME UNCHANGED <<now, traces>> PROVE Goal
  BY <1>1, <1>2
<1>3. ASSUME NEW w \in Replicas, Pass(w) PROVE Goal
  <2>1. UNCHANGED <<now, traces>>
    BY <1>3 DEF Pass, PassStart, Decide, DecideUnhealthy, DecideLater, DecideRollback,
                DecideAdvance, Decided, PassCommit, PassFail, LeaderLost
  <2>2. QED
    BY <1>2, <2>1
<1>4. ASSUME NEW o \in Operators, Operator(o) PROVE Goal
  <2>1. UNCHANGED <<now, traces>>
    BY <1>4 DEF Operator, Pause, Resume, Promote, Rollback, Write, OperatorCommit,
                OperatorFail, CreateCheck, CreateInsert, CreateConflict
  <2>2. QED
    BY <1>2, <2>1
<1>5. CASE Traffic
  <2>1. ASSUME NEW s \in Traces, NEW a \in Apps, NEW arm \in Arms, Serve(s, a, arm)
        PROVE  Goal
    <3>1. now' = now
      BY <2>1 DEF Serve
    <3>2. CASE s = t
      <4>1. traces[t] = NoTrace /\ traces'[t].state = "flushed" /\ traces'[t].at = now
        BY <1>1, <2>1, <3>2 DEF Serve
      <4>2. QED
        BY <1>1, <3>1, <4>1
    <3>3. CASE s # t
      <4>1. traces'[t] = traces[t]
        BY <1>1, <2>1, <3>3 DEF Serve
      <4>2. QED
        BY <1>1, <3>1, <4>1
    <3>4. QED
      BY <3>2, <3>3
  <2>2. ASSUME NEW s \in Traces, CommitTrace(s) \/ Score(s) PROVE Goal
    <3>1. now' = now
      BY <2>2 DEF CommitTrace, Score
    <3>2. CASE s = t /\ CommitTrace(s)
      <4>1. traces[t].state = "flushed" /\ traces' = [traces EXCEPT ![t].state = "committed"]
        BY <3>2 DEF CommitTrace
      <4>2. /\ traces'[t].state = "committed" /\ traces'[t].app = traces[t].app
            /\ traces'[t].arm = traces[t].arm /\ traces'[t].at = traces[t].at
        BY <1>1, <4>1 DEF Trace
      <4>3. QED
        BY <1>1, <3>1, <4>1, <4>2
    <3>3. CASE s = t /\ Score(s)
      <4>1. PICK q \in Scores : traces' = [traces EXCEPT ![t].outcome = q]
        BY <3>3 DEF Score
      <4>2. /\ traces[t].state = "committed"
            /\ traces'[t].state = "committed" /\ traces'[t].app = traces[t].app
            /\ traces'[t].arm = traces[t].arm /\ traces'[t].at = traces[t].at
        BY <1>1, <3>3, <4>1 DEF Trace, Score
      <4>3. QED
        BY <1>1, <3>1, <4>2
    <3>4. CASE s # t
      <4>1. traces'[t] = traces[t]
        BY <1>1, <2>2, <3>4 DEF CommitTrace, Score
      <4>2. QED
        BY <1>1, <3>1, <4>1
    <3>5. QED
      BY <2>2, <3>2, <3>3, <3>4
  <2>3. ASSUME NEW arm \in Arms, Flag(arm) PROVE Goal
    BY <1>2, <2>3 DEF Flag
  <2>4. QED
    BY <1>5, <2>1, <2>2, <2>3 DEF Traffic
<1>6. CASE Tick
  <2>1. now' = now + 1 /\ traces' = traces
    BY <1>6 DEF Tick
  <2>2. traces[t].state = "flushed" => now < traces[t].at + CommitLag
    BY <1>6 DEF Tick
  <2>3. QED
    BY <1>1, <2>1, <2>2
<1>7. CASE UNCHANGED vars
  BY <1>2, <1>7 DEF vars
<1>8. QED
  BY <1>3, <1>4, <1>5, <1>6, <1>7 DEF Next

\* A sound version stays sound while traces are served, committed and scored:
\* one that commits late is still ahead of the cursor.
LEMMA SoundKept ==
    ASSUME EvidenceInv, [Next]_vars, NEW row \in Row, Sound(row)
    PROVE  Sound(row)'
<1> SUFFICES ASSUME row.stage \in Active
             PROVE  /\ Settled(row)' /\ Backed(row)'
                    /\ CommitLag < Grace => Paced(row)' /\ Complete(row)'
  BY DEF Sound
<1>1. Settled(row) /\ Backed(row) /\ (CommitLag < Grace => Paced(row) /\ Complete(row))
  BY DEF Sound
<1>2. /\ row.since \in Int /\ row.created \in Int /\ row.evidence \subseteq Traces
      /\ now \in Int /\ \A t \in Traces : traces[t].at \in Int
  BY Bounds DEF EvidenceInv, TypeOK, Trace, Row
<1>3. Settled(row)'
  <2> SUFFICES ASSUME NEW t \in row.evidence
               PROVE  traces'[t].state = "committed" /\ traces'[t].at <= row.since
    BY DEF Settled
  <2>1. t \in Traces /\ traces[t].state = "committed" /\ traces[t].at <= row.since
    BY <1>1, <1>2 DEF Settled
  <2>2. traces[t] # NoTrace
    BY <2>1 DEF NoTrace
  <2>3. traces'[t] = traces[t]
        \/ (traces'[t].state = "committed" /\ traces'[t]["at"] = traces[t]["at"])
    BY <2>1, <2>2, TraceStep
  <2>4. QED
    BY <2>1, <2>3
<1>4. Backed(row)'
  BY <1>1 DEF Backed
<1>5. ASSUME CommitLag < Grace PROVE Paced(row)' /\ Complete(row)'
  <2>1. now' \in Int /\ now' >= now
    BY ClockStep
  <2>2. Paced(row)'
    BY <1>1, <1>2, <1>5, <2>1, Bounds DEF Paced, Until
  <2>3. Complete(row)'
    <3> SUFFICES ASSUME NEW t \in Traces,
                        traces'[t].state = "committed",
                        traces'[t].app = row.app,
                        traces'[t].arm = "challenger",
                        traces'[t].at > row.created,
                        traces'[t].at <= row.since
                 PROVE  t \in row.evidence
      BY DEF Complete
    <3>1. CASE traces'[t] = traces[t]
      BY <1>1, <1>5, <3>1 DEF Complete
    <3>2. CASE traces'[t] # traces[t]
      <4>1. /\ traces[t].state \in {"flushed", "committed"}
            /\ traces[t].app = row.app
            /\ traces[t].arm = "challenger"
            /\ traces[t].at > row.created
            /\ traces[t].at <= row.since
        <5>1. /\ traces[t].state \in {"flushed", "committed"}
              /\ \A f \in {"app", "arm", "at"} : traces'[t][f] = traces[t][f]
          BY <3>2, TraceStep
        <5>2. QED
          BY <5>1
      <4>2. CASE traces[t].state = "committed"
        BY <1>1, <1>5, <4>1, <4>2 DEF Complete
      <4>3. CASE traces[t].state = "flushed"
        <5>1. now <= traces[t].at + CommitLag
          BY <4>3 DEF EvidenceInv, Evidence, FlushedIsRecent
        <5>2. row.since <= now - Grace
          BY <1>1, <1>2, <1>5, <4>1 DEF Paced, Until
        <5>3. CommitLag \in Nat /\ Grace \in Nat
          BY RolloutAssumption
        <5>4. QED
          BY <1>2, <1>5, <4>1, <5>1, <5>2, <5>3
      <4>4. QED
        BY <4>1, <4>2, <4>3
    <3>3. QED
      BY <3>1, <3>2
  <2>4. QED
    BY <2>2, <2>3
<1>6. QED
  BY <1>3, <1>4, <1>5

LEMMA EvidenceKept ==
    ASSUME EvidenceInv, [Next]_vars, TypeOK'
    PROVE  Evidence'
<1>1. FlushedIsRecent'
  <2> SUFFICES ASSUME NEW t \in Traces, traces'[t].state = "flushed"
               PROVE  now' <= traces'[t].at + CommitLag
    BY DEF FlushedIsRecent
  <2>1. now \in Int /\ traces[t].at \in Int /\ CommitLag \in Nat
    BY Bounds, RolloutAssumption DEF EvidenceInv, TypeOK, Trace
  <2>2. CASE traces'[t] = traces[t]
    <3>1. now <= traces[t].at + CommitLag
      BY <2>2 DEF EvidenceInv, Evidence, FlushedIsRecent
    <3>2. now' # now => now' = now + 1 /\ now < traces[t].at + CommitLag
      BY <2>2, TraceStep
    <3>3. QED
      BY <2>1, <2>2, <3>1, <3>2
  <2>3. CASE traces'[t] # traces[t]
    <3>1. traces'[t].at = now /\ now' = now
      BY <2>3, TraceStep
    <3>2. QED
      BY <2>1, <3>1
  <2>4. QED
    BY <2>2, <2>3
<1>2. ASSUME NEW r \in Rollouts PROVE Sound(rows[r])'
  <2>1. PICK row \in Row : row = rows'[r] /\ Sound(row)
    BY VersionsSound DEF TypeOK
  <2>2. Sound(row)'
    BY <2>1, SoundKept
  <2>3. QED
    BY <2>1, <2>2 DEF Sound, Settled, Backed, Paced, Complete, Until
<1>3. ASSUME NEW p \in Owners, NEW r \in Rollouts PROVE Sound(draft[p][r])'
  <2>1. PICK row \in Row : row = draft'[p][r] /\ Sound(row)
    BY VersionsSound DEF TypeOK
  <2>2. Sound(row)'
    BY <2>1, SoundKept
  <2>3. QED
    BY <2>1, <2>2 DEF Sound, Settled, Backed, Paced, Complete, Until
<1>4. QED
  BY <1>1, <1>2, <1>3 DEF Evidence

\* Every committed row and every version of it in a transaction is sound.
LEMMA EvidenceInvariant == Spec => []EvidenceInv
<1>1. Init => Evidence
  <2> SUFFICES ASSUME Init PROVE Evidence
    OBVIOUS
  <2>1. FlushedIsRecent
    BY DEF Init, FlushedIsRecent, NoTrace
  <2>2. \A r \in Rollouts : rows[r] = NoRow
    BY DEF Init
  <2>3. \A p \in Owners, r \in Rollouts : draft[p][r] = NoRow
    BY DEF Init
  <2>4. QED
    BY <2>1, <2>2, <2>3, NoRowSound DEF Evidence
<1>2. EvidenceInv /\ TypeOK' /\ [Next]_vars => Evidence'
  BY EvidenceKept
<1>3. QED
  BY <1>1, <1>2, TypeCorrect, PTL DEF Spec, EvidenceInv

\* TrafficBacked is an invariant: every step up of a canary took
\* min_sample_size requests that no earlier step had counted, whatever replicas,
\* operators, crashes and lost locks interleave (worker/tasks/rollout.py:115-179).
THEOREM StepsAreEarned == Spec => []TrafficBacked
<1>1. EvidenceInv => TrafficBacked
  BY DEF EvidenceInv, Evidence, Sound, Backed, TrafficBacked
<1>2. QED
  BY <1>1, EvidenceInvariant, PTL

\* NoEvidenceSkipped is an invariant wherever a request's transaction commits
\* within _EVALUATION_GRACE of its stamp: the cursor, which stays that far
\* behind the clock, then never passes a request that is still to commit
\* (worker/tasks/rollout.py:13-19, 115-131).
THEOREM CursorSkipsNothing ==
    ASSUME CommitLag < Grace
    PROVE  Spec => []NoEvidenceSkipped
<1>1. EvidenceInv => NoEvidenceSkipped
  BY DEF EvidenceInv, Evidence, Sound, Complete, NoEvidenceSkipped
<1>2. QED
  BY <1>1, EvidenceInvariant, PTL

------------------------------------------------------------------------------
(* Announced rollbacks *)

\* A replica's version of a row is rolled back only after the webhook call.
RollbackSent ==
    \A w \in Replicas, r \in Rollouts : draft[w][r].stage = "rolled_back" => r \in announced

LEMMA DecideSends ==
    ASSUME TypeOK, RollbackSent, NEW w \in Replicas, NEW r \in Rollouts, Decide(w, r)
    PROVE  RollbackSent'
<1>1. w \in Owners /\ draft[w][r] \in Row /\ Replicas \subseteq Owners
  BY DEF TypeOK, Owners
<1>2. \A v \in Replicas, q \in Rollouts :
        v # w \/ q # r => draft'[v][q] = draft[v][q]
  BY <1>1 DEF Decide, DecideUnhealthy, DecideLater, DecideRollback, DecideAdvance, TypeOK
<1>3. announced \subseteq announced'
  BY DEF Decide, DecideUnhealthy, DecideLater, DecideRollback, DecideAdvance
<1>4. draft'[w][r].stage = "rolled_back" => r \in announced'
  <2>1. CASE DecideUnhealthy(w, r) \/ DecideRollback(w, r)
    BY <2>1 DEF DecideUnhealthy, DecideRollback
  <2>2. CASE DecideLater(w, r)
    BY <2>2 DEF DecideLater, RollbackSent
  <2>3. CASE DecideAdvance(w, r)
    <3> DEFINE next == NextTraffic(draft[w][r].traffic, StepPct, MaxPct)
               stage == IF next.promoted THEN "promoted" ELSE draft[w][r].stage
    <3>1. draft' = [draft EXCEPT ![w][r] =
                      [draft[w][r] EXCEPT !.stage = stage, !.traffic = next.traffic,
                         !.since = Until,
                         !.evidence = draft[w][r].evidence \cup Challengers(draft[w][r])]]
          /\ announced' = announced
      BY <2>3 DEF DecideAdvance
    <3> HIDE DEF next
    <3>2. stage = "promoted" \/ stage = draft[w][r].stage
      OBVIOUS
    <3> HIDE DEF stage
    <3>3. draft'[w][r].stage = stage
      BY <1>1, <3>1 DEF TypeOK, Row
    <3>4. QED
      BY <3>1, <3>2, <3>3 DEF RollbackSent
  <2>4. QED
    BY <2>1, <2>2, <2>3 DEF Decide
<1>5. QED
  BY <1>2, <1>3, <1>4 DEF RollbackSent

LEMMA SentKept ==
    ASSUME TypeOK, RollbackSent, [Next]_vars
    PROVE  RollbackSent'
<1>0. Replicas \subseteq Owners /\ NoRow.stage # "rolled_back"
  BY DEF Owners, NoRow
<1>1. ASSUME UNCHANGED <<draft, announced>> PROVE RollbackSent'
  BY <1>1 DEF RollbackSent
<1>2. ASSUME NEW p \in Owners, Commit(p) \/ Abort(p) PROVE RollbackSent'
  <2>1. announced' = announced /\ Close(p)
    BY <1>2 DEF Commit, Abort
  <2>2. \A v \in Replicas, q \in Rollouts : draft'[v][q] \in {draft[v][q], NoRow}
    BY <1>0, <2>1 DEF Close, TypeOK
  <2>3. QED
    BY <1>0, <2>1, <2>2 DEF RollbackSent
<1>3. ASSUME NEW w \in Replicas, Pass(w) PROVE RollbackSent'
  <2>1. CASE PassStart(w)
    <3> SUFFICES ASSUME NEW v \in Replicas, NEW r \in Rollouts,
                        draft'[v][r].stage = "rolled_back"
                 PROVE  r \in announced'
      BY DEF RollbackSent
    <3>1. draft'[v][r] = IF v = w THEN IF r \in Lockable THEN rows[r] ELSE NoRow
                         ELSE draft[v][r]
      BY <1>0, <2>1 DEF PassStart, TypeOK
    <3>2. draft'[v][r] = draft[v][r]
      BY <1>0, <3>1 DEF Lockable
    <3>3. QED
      BY <2>1, <3>2 DEF PassStart, RollbackSent
  <2>2. ASSUME NEW r \in Rollouts, Decide(w, r) PROVE RollbackSent'
    BY <2>2, DecideSends
  <2>3. CASE PassCommit(w) \/ PassFail(w)
    BY <1>2, <2>3 DEF PassCommit, PassFail, Owners
  <2>4. CASE LeaderLost(w)
    BY <1>1, <2>4 DEF LeaderLost, tableVars
  <2>5. QED
    BY <1>3, <2>1, <2>2, <2>3, <2>4 DEF Pass
<1>4. ASSUME NEW o \in Operators, Operator(o) PROVE RollbackSent'
  <2>1. ASSUME NEW r \in Rollouts,
               Pause(o, r) \/ Resume(o, r) \/ Promote(o, r) \/ Rollback(o, r)
        PROVE  RollbackSent'
    <3>1. o \notin Replicas /\ announced' = announced
      BY <2>1, RolloutAssumption DEF Pause, Resume, Promote, Rollback, Write
    <3>2. \A v \in Replicas : draft'[v] = draft[v]
      BY <1>0, <2>1, <3>1 DEF Pause, Resume, Promote, Rollback, Write, TypeOK
    <3>3. QED
      BY <3>1, <3>2 DEF RollbackSent
  <2>2. CASE OperatorCommit(o) \/ OperatorFail(o)
    BY <1>2, <2>2 DEF OperatorCommit, OperatorFail, Owners
  <2>3. CASE \/ \E a \in Apps : CreateCheck(o, a)
             \/ \E r \in Rollouts : CreateInsert(o, r)
             \/ CreateConflict(o)
    BY <1>1, <2>3 DEF CreateCheck, CreateInsert, CreateConflict, tableVars
  <2>4. QED
    BY <1>4, <2>1, <2>2, <2>3 DEF Operator
<1>5. CASE Traffic \/ Tick \/ UNCHANGED vars
  BY <1>1, <1>5 DEF Traffic, Serve, CommitTrace, Score, Flag, Tick, tableVars, vars
<1>6. QED
  BY <1>3, <1>4, <1>5 DEF Next

\* AutoRollbackAnnounced: no pass commits a rollback nobody was told of, whichever
\* gate it came from and however often the pass was cut short before
\* (worker/tasks/rollout.py:63-79, 104-113, 150-158).
THEOREM RollbacksAreAnnounced == Spec => AutoRollbackAnnounced
<1>1. Init => RollbackSent
  <2>1. Replicas \subseteq Owners /\ NoRow.stage # "rolled_back"
    BY DEF Owners, NoRow
  <2>2. QED
    BY <2>1 DEF Init, RollbackSent
<1>2. TypeOK /\ RollbackSent /\ [Next]_vars => RollbackSent'
  BY SentKept
<1>3. TypeOK /\ RollbackSent /\ [Next]_vars =>
        [\A w \in Replicas, r \in Rollouts :
           /\ PassCommit(w)
           /\ r \in Held(w)
           /\ rows[r].stage = "running"
           /\ rows'[r].stage = "rolled_back"
           => r \in announced]_vars
  <2> SUFFICES ASSUME RollbackSent, NEW w \in Replicas, NEW r \in Rollouts,
                      PassCommit(w), r \in Held(w), rows'[r].stage = "rolled_back"
               PROVE  r \in announced
    OBVIOUS
  <2>1. rows'[r] = draft[w][r]
    BY DEF PassCommit, Commit
  <2>2. QED
    BY <2>1 DEF RollbackSent
<1>4. QED
  BY <1>1, <1>2, <1>3, TypeCorrect, PTL DEF Spec, AutoRollbackAnnounced

==============================================================================
