----------------------------- MODULE ApiKeysProofs -----------------------------
(***************************************************************************)
(* Theorems about ApiKeys: what a key brings about stays in its scope, a   *)
(* rotation keeps its word, and revoked keys stay revoked, for any number  *)
(* of requests, keys and applications.                                     *)
(***************************************************************************)
EXTENDS ApiKeys, TLAPS

\* Expiries as they are written: a NULL, or an instant.
Ends == {Forever} \cup { At(t) : t \in Nat }

KeyRows == [app : Apps, role : Roles, scoped : BOOLEAN, revoked : BOOLEAN,
            expires : Ends, used : Instants]

Cuts == {NoCut, AtOnce} \cup [kind : {"expires"}, at : Ends]

Transactions ==
    [step : {"touch", "handler", "write"}, touched : BOOLEAN, key : Nat,
     seen : KeyRows, ask : Asks, at : Instants]

Types ==
    /\ keys \in Seq(KeyRows)
    /\ parent \in Seq(Nat) /\ Len(parent) = Len(keys)
    /\ deadline \in Seq(Ends) /\ Len(deadline) = Len(keys)
    /\ now \in 0..MaxTime
    /\ req \in [Requests -> {Idle} \cup Transactions]

\* The rows have the same rights.
Alike(row, other) == row.app = other.app /\ row.scoped = other.scoped

\* The key a request has read: the one it authenticated with, then its target.
ReadOf(r) == IF req[r].step = "write" THEN req[r].ask.target ELSE req[r].key

\* The rights a request has read are those of the key: they never change.
ReadsOK ==
    \A r \in Requests : req[r] # Idle =>
        /\ ReadOf(r) \in Issued
        /\ Alike(req[r].seen, keys[ReadOf(r)])

\* What is brought about by a key is within its scope.
Within(row, source) == source.scoped => row.scoped /\ row.app = source.app

Lineage ==
    \A k \in Issued : parent[k] # 0 => parent[k] \in Issued /\ Within(keys[k], keys[parent[k]])

Inv == Types /\ ReadsOK /\ Lineage /\ GraceIsKept

-----------------------------------------------------------------------------
(* Lemmas *)

LEMMA Numbers == /\ UseInterval \in Nat \ {0} /\ MaxTime \in Nat
                 /\ Graces \subseteq Nat /\ Issuable \subseteq Wishes
  BY KeysAssumption

LEMMA EarlierType ==
  ASSUME NEW e \in Ends, NEW f \in Ends
  PROVE  Earlier(e, f) \in Ends
  BY DEF Earlier

\* The end that is announced is the one that is written.
LEMMA EarlierTwice ==
  ASSUME NEW e \in Ends, NEW f \in Ends
  PROVE  /\ Earlier(e, Earlier(e, f)) = Earlier(e, f)
         /\ Earlier(e, e) = e
         /\ Earlier(e, Forever) = e
  BY DEF Earlier, Ends, Forever, At

LEMMA NewRowType ==
  ASSUME now \in 0..MaxTime, NEW wish \in Wishes
  PROVE  /\ NewRow(wish) \in KeyRows
         /\ NewRow(wish).app = wish.app /\ NewRow(wish).scoped = wish.scoped
<1>1. now + wish.life \in Nat /\ Unused \in Instants
  BY Numbers DEF Wishes, Unused, Instants
<1>2. Forever \in Ends /\ At(now + wish.life) \in Ends
  BY <1>1 DEF Ends
<1>3. QED
  BY <1>1, <1>2 DEF NewRow, KeyRows, Wishes

\* What a transaction writes to a row: its rights stay, and so does a revocation.
LEMMA WrittenType ==
  ASSUME Types, NEW r \in Requests, req[r] \in Transactions, NEW k \in Issued, NEW cut \in Cuts
  PROVE  /\ Written(r, k, cut) \in KeyRows
         /\ Alike(Written(r, k, cut), keys[k])
         /\ keys[k].revoked => Written(r, k, cut).revoked
         /\ Written(r, k, cut).expires =
              IF cut \in {NoCut, AtOnce} \/ req[r].ask.target # k THEN keys[k].expires
              ELSE cut.at
<1> DEFINE row == IF req[r].touched /\ req[r].key = k
                  THEN [keys[k] EXCEPT !.used = req[r].at] ELSE keys[k]
<1>1. keys[k] \in KeyRows /\ req[r].at \in Instants
  <2>1. keys[k] \in KeyRows
    BY DEF Types, Issued
  <2>2. req[r].at \in Instants
    BY DEF Transactions
  <2>3. QED
    BY <2>1, <2>2
<1>2. /\ row \in KeyRows /\ row.app = keys[k].app /\ row.scoped = keys[k].scoped
      /\ row.revoked = keys[k].revoked /\ row.expires = keys[k].expires
  BY <1>1 DEF KeyRows
<1>3. cut \notin {NoCut, AtOnce} => cut.at \in Ends
  BY DEF Cuts
<1> HIDE DEF row
<1>4. CASE cut = NoCut \/ req[r].ask.target # k
  <2>1. Written(r, k, cut) = row
    BY <1>4 DEF Written, row
  <2>2. QED
    BY <1>2, <1>4, <2>1 DEF Alike
<1>5. CASE cut = AtOnce /\ req[r].ask.target = k
  <2>1. cut # NoCut
    BY <1>5 DEF NoCut, AtOnce
  <2>2. Written(r, k, cut) = [row EXCEPT !.revoked = TRUE]
    BY <1>5, <2>1 DEF Written, row
  <2>3. QED
    BY <1>2, <1>5, <2>1, <2>2 DEF Alike, KeyRows
<1>6. CASE cut \notin {NoCut, AtOnce} /\ req[r].ask.target = k
  <2>1. Written(r, k, cut) = [row EXCEPT !.expires = cut.at]
    BY <1>6 DEF Written, row
  <2>2. QED
    BY <1>2, <1>3, <1>6, <2>1 DEF Alike, KeyRows
<1>7. QED
  BY <1>4, <1>5, <1>6

LEMMA Appended ==
  ASSUME NEW S, NEW s \in Seq(S), NEW x \in S
  PROVE  /\ Append(s, x) \in Seq(S) /\ Len(Append(s, x)) = Len(s) + 1
         /\ Append(s, x)[Len(s) + 1] = x
         /\ \A i \in 1..Len(s) : Append(s, x)[i] = s[i]
  OBVIOUS

\* The table of keys that a transaction leaves, but for a new one.
LEMMA RowsType ==
  ASSUME Types, NEW r \in Requests, req[r] \in Transactions, NEW cut \in Cuts,
         NEW rows, rows = [k \in Issued |-> Written(r, k, cut)]
  PROVE  /\ rows \in Seq(KeyRows) /\ Len(rows) = Len(keys)
         /\ \A k \in Issued : /\ rows[k] = Written(r, k, cut)
                              /\ Alike(rows[k], keys[k])
<1>1. Issued = 1..Len(keys) /\ Len(keys) \in Nat
  BY DEF Types, Issued
<1>2. \A k \in Issued : Written(r, k, cut) \in KeyRows /\ Alike(Written(r, k, cut), keys[k])
  BY WrittenType
<1>3. rows \in [1..Len(keys) -> KeyRows]
  BY <1>1, <1>2
<1>4. rows \in Seq(KeyRows) /\ Len(rows) = Len(keys)
  BY <1>1, <1>3
<1>5. QED
  BY <1>1, <1>2, <1>4

LEMMA IdleIsNone == \A t \in Transactions : t # Idle /\ t.step # "idle"
  BY DEF Transactions, Idle

\* A request that is over leaves the others with what they have read.
LEMMA ReadsStay ==
  ASSUME Inv, NEW r \in Requests, req' = [req EXCEPT ![r] = Idle], Issued \subseteq Issued',
         \A k \in Issued : Alike(keys'[k], keys[k])
  PROVE  ReadsOK' /\ req' \in [Requests -> {Idle} \cup Transactions]
<1>1. req \in [Requests -> {Idle} \cup Transactions]
  BY DEF Inv, Types
<1>2. req'[r] = Idle /\ \A p \in Requests \ {r} : req'[p] = req[p]
  BY <1>1
<1>3. ASSUME NEW p \in Requests, req'[p] # Idle
      PROVE  ReadOf(p)' \in Issued' /\ Alike(req'[p].seen, keys'[ReadOf(p)'])
  <2>1. p # r /\ req'[p] = req[p] /\ ReadOf(p)' = ReadOf(p)
    BY <1>2, <1>3 DEF ReadOf
  <2>2. ReadOf(p) \in Issued /\ Alike(req[p].seen, keys[ReadOf(p)])
    BY <1>3, <2>1 DEF Inv, ReadsOK
  <2>3. QED
    BY <2>1, <2>2 DEF Alike
<1>4. QED
  BY <1>1, <1>3 DEF ReadsOK

\* A step of a request that commits nothing.
LEMMA Uncommitted ==
  ASSUME Inv, UNCHANGED << keys, parent, deadline, contested, now >>,
         req' \in [Requests -> {Idle} \cup Transactions], ReadsOK'
  PROVE  Inv'
<1>1. Types'
  BY DEF Inv, Types
<1>2. Lineage'
  BY DEF Inv, Lineage, Within, Issued
<1>3. GraceIsKept'
  BY DEF Inv, GraceIsKept, Issued
<1>4. QED
  BY <1>1, <1>2, <1>3 DEF Inv

LEMMA Ends0 ==
  ASSUME Inv, NEW r \in Requests, req' = [req EXCEPT ![r] = Idle],
         UNCHANGED << keys, parent, deadline, contested, now >>
  PROVE  Inv'
<1>1. Issued' = Issued /\ \A k \in Issued : Alike(keys'[k], keys[k])
  BY DEF Issued, Alike
<1>2. QED
  BY <1>1, ReadsStay, Uncommitted

\* A commit that issues no key.
LEMMA CommitKeeps ==
  ASSUME Inv, NEW r \in Requests, req[r] \in Transactions, NEW cut \in {NoCut, AtOnce},
         Commit(r, cut), UNCHANGED << parent, deadline, contested, now >>
  PROVE  Inv'
<1>1. Types /\ cut \in Cuts
  BY DEF Inv, Cuts
<1>2. /\ keys' \in Seq(KeyRows) /\ Len(keys') = Len(keys)
      /\ \A k \in Issued : keys'[k] = Written(r, k, cut) /\ Alike(keys'[k], keys[k])
  BY <1>1, RowsType DEF Commit
<1>3. Issued' = Issued
  BY <1>1, <1>2 DEF Issued, Types
<1>4. ReadsOK' /\ req' \in [Requests -> {Idle} \cup Transactions]
  BY <1>2, <1>3, ReadsStay DEF Commit
<1>5. Types'
  BY <1>1, <1>2, <1>4 DEF Types
<1>6. Lineage'
  <2> SUFFICES ASSUME NEW k \in Issued, parent[k] # 0
               PROVE  parent[k] \in Issued /\ Within(keys'[k], keys'[parent[k]])
    BY <1>3 DEF Lineage
  <2>1. parent[k] \in Issued /\ Within(keys[k], keys[parent[k]])
    BY DEF Inv, Lineage
  <2>2. QED
    BY <1>2, <2>1 DEF Within, Alike
<1>7. GraceIsKept'
  <2>1. \A k \in Issued : keys'[k].expires = keys[k].expires
    BY <1>1, <1>2, WrittenType
  <2>2. QED
    BY <1>3, <2>1 DEF Inv, GraceIsKept
<1>8. QED
  BY <1>4, <1>5, <1>6, <1>7 DEF Inv

\* A commit that issues one, in the scope of the key it is from.
LEMMA IssueKeeps ==
  ASSUME Inv, NEW r \in Requests, req[r] \in Transactions, NEW cut \in Cuts,
         NEW row \in KeyRows, NEW from \in Issued, Within(row, keys[from]),
         CommitWith(r, cut, row, from), now' = now,
         deadline' \in Seq(Ends), Len(deadline') = Len(keys) + 1,
         \A k \in Issued \ contested' : Written(r, k, cut).expires = deadline'[k],
         deadline'[Len(keys) + 1] = row.expires
  PROVE  Inv'
<1> DEFINE rows == [k \in Issued |-> Written(r, k, cut)]
           n == Len(keys)
<1>1. Types /\ n \in Nat /\ Issued = 1..n /\ parent \in Seq(Nat) /\ Len(parent) = n
  BY DEF Inv, Types, Issued
<1>2. /\ rows \in Seq(KeyRows) /\ Len(rows) = n
      /\ \A k \in Issued : rows[k] = Written(r, k, cut) /\ Alike(rows[k], keys[k])
  BY <1>1, RowsType
<1>3. keys' = Append(rows, row) /\ parent' = Append(parent, from) /\ req' = [req EXCEPT ![r] = Idle]
  BY DEF CommitWith
<1> HIDE DEF rows
<1>4. /\ keys' \in Seq(KeyRows) /\ Len(keys') = n + 1 /\ keys'[n + 1] = row
      /\ \A k \in 1..n : keys'[k] = rows[k]
  BY <1>1, <1>2, <1>3, Appended
<1>5. from \in Nat
  BY <1>1
<1>6. /\ parent' \in Seq(Nat) /\ Len(parent') = n + 1 /\ parent'[n + 1] = from
      /\ \A k \in 1..n : parent'[k] = parent[k]
  <2> DEFINE longer == Append(parent, from)
  <2>1. parent' = longer /\ parent \in Seq(Nat) /\ Len(parent) = n
    BY <1>1, <1>3
  <2>2. /\ longer \in Seq(Nat) /\ Len(longer) = n + 1 /\ longer[n + 1] = from
        /\ \A k \in 1..n : longer[k] = parent[k]
    BY <1>5, <2>1, Appended
  <2> HIDE DEF longer
  <2>3. QED
    BY <2>1, <2>2
<1>7. Issued' = 1..n + 1
  BY <1>1, <1>4 DEF Issued
<1>8. \A k \in Issued : Alike(keys'[k], keys[k])
  BY <1>1, <1>2, <1>4
<1>9. ReadsOK' /\ req' \in [Requests -> {Idle} \cup Transactions]
  <2>1. Issued \subseteq Issued'
    BY <1>1, <1>7
  <2>2. QED
    BY <1>3, <1>8, <2>1, ReadsStay
<1>10. Types'
  BY <1>1, <1>4, <1>6, <1>9 DEF Types
<1>11. Lineage'
  <2> SUFFICES ASSUME NEW k \in 1..n + 1, parent'[k] # 0
               PROVE  parent'[k] \in 1..n + 1 /\ Within(keys'[k], keys'[parent'[k]])
    BY <1>7 DEF Lineage
  <2>1. CASE k \in 1..n
    <3>1. parent[k] \in 1..n /\ Within(keys[k], keys[parent[k]]) /\ parent'[k] = parent[k]
      BY <1>1, <1>6, <2>1 DEF Inv, Lineage
    <3>2. QED
      BY <1>1, <1>8, <2>1, <3>1 DEF Within, Alike
  <2>2. CASE k = n + 1
    <3>1. parent'[k] = from /\ keys'[k] = row /\ Alike(keys'[from], keys[from])
      BY <1>4, <1>6, <1>8, <2>2
    <3>2. QED
      BY <1>1, <3>1 DEF Within, Alike
  <2>3. QED
    BY <1>1, <2>1, <2>2
<1>12. GraceIsKept'
  <2> SUFFICES ASSUME NEW k \in 1..n + 1, k \notin contested'
               PROVE  keys'[k].expires = deadline'[k]
    BY <1>7 DEF GraceIsKept
  <2>1. CASE k \in 1..n
    BY <1>1, <1>2, <1>4, <2>1
  <2>2. CASE k = n + 1
    BY <1>4, <2>2
  <2>3. QED
    BY <1>1, <2>1, <2>2
<1>13. QED
  BY <1>9, <1>10, <1>11, <1>12 DEF Inv

-----------------------------------------------------------------------------
(* One lemma per action *)

\* What the invariant says of a request in flight.
LEMMA Known ==
  ASSUME Inv, NEW r \in Requests, req[r].step # "idle"
  PROVE  /\ req[r] \in Transactions /\ req[r].seen \in KeyRows /\ req[r].ask \in Asks
         /\ ReadOf(r) \in Issued /\ Alike(req[r].seen, keys[ReadOf(r)])
         /\ keys[ReadOf(r)] \in KeyRows
<1>1. req[r] \in Transactions
  BY IdleIsNone DEF Inv, Types, Idle
<1>2. ReadOf(r) \in Issued /\ Alike(req[r].seen, keys[ReadOf(r)])
  BY <1>1, IdleIsNone DEF Inv, ReadsOK
<1>3. keys[ReadOf(r)] \in KeyRows
  BY <1>2 DEF Inv, Types, Issued
<1>4. req[r].seen \in KeyRows /\ req[r].ask \in Asks
  BY <1>1 DEF Transactions
<1>5. QED
  BY <1>1, <1>2, <1>3, <1>4

\* A request goes on with what it has read of a key.
LEMMA GoesOn ==
  ASSUME Inv, NEW r \in Requests, NEW t \in Transactions, req' = [req EXCEPT ![r] = t],
         UNCHANGED << keys, parent, deadline, contested, now >>,
         NEW k \in Issued, k = IF t.step = "write" THEN t.ask.target ELSE t.key,
         Alike(t.seen, keys[k])
  PROVE  Inv'
<1>1. req \in [Requests -> {Idle} \cup Transactions]
  BY DEF Inv, Types
<1>2. req'[r] = t /\ \A p \in Requests \ {r} : req'[p] = req[p]
  BY <1>1
<1>3. ReadsOK'
  <2> SUFFICES ASSUME NEW p \in Requests, req'[p] # Idle
               PROVE  ReadOf(p)' \in Issued' /\ Alike(req'[p].seen, keys'[ReadOf(p)'])
    BY DEF ReadsOK
  <2>1. CASE p = r
    <3>1. ReadOf(p)' = k
      BY <1>2, <2>1 DEF ReadOf
    <3>2. QED
      BY <1>2, <2>1, <3>1 DEF Issued
  <2>2. CASE p # r
    <3>1. req'[p] = req[p] /\ ReadOf(p)' = ReadOf(p)
      BY <1>2, <2>2 DEF ReadOf
    <3>2. QED
      BY <3>1 DEF Inv, ReadsOK, Issued
  <2>3. QED
    BY <2>1, <2>2
<1>4. req' \in [Requests -> {Idle} \cup Transactions]
  BY <1>1
<1>5. QED
  BY <1>3, <1>4, Uncommitted

LEMMA BeginKeeps ==
  ASSUME Inv, NEW r \in Requests, Begin(r)
  PROVE  Inv'
<1>1. PICK k \in Issued, ask \in Asks :
        req' = [req EXCEPT ![r] =
                  [step |-> IF now - keys[k].used >= UseInterval THEN "touch" ELSE "handler",
                   touched |-> FALSE, key |-> k, seen |-> keys[k], ask |-> ask,
                   at |-> IF now - keys[k].used >= UseInterval THEN now ELSE Unused]]
  BY DEF Begin
<1> DEFINE t == [step |-> IF now - keys[k].used >= UseInterval THEN "touch" ELSE "handler",
                 touched |-> FALSE, key |-> k, seen |-> keys[k], ask |-> ask,
                 at |-> IF now - keys[k].used >= UseInterval THEN now ELSE Unused]
<1>2. k \in Nat /\ keys[k] \in KeyRows
  BY DEF Inv, Types, Issued
<1>3. now \in Instants /\ Unused \in Instants
  BY Numbers DEF Inv, Types, Instants, Unused
<1>4. t \in Transactions
  BY <1>2, <1>3 DEF Transactions
<1>5. k = IF t.step = "write" THEN t.ask.target ELSE t.key
  OBVIOUS
<1>6. Alike(t.seen, keys[k])
  BY DEF Alike
<1>7. UNCHANGED << keys, parent, deadline, contested, now >> /\ req' = [req EXCEPT ![r] = t]
  BY <1>1 DEF Begin
<1> HIDE DEF t
<1>8. QED
  BY <1>4, <1>5, <1>6, <1>7, GoesOn

LEMMA TouchKeeps ==
  ASSUME Inv, NEW r \in Requests, Touch(r)
  PROVE  Inv'
<1> DEFINE t == [req[r] EXCEPT !.touched = TRUE, !.step = "handler"]
<1>1. req[r].step = "touch" /\ req[r] \in Transactions
  BY Known DEF Touch
<1>2. t \in Transactions /\ t.step = "handler" /\ t.key = req[r].key /\ t.seen = req[r].seen
  BY <1>1 DEF Transactions
<1>3. req[r].key \in Issued /\ Alike(req[r].seen, keys[req[r].key])
  BY <1>1, Known DEF ReadOf
<1>4. UNCHANGED << keys, parent, deadline, contested, now >> /\ req' = [req EXCEPT ![r] = t]
  BY DEF Touch
<1> HIDE DEF t
<1>5. QED
  BY <1>2, <1>3, <1>4, GoesOn

LEMMA LoadKeeps ==
  ASSUME Inv, NEW r \in Requests, Load(r)
  PROVE  Inv'
<1> DEFINE k == req[r].ask.target
           t == [req[r] EXCEPT !.seen = Loaded(r, k), !.step = "write"]
<1>1. req[r].step = "handler" /\ req[r] \in Transactions
  BY Known DEF Load
<1>2. k \in Issued
  BY DEF Load, MayRevoke, MayRotate, Manageable
<1>3. Loaded(r, k) \in KeyRows /\ Alike(Loaded(r, k), keys[k])
  <2>1. CASE k = req[r].key
    <3>1. Loaded(r, k) = req[r].seen /\ ReadOf(r) = k
      BY <1>1, <2>1 DEF Loaded, ReadOf
    <3>2. QED
      BY <1>1, <3>1, Known
  <2>2. CASE k # req[r].key
    <3>1. Loaded(r, k) = keys[k]
      BY <2>2 DEF Loaded
    <3>2. keys[k] \in KeyRows
      BY <1>2 DEF Inv, Types, Issued
    <3>3. QED
      BY <3>1, <3>2 DEF Alike
  <2>3. QED
    BY <2>1, <2>2
<1>4. t \in Transactions /\ t.step = "write" /\ t.ask.target = k /\ t.seen = Loaded(r, k)
  BY <1>1, <1>3 DEF Transactions
<1>5. UNCHANGED << keys, parent, deadline, contested, now >> /\ req' = [req EXCEPT ![r] = t]
  BY DEF Load
<1> HIDE DEF t, k
<1>6. QED
  BY <1>2, <1>3, <1>4, <1>5, GoesOn

LEMMA IssueActionKeeps ==
  ASSUME Inv, NEW r \in Requests, Issue(r)
  PROVE  Inv'
<1> DEFINE row == NewRow(req[r].ask.key)
<1>1. /\ req[r].step = "handler" /\ req[r] \in Transactions /\ req[r].ask.op = "issue"
      /\ MayIssue(r) /\ now' = now /\ contested' = contested
      /\ CommitWith(r, NoCut, row, req[r].key) /\ deadline' = Append(deadline, row.expires)
  BY Known DEF Issue, Handles
<1>2. req[r].ask.key \in Wishes
  BY <1>1, Known, Numbers DEF Asks
<1>3. row \in KeyRows /\ row.app = req[r].ask.key.app /\ row.scoped = req[r].ask.key.scoped
  BY <1>2, NewRowType DEF Inv, Types
<1>4. req[r].key \in Issued /\ Alike(req[r].seen, keys[req[r].key])
  BY <1>1, Known DEF ReadOf
<1> HIDE DEF row
<1>5. Within(row, keys[req[r].key])
  BY <1>1, <1>3, <1>4 DEF MayIssue, InScope, Alike, Within
<1>6. row.expires \in Ends /\ deadline \in Seq(Ends) /\ Len(deadline) = Len(keys)
  BY <1>3 DEF KeyRows, Inv, Types
<1>7. /\ deadline' \in Seq(Ends) /\ Len(deadline') = Len(keys) + 1
      /\ deadline'[Len(keys) + 1] = row.expires
      /\ \A k \in 1..Len(keys) : deadline'[k] = deadline[k]
  <2> DEFINE longer == Append(deadline, row.expires)
  <2>1. /\ longer \in Seq(Ends) /\ Len(longer) = Len(keys) + 1
        /\ longer[Len(keys) + 1] = row.expires
        /\ \A k \in 1..Len(keys) : longer[k] = deadline[k]
    BY <1>6, Appended
  <2>2. deadline' = longer
    BY <1>1
  <2> HIDE DEF longer
  <2>3. QED
    BY <2>1, <2>2
<1>8. NoCut \in Cuts
  BY DEF Cuts
<1>9. \A k \in Issued \ contested' : Written(r, k, NoCut).expires = deadline'[k]
  <2> SUFFICES ASSUME NEW k \in Issued, k \notin contested'
               PROVE  Written(r, k, NoCut).expires = deadline'[k]
    OBVIOUS
  <2>1. Written(r, k, NoCut).expires = keys[k].expires
    BY <1>1, <1>8, WrittenType DEF Inv
  <2>2. keys[k].expires = deadline[k]
    BY <1>1 DEF Inv, GraceIsKept
  <2>3. k \in 1..Len(keys)
    BY DEF Inv, Types, Issued
  <2>4. QED
    BY <1>7, <2>1, <2>2, <2>3
<1>10. QED
  BY <1>1, <1>3, <1>4, <1>5, <1>7, <1>8, <1>9, IssueKeeps

\* What a rotation is about to write.
LEMMA RotationType ==
  ASSUME Inv, NEW r \in Requests, req[r].step = "write", req[r].ask.op = "rotate"
  PROVE  /\ req[r].ask.target \in Issued /\ req[r].ask.target \in KeyIds
         /\ req[r].seen \in KeyRows /\ Alike(req[r].seen, keys[req[r].ask.target])
         /\ At(now + req[r].ask.grace) \in Ends
         /\ Retirement(req[r].seen, req[r].ask.grace) \in Cuts
         /\ Announced(req[r].seen, req[r].ask.grace) \in Ends
<1>1. /\ req[r].ask \in Asks /\ req[r].seen \in KeyRows
      /\ req[r].ask.target \in Issued /\ Alike(req[r].seen, keys[req[r].ask.target])
  BY Known DEF ReadOf
<1>2. req[r].ask.target \in KeyIds /\ req[r].ask.grace \in Nat
  BY <1>1, Numbers DEF Asks
<1>3. now + req[r].ask.grace \in Nat
  BY <1>2, Numbers DEF Inv, Types
<1>4. At(now + req[r].ask.grace) \in Ends /\ Forever \in Ends
  BY <1>3 DEF Ends
<1>5. req[r].seen.expires \in Ends
  BY <1>1 DEF KeyRows
<1>6. Earlier(req[r].seen.expires, At(now + req[r].ask.grace)) \in Ends
  BY <1>4, <1>5, EarlierType
<1>7. Retirement(req[r].seen, req[r].ask.grace) \in Cuts
  BY <1>6 DEF Retirement, Cuts
<1>8. Announced(req[r].seen, req[r].ask.grace) \in Ends
  BY <1>4, <1>6 DEF Announced
<1>9. QED
  BY <1>1, <1>2, <1>4, <1>7, <1>8

LEMMA RotateKeeps ==
  ASSUME Inv, NEW r \in Requests, Rotate(r)
  PROVE  Inv'
<1> DEFINE old == req[r].ask.target
           row == req[r].seen
           grace == req[r].ask.grace
           cut == Retirement(row, grace)
           heir == Heir(row)
           end == Announced(row, grace)
           moved == [deadline EXCEPT ![old] = Earlier(@, end)]
<1>1. /\ req[r].step = "write" /\ req[r] \in Transactions /\ req[r].ask.op = "rotate"
      /\ CommitWith(r, cut, heir, old) /\ now' = now
      /\ deadline' = Append(moved, heir.expires)
      /\ contested' = IF row.expires # keys[old].expires THEN contested \cup {old} ELSE contested
  BY Known DEF Rotate
<1>2. /\ old \in Issued /\ row \in KeyRows /\ Alike(row, keys[old])
      /\ At(now + grace) \in Ends /\ cut \in Cuts /\ end \in Ends
  BY <1>1, RotationType
<1>3. heir \in KeyRows /\ Within(heir, keys[old])
  <2> DEFINE wish == [app |-> row.app, role |-> row.role, scoped |-> row.scoped, life |-> 0]
  <2>1. wish \in Wishes
    BY <1>2 DEF KeyRows, Wishes
  <2>2. heir \in KeyRows /\ heir.app = row.app /\ heir.scoped = row.scoped
    BY <2>1, NewRowType DEF Inv, Types, Heir
  <2>3. QED
    BY <1>2, <2>2 DEF Alike, Within
<1>4. /\ deadline \in Seq(Ends) /\ Len(deadline) = Len(keys) /\ Issued = 1..Len(keys)
      /\ Len(keys) \in Nat
  BY DEF Inv, Types, Issued
<1>5. /\ moved \in Seq(Ends) /\ Len(moved) = Len(keys)
      /\ moved[old] = Earlier(deadline[old], end)
      /\ \A k \in Issued \ {old} : moved[k] = deadline[k]
  <2>1. deadline[old] \in Ends
    BY <1>2, <1>4
  <2>2. Earlier(deadline[old], end) \in Ends
    BY <1>2, <2>1, EarlierType
  <2>3. QED
    BY <1>2, <1>4, <2>2
<1>6. heir.expires \in Ends
  BY <1>3 DEF KeyRows
<1>7. /\ deadline' \in Seq(Ends) /\ Len(deadline') = Len(keys) + 1
      /\ deadline'[Len(keys) + 1] = heir.expires
      /\ \A k \in 1..Len(keys) : deadline'[k] = moved[k]
  <2> DEFINE longer == Append(moved, heir.expires)
  <2> HIDE DEF moved, heir
  <2>1. /\ longer \in Seq(Ends) /\ Len(longer) = Len(keys) + 1
        /\ longer[Len(keys) + 1] = heir.expires
        /\ \A k \in 1..Len(keys) : longer[k] = moved[k]
    BY <1>5, <1>6, Appended
  <2>2. deadline' = longer
    BY <1>1
  <2> HIDE DEF longer
  <2>3. QED
    BY <2>1, <2>2
<1>8. ASSUME NEW k \in Issued, k \notin contested'
      PROVE  Written(r, k, cut).expires = deadline'[k]
  <2>1. k \notin contested /\ deadline'[k] = moved[k] /\ keys[k].expires = deadline[k]
    BY <1>1, <1>4, <1>7, <1>8 DEF Inv, GraceIsKept
  <2>2. Written(r, k, cut).expires =
          IF cut \in {NoCut, AtOnce} \/ old # k THEN keys[k].expires ELSE cut.at
    BY <1>1, <1>2, WrittenType DEF Inv
  <2>3. CASE k # old
    BY <1>5, <2>1, <2>2, <2>3
  <2>4. CASE k = old
    <3>1. row.expires = keys[old].expires /\ row.expires \in Ends
      BY <1>1, <1>2, <1>8, <2>4 DEF KeyRows
    <3>2. deadline'[k] = Earlier(row.expires, end)
      BY <1>5, <2>1, <2>4, <3>1
    <3>3. CASE grace = 0
      <4>1. cut = AtOnce /\ end = Forever
        BY <3>3 DEF Retirement, Announced
      <4>2. Written(r, k, cut).expires = row.expires
        BY <2>2, <2>4, <3>1, <4>1
      <4>3. QED
        BY <3>1, <3>2, <4>1, <4>2, EarlierTwice, <1>2
    <3>4. CASE grace # 0
      <4> DEFINE lapse == Earlier(row.expires, At(now + grace))
      <4>1. end = lapse /\ Earlier(row.expires, end) = lapse
        BY <1>2, <3>1, <3>4, EarlierTwice DEF Announced
      <4>2. CASE lapse = row.expires
        <5>1. cut = NoCut
          BY <3>4, <4>2 DEF Retirement
        <5>2. QED
          BY <2>2, <3>1, <3>2, <2>4, <4>1, <4>2, <5>1
      <4>3. CASE lapse # row.expires
        <5>1. cut = [kind |-> "expires", at |-> lapse]
          BY <3>4, <4>3 DEF Retirement
        <5>2. cut \notin {NoCut, AtOnce} /\ cut.at = lapse
          BY <5>1 DEF NoCut, AtOnce
        <5>3. QED
          BY <2>2, <2>4, <3>2, <4>1, <5>2
      <4>4. QED
        BY <4>2, <4>3
    <3>5. QED
      BY <3>3, <3>4
  <2>5. QED
    BY <2>3, <2>4
<1> HIDE DEF old, row, grace, cut, heir, end, moved
<1>9. QED
  BY <1>1, <1>2, <1>3, <1>7, <1>8, IssueKeeps

LEMMA InitInv ==
  ASSUME Init
  PROVE  Inv
<1>1. now \in 0..MaxTime /\ FirstKeys \in Seq(Wishes)
  BY KeysAssumption DEF Init
<1> DEFINE n == Len(FirstKeys)
<1>2. \A k \in 1..n : NewRow(FirstKeys[k]) \in KeyRows
  <2> SUFFICES ASSUME NEW k \in 1..n PROVE NewRow(FirstKeys[k]) \in KeyRows
    OBVIOUS
  <2>1. FirstKeys[k] \in Wishes
    BY <1>1
  <2>2. QED
    BY <1>1, <2>1, NewRowType
<1>3. n \in Nat
  BY <1>1
<1> HIDE DEF n
<1>4. /\ keys = [k \in 1..n |-> NewRow(FirstKeys[k])]
      /\ parent = [k \in 1..n |-> 0]
      /\ deadline = [k \in 1..n |-> keys[k].expires]
      /\ req = [r \in Requests |-> Idle]
  BY DEF Init, n
<1>5. keys \in Seq(KeyRows) /\ Len(keys) = n /\ Issued = 1..n
  BY <1>2, <1>3, <1>4 DEF Issued
<1>6. parent \in Seq(Nat) /\ Len(parent) = n
  BY <1>3, <1>4
<1>7. \A k \in 1..n : keys[k].expires \in Ends
  BY <1>2, <1>4 DEF KeyRows
<1>8. deadline \in Seq(Ends) /\ Len(deadline) = n
  BY <1>3, <1>4, <1>7
<1>9. Types
  BY <1>1, <1>4, <1>5, <1>6, <1>8 DEF Types
<1>10. ReadsOK /\ Lineage /\ GraceIsKept
  BY <1>4, <1>5 DEF ReadsOK, Lineage, GraceIsKept
<1>11. QED
  BY <1>9, <1>10 DEF Inv

\* A transaction leaves the rows that are revoked so.
LEMMA RevokedStays ==
  ASSUME Inv, NEW r \in Requests, req[r].step # "idle", NEW cut \in Cuts, NEW row, NEW from,
         Commit(r, cut) \/ CommitWith(r, cut, row, from),
         NEW k \in Issued, keys[k].revoked
  PROVE  keys'[k].revoked
<1> DEFINE rows == [i \in Issued |-> Written(r, i, cut)]
<1>1. Types /\ req[r] \in Transactions /\ Issued = 1..Len(keys) /\ Len(keys) \in Nat
  BY Known DEF Inv, Types, Issued
<1>2. rows \in Seq(KeyRows) /\ Len(rows) = Len(keys) /\ rows[k].revoked
  <2>1. rows \in Seq(KeyRows) /\ Len(rows) = Len(keys) /\ rows[k] = Written(r, k, cut)
    BY <1>1, RowsType
  <2>2. QED
    BY <1>1, <2>1, WrittenType
<1>3. keys' = rows \/ keys' = Append(rows, row)
  BY DEF Commit, CommitWith
<1> HIDE DEF rows
<1>4. Append(rows, row)[k] = rows[k]
  BY <1>1, <1>2
<1>5. QED
  BY <1>2, <1>3, <1>4

LEMMA NextKeeps ==
  ASSUME Inv, [Next]_vars
  PROVE  Inv'
<1>1. ASSUME NEW r \in Requests, Use(r) PROVE Inv'
  <2>1. req[r].step = "handler" /\ req[r] \in Transactions
    BY <1>1, Known DEF Use, Handles
  <2>2. QED
    BY <1>1, <2>1, CommitKeeps DEF Use
<1>2. ASSUME NEW r \in Requests, Revoke(r) PROVE Inv'
  <2>1. req[r].step = "write" /\ req[r] \in Transactions
    BY <1>2, Known DEF Revoke
  <2>2. (IF req[r].seen.revoked THEN NoCut ELSE AtOnce) \in {NoCut, AtOnce}
    OBVIOUS
  <2>3. QED
    BY <1>2, <2>1, <2>2, CommitKeeps DEF Revoke
<1>3. ASSUME NEW r \in Requests, Refuse(r) \/ Abort(r) \/ DeadlockVictim(r) PROVE Inv'
  BY <1>3, Ends0 DEF Refuse, Abort, DeadlockVictim
<1>4. CASE Tick
  <2>1. UNCHANGED << keys, parent, deadline, contested, req >>
    BY <1>4 DEF Tick
  <2>2. now' \in 0..MaxTime
    BY <1>4, Numbers DEF Tick, Inv, Types
  <2>3. Types'
    BY <2>1, <2>2 DEF Inv, Types
  <2>4. ReadsOK' /\ Lineage' /\ GraceIsKept'
    BY <2>1 DEF Inv, ReadsOK, ReadOf, Lineage, GraceIsKept, Issued, Within, Alike
  <2>5. QED
    BY <2>3, <2>4 DEF Inv
<1>5. CASE UNCHANGED vars
  <2>1. Types'
    BY <1>5 DEF Inv, Types, vars
  <2>2. ReadsOK' /\ Lineage' /\ GraceIsKept'
    BY <1>5 DEF vars, Inv, ReadsOK, ReadOf, Lineage, GraceIsKept, Issued, Within, Alike
  <2>3. QED
    BY <2>1, <2>2 DEF Inv
<1>6. QED
  BY <1>1, <1>2, <1>3, <1>4, <1>5, BeginKeeps, TouchKeeps, LoadKeeps, IssueActionKeeps,
     RotateKeeps DEF Next

-----------------------------------------------------------------------------
(* Theorems *)

THEOREM Invariance == Spec => []Inv
<1>1. Init => Inv
  BY InitInv
<1>2. Inv /\ [Next]_vars => Inv'
  BY NextKeeps
<1>3. QED
  BY <1>1, <1>2, PTL DEF Spec

\* What a key brings about, over any chain of keys that are issued or rotated
\* meanwhile, stays in its scope and in sight of its holder.
THEOREM ScopesInherit == Spec => []ScopeIsInherited
<1>1. ASSUME Inv PROVE ScopeIsInherited
  <2> SUFFICES ASSUME NEW k \in Issued, parent[k] # 0
               PROVE  /\ k \in Listed(keys[parent[k]])
                      /\ keys[parent[k]].scoped =>
                           keys[k].scoped /\ keys[k].app = keys[parent[k]].app
    BY DEF ScopeIsInherited
  <2>1. Within(keys[k], keys[parent[k]])
    BY <1>1 DEF Inv, Lineage
  <2>2. QED
    BY <2>1 DEF Within, Listed
<1>2. QED
  BY <1>1, Invariance, PTL

\* However many rotations of a key follow each other, it stops working when the
\* first of them to be over said so, unless two of them overlapped.
THEOREM GraceKept == Spec => []GraceIsKept
<1>1. Inv => GraceIsKept
  BY DEF Inv
<1>2. QED
  BY <1>1, Invariance, PTL

\* No interleaving of requests that have read a key brings it back.
THEOREM StaysRevoked == Spec => RevokedForGood
<1>1. ASSUME Inv, [Next]_vars
      PROVE  [\A k \in Issued : keys[k].revoked => keys'[k].revoked]_vars
  <2> SUFFICES ASSUME NEW k \in Issued, keys[k].revoked PROVE keys'[k].revoked
    OBVIOUS
  <2>1. CASE keys' = keys
    BY <2>1
  <2>2. ASSUME NEW r \in Requests, Use(r) \/ Revoke(r) \/ Issue(r) \/ Rotate(r)
        PROVE  keys'[k].revoked
    <3>1. req[r].step # "idle" /\ NoCut \in Cuts /\ AtOnce \in Cuts
      BY <2>2 DEF Use, Revoke, Issue, Rotate, Handles, Cuts
    <3>2. CASE Use(r)
      BY <1>1, <3>1, <3>2, RevokedStays DEF Use
    <3>3. CASE Revoke(r)
      <4>1. (IF req[r].seen.revoked THEN NoCut ELSE AtOnce) \in Cuts
        BY <3>1
      <4>2. QED
        BY <1>1, <3>1, <3>3, <4>1, RevokedStays DEF Revoke
    <3>4. CASE Issue(r)
      BY <1>1, <3>1, <3>4, RevokedStays DEF Issue
    <3>5. CASE Rotate(r)
      <4>1. Retirement(req[r].seen, req[r].ask.grace) \in Cuts
        BY <1>1, <3>5, RotationType DEF Rotate
      <4>2. QED
        BY <1>1, <3>1, <3>5, <4>1, RevokedStays DEF Rotate
    <3>6. QED
      BY <2>2, <3>2, <3>3, <3>4, <3>5
  <2>3. (\E r \in Requests : Use(r) \/ Revoke(r) \/ Issue(r) \/ Rotate(r)) \/ keys' = keys
    BY <1>1 DEF Next, vars, Begin, Touch, Load, Refuse, Abort, DeadlockVictim, Tick
  <2>4. QED
    BY <2>1, <2>2, <2>3
<1>2. Inv /\ [Next]_vars => [\A k \in Issued : keys[k].revoked => keys'[k].revoked]_vars
  BY <1>1
<1>3. QED
  BY <1>2, Invariance, PTL DEF Spec, RevokedForGood

=============================================================================
