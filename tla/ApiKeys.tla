-------------------------------- MODULE ApiKeys --------------------------------
(***************************************************************************)
(* The API keys of SentinelLLM: how a request authenticates (api/deps.py)  *)
(* and how keys are issued, revoked and rotated                            *)
(* (api/routers/applications.py).                                          *)
(*                                                                         *)
(* A request is one READ COMMITTED transaction.  It reads its own key when *)
(* it authenticates and, at most once an interval, updates that row's      *)
(* last_used_at, which locks the row until the request ends.  What it does *)
(* to another key is based on one read of that row and written later,      *)
(* column by column; the UPDATE waits for whoever holds the row.           *)
(***************************************************************************)
EXTENDS Integers, FiniteSets, Sequences

CONSTANTS
    Apps,
    Requests,       \* requests in flight at a time
    MaxKeys,        \* bound: the keys there will ever be
    MaxTime,        \* bound on the clock
    UseInterval,    \* _LAST_USED_INTERVAL
    Graces,         \* grace_minutes a rotation may ask for
    Issuable,       \* what clients ask of a new key: its app, role, scope and
                    \* lifetime (0 for none)
    FirstKeys       \* the same of the keys there are to begin with

KeyIds == 1..MaxKeys
Roles == {"read", "write", "admin"}
Wishes == [app : Apps, role : Roles, scoped : BOOLEAN, life : Nat]

ASSUME KeysAssumption ==
    /\ MaxKeys \in Nat \ {0}
    /\ MaxTime \in Nat
    /\ UseInterval \in Nat \ {0}
    /\ Graces \subseteq Nat
    /\ Issuable \subseteq Wishes
    /\ FirstKeys \in Seq(Wishes)


\* Instants: -UseInterval stands for "never used".
Unused == -UseInterval
Instants == Unused..MaxTime

\* An expiry is an instant, or [never |-> TRUE]: expires_at is NULL.
Forever == [never |-> TRUE, at |-> 0]
At(t) == [never |-> FALSE, at |-> t]
Expiries == [never : BOOLEAN, at : Nat]
Earlier(e, f) == IF e.never THEN f
                 ELSE IF f.never \/ e.at <= f.at THEN e ELSE f

Rows == [app : Apps, role : Roles, scoped : BOOLEAN, revoked : BOOLEAN,
         expires : Expiries, used : Instants]

VARIABLES
    keys,       \* the committed rows, in the order of their creation
    parent,     \* history: per key, the key that issued it or that it replaces
    deadline,   \* history: per key, the earliest end a rotation announced
    contested,  \* history: the keys that two overlapping rotations wrote
    now,
    req         \* per request, its transaction

vars == << keys, parent, deadline, contested, now, req >>

Issued == DOMAIN keys

\* What a request asks for.  "use" is any endpoint that manages no key.
Asks ==
    [op : {"use"}]
    \cup [op : {"issue"}, key : Issuable]
    \cup [op : {"revoke"}, target : KeyIds]
    \cup [op : {"rotate"}, target : KeyIds, grace : Graces]

Idle == [step |-> "idle"]

\* The row of a new key: create_api_key, _expiry
NewRow(wish) ==
    [app |-> wish.app, role |-> wish.role, scoped |-> wish.scoped,
     revoked |-> FALSE, used |-> Unused,
     expires |-> IF wish.life = 0 THEN Forever ELSE At(now + wish.life)]

Init ==
    /\ now = 0
    /\ keys = [k \in 1..Len(FirstKeys) |-> NewRow(FirstKeys[k])]
    /\ parent = [k \in 1..Len(FirstKeys) |-> 0]
    /\ deadline = [k \in 1..Len(FirstKeys) |-> keys[k].expires]
    /\ contested = {}
    /\ req = [r \in Requests |-> Idle]

-----------------------------------------------------------------------------
(***************************************************************************)
(* Authentication.                                                         *)
(***************************************************************************)

\* get_current_api_key lets a key in that is neither revoked nor expired.
Live(row) == ~row.revoked /\ (row.expires.never \/ row.expires.at > now)

\* scope_of(key).contains(app)
InScope(row, app) == row.scoped => row.app = app

\* The bound on the keys: one is set aside for every request that adds one.
Room == Len(keys) + Cardinality({ r \in Requests :
                                    /\ req[r].step # "idle"
                                    /\ req[r].ask.op \in {"issue", "rotate"} }) < MaxKeys

\* A request with key k: what it read of its key, and whether last_used_at
\* is due.
Begin(r) ==
    /\ req[r].step = "idle"
    /\ \E k \in Issued, ask \in Asks :
          /\ Live(keys[k])
          /\ ask.op \in {"issue", "rotate"} => Room
          /\ LET due == now - keys[k].used >= UseInterval IN
             req' = [req EXCEPT ![r] =
                        [step |-> IF due THEN "touch" ELSE "handler", touched |-> FALSE,
                         key |-> k, seen |-> keys[k], ask |-> ask,
                         at |-> IF due THEN now ELSE Unused]]
    /\ UNCHANGED << keys, parent, deadline, contested, now >>

\* The row of its own key that a transaction has updated stays locked until
\* it ends.  (The row of its target it updates as the last thing it does.)
Holds(r, k) == req[r].step # "idle" /\ req[r].touched /\ req[r].key = k

\* The row an UPDATE of the request is about to lock.
Wants(r, k) ==
    \/ req[r].step = "touch" /\ req[r].key = k
    \/ req[r].step = "write" /\ req[r].ask.target = k

WaitsFor(r, q) == q # r /\ \E k \in Issued : Wants(r, k) /\ Holds(q, k)

Free(r) == \A q \in Requests : ~WaitsFor(r, q)

Touch(r) ==
    /\ req[r].step = "touch"
    /\ Free(r)
    /\ req' = [req EXCEPT ![r].touched = TRUE, ![r].step = "handler"]
    /\ UNCHANGED << keys, parent, deadline, contested, now >>

-----------------------------------------------------------------------------
(***************************************************************************)
(* What a request commits.                                                 *)
(***************************************************************************)

\* How a request retires its target: not, by `revoked', or by an expiry.
NoCut == [kind |-> "none"]
AtOnce == [kind |-> "revoked"]

\* Mutant: last_used_at is written with the rest of the row as it was read.
WrittenMutant(r, k, cut) ==
    IF req[r].touched /\ req[r].key = k /\ req[r].ask.op = "use"
    THEN [req[r].seen EXCEPT !.used = req[r].at]
    ELSE IF cut = AtOnce /\ req[r].ask.target = k
    THEN [keys[k] EXCEPT !.revoked = TRUE] ELSE keys[k]

\* The columns a transaction wrote, and no other.
Written(r, k, cut) ==
    LET row == IF req[r].touched /\ req[r].key = k
               THEN [keys[k] EXCEPT !.used = req[r].at] ELSE keys[k]
    IN IF cut = NoCut \/ req[r].ask.target # k THEN row
       ELSE IF cut = AtOnce THEN [row EXCEPT !.revoked = TRUE]
       ELSE [row EXCEPT !.expires = cut.at]

\* get_db commits when the handler has returned.
Commit(r, cut) ==
    /\ keys' = [k \in Issued |-> Written(r, k, cut)]
    /\ req' = [req EXCEPT ![r] = Idle]

CommitWith(r, cut, row, from) ==
    /\ keys' = Append([k \in Issued |-> Written(r, k, cut)], row)
    /\ parent' = Append(parent, from)
    /\ req' = [req EXCEPT ![r] = Idle]

-----------------------------------------------------------------------------
(***************************************************************************)
(* The handlers.  A refusal raises, and the session is closed without a    *)
(* commit: even last_used_at is lost.                                      *)
(***************************************************************************)

Handles(r, op) == req[r].step = "handler" /\ req[r].ask.op = op

\* The key a request reads in its handler: its own as it authenticated (the
\* session returns the object it has), another's as committed now.
Loaded(r, k) == IF k = req[r].key THEN req[r].seen ELSE keys[k]

\* _manageable_key
Manageable(r, k) ==
    /\ req[r].seen.role = "admin"
    /\ k \in Issued
    /\ InScope(req[r].seen, Loaded(r, k).app)

\* list_api_keys: what the holder of a key is shown of the keys there are.
Listed(row) == { k \in Issued : ~row.scoped \/ keys[k].app = row.app }

\* Mutant: a scoped key may issue unscoped ones.
MayIssueMutant(r) ==
    /\ req[r].seen.role = "admin"
    /\ InScope(req[r].seen, req[r].ask.key.app)

\* The guards of create_api_key.
MayIssue(r) ==
    /\ req[r].seen.role = "admin"
    /\ InScope(req[r].seen, req[r].ask.key.app)
    /\ req[r].seen.scoped => req[r].ask.key.scoped

MayRevoke(r) == Manageable(r, req[r].ask.target) /\ req[r].ask.target # req[r].key

MayRotate(r) == /\ Manageable(r, req[r].ask.target)
                /\ ~Loaded(r, req[r].ask.target).revoked

\* An endpoint that manages no key.
Use(r) ==
    /\ Handles(r, "use")
    /\ Commit(r, NoCut)
    /\ UNCHANGED << parent, deadline, contested, now >>

\* create_api_key
Issue(r) ==
    LET row == NewRow(req[r].ask.key) IN
    /\ Handles(r, "issue")
    /\ MayIssue(r)
    /\ CommitWith(r, NoCut, row, req[r].key)
    /\ deadline' = Append(deadline, row.expires)
    /\ UNCHANGED << contested, now >>

\* revoke_api_key and rotate_api_key read their target here and write it in a
\* later step.
Load(r) ==
    /\ req[r].step = "handler"
    /\ \/ req[r].ask.op = "revoke" /\ MayRevoke(r)
       \/ req[r].ask.op = "rotate" /\ MayRotate(r)
    /\ req' = [req EXCEPT ![r].seen = Loaded(r, req[r].ask.target), ![r].step = "write"]
    /\ UNCHANGED << keys, parent, deadline, contested, now >>

\* A key that was read as revoked is not written again.
Revoke(r) ==
    /\ req[r].step = "write" /\ req[r].ask.op = "revoke"
    /\ req[r].seen.revoked \/ Free(r)
    /\ Commit(r, IF req[r].seen.revoked THEN NoCut ELSE AtOnce)
    /\ UNCHANGED << parent, deadline, contested, now >>

\* Mutant: the grace period replaces an earlier expiry of the key.
RetirementMutant(row, grace) ==
    IF grace = 0 THEN AtOnce
    ELSE [kind |-> "expires", at |-> At(now + grace)]

\* How a rotation retires the key it has read: at once, or when the grace
\* period is over, and then never later than the key would have expired.
Retirement(row, grace) ==
    IF grace = 0 THEN AtOnce
    ELSE LET lapse == Earlier(row.expires, At(now + grace)) IN
         IF lapse = row.expires THEN NoCut ELSE [kind |-> "expires", at |-> lapse]

\* The replacement has the rights of the key it replaces.
Heir(row) == NewRow([app |-> row.app, role |-> row.role, scoped |-> row.scoped,
                     life |-> 0])

\* When a rotation said that the key it replaces would stop working.
Announced(row, grace) == IF grace = 0 THEN Forever ELSE Earlier(row.expires, At(now + grace))

Rotate(r) ==
    LET old == req[r].ask.target
        row == req[r].seen
        grace == req[r].ask.grace
        cut == Retirement(row, grace)
    IN
    /\ req[r].step = "write" /\ req[r].ask.op = "rotate"
    /\ cut = NoCut \/ Free(r)
    /\ CommitWith(r, cut, Heir(row), old)
    /\ deadline' = Append([deadline EXCEPT ![old] = Earlier(@, Announced(row, grace))],
                          Heir(row).expires)
    /\ contested' = IF row.expires # keys[old].expires THEN contested \cup {old} ELSE contested
    /\ UNCHANGED now

\* 403, 404 or 409.
Refuse(r) ==
    /\ \/ Handles(r, "issue") /\ ~MayIssue(r)
       \/ Handles(r, "revoke") /\ ~MayRevoke(r)
       \/ Handles(r, "rotate") /\ ~MayRotate(r)
    /\ req' = [req EXCEPT ![r] = Idle]
    /\ UNCHANGED << keys, parent, deadline, contested, now >>

\* An error in the handler, a client that hangs up, a crash: nothing is
\* committed.
Abort(r) ==
    /\ req[r].step \in {"handler", "write"}
    /\ req' = [req EXCEPT ![r] = Idle]
    /\ UNCHANGED << keys, parent, deadline, contested, now >>

\* The database ends one of the transactions that wait for each other.
DeadlockVictim(r) ==
    /\ \E S \in SUBSET Requests :
          /\ r \in S
          /\ \A s \in S : \E q \in S : WaitsFor(s, q)
    /\ req' = [req EXCEPT ![r] = Idle]
    /\ UNCHANGED << keys, parent, deadline, contested, now >>

Tick ==
    /\ now < MaxTime
    /\ now' = now + 1
    /\ UNCHANGED << keys, parent, deadline, contested, req >>

Next ==
    \/ \E r \in Requests :
          \/ Begin(r) \/ Touch(r) \/ Use(r) \/ Issue(r) \/ Load(r) \/ Revoke(r)
          \/ Rotate(r) \/ Refuse(r) \/ Abort(r) \/ DeadlockVictim(r)
    \/ Tick

Spec == Init /\ [][Next]_vars

-----------------------------------------------------------------------------
TypeOK ==
    /\ keys \in Seq(Rows)
    /\ Len(keys) <= MaxKeys
    /\ parent \in Seq(0..MaxKeys) /\ Len(parent) = Len(keys)
    /\ deadline \in Seq(Expiries) /\ Len(deadline) = Len(keys)
    /\ contested \subseteq KeyIds
    /\ now \in 0..MaxTime

\* A scoped key's descendants, issued by it or replacing it, over any chain
\* of keys and whoever rotates them, are scoped to its application, and none
\* of them, or of an unscoped key's, is hidden from the list it is shown:
\* what a key brings about its holder can find and revoke.
ScopeIsInherited ==
    \A k \in Issued :
       parent[k] # 0 =>
          /\ k \in Listed(keys[parent[k]])
          /\ keys[parent[k]].scoped =>
                keys[k].scoped /\ keys[k].app = keys[parent[k]].app

\* A rotation retires its key when it said it would, whatever rotations came
\* before and after: only a rotation that overlaps another one, and writes
\* the expiry it derived from an older read, can put the end off.
GraceIsKept ==
    \A k \in Issued \ contested : keys[k].expires = deadline[k]

\* No request brings a revoked key back: not one that read the row before,
\* and writes last_used_at or an expiry to it when it is revoked.
RevokedForGood ==
    [][\A k \in Issued : keys[k].revoked => keys'[k].revoked]_vars

\* The promise behind "a key can't revoke itself": some admin key works.  It
\* does not hold: a request acts on the key it authenticated with, which may
\* be revoked meanwhile, and requests in flight may revoke each other's.
AdminRemains ==
    (\A k \in Issued : keys[k].expires.never) =>
        \E k \in Issued : keys[k].role = "admin" /\ ~keys[k].revoked

=============================================================================
