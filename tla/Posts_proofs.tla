---------------------------- MODULE Posts_proofs ----------------------------
(***************************************************************************)
(* The optimistic concurrency control of posts, for any number of requests,*)
(* users, levels and posts: it implements the atomic PostStore.            *)
(***************************************************************************)
EXTENDS Posts, TLAPS

(***************************************************************************)
(* The inductive invariant.                                                *)
(***************************************************************************)
\* The sequence never draws an id again, so an id names one row for ever.
IdsDrawn ==
    /\ \A p \in PostIds : Exists(p) => p <= lastId /\ p \notin removed
    /\ \A p \in removed : p <= lastId

\* A copy is older than its row, or equal to it.  This is what makes version
\* a sound witness for the fields that the request did not send.
Copies ==
    \A q \in Reqs : post[q] # NoPost =>
        /\ id[q] <= lastId
        /\ Exists(id[q]) =>
               /\ post[q].owner = posts[id[q]].owner
               /\ post[q].version <= posts[id[q]].version
               /\ post[q].version = posts[id[q]].version
                      => post[q] = posts[id[q]]

\* Where a request is, and what it has found out by then.
Progress ==
    \A q \in Reqs :
        /\ pc[q] \in {"idle", "read"} => post[q] = NoPost
        /\ pc[q] \in {"read", "authorize"} => op[q] # "create"
        /\ pc[q] = "authorize" => post[q] # NoPost
        /\ pc[q] = "act" /\ op[q] \in {"update", "delete"} =>
               /\ post[q] # NoPost
               /\ \/ post[q].owner = user[q]
                  \/ Level[user[q]] >= RequiredLevel(op[q])
        /\ Updated(q) => post[q] # NoPost
        /\ reply[q] # "none" <=> pc[q] = "done"

\* A post that was deleted with a 204 is gone.
Deletions ==
    \A q \in Reqs : op[q] = "delete" /\ reply[q] = "no_content"
                        => id[q] \in removed

IInv ==
    /\ TypeOK /\ IdsDrawn /\ Copies /\ Progress /\ Deletions
    /\ VersionsUnique /\ DeletedOnce
-----------------------------------------------------------------------------
USE DEF PostIds, Fields, Ops, Replies, Exists, Goto, Answer, table, request,
        Updated, RequiredLevel, Moderator, Admin

\* What the rows of the table are made of.
LEMMA RowFields ==
    /\ NoPost \notin Row
    /\ \A row \in Row : /\ row.owner \in Users /\ row.title \in Reqs
                       /\ row.content \in Reqs /\ row.version \in Nat
  BY NoPostAssumption DEF Row

\* The row that a creation inserts.
LEMMA NewRow ==
    ASSUME NEW u \in Users, NEW q \in Reqs
    PROVE  LET row == [owner |-> u, title |-> q, content |-> q, version |-> 0]
           IN  row \in Row /\ row.version = 0
  BY DEF Row

\* An update that finds the version it has read replaces the row, and the
\* copy, by one of the same owner and the next version.
LEMMA WriteBackRow ==
    ASSUME TypeOK, NEW q \in Reqs, Matches(q), post[q] # NoPost, WriteBack(q)
    PROVE  \E row \in Row :
               /\ posts' = [posts EXCEPT ![id[q]] = row]
               /\ post' = [post EXCEPT ![q] = row]
               /\ row.owner = posts[id[q]].owner
               /\ row.version = posts[id[q]].version + 1
<1> DEFINE old == posts[id[q]]
           row == [owner |-> old.owner, title |-> Edited(q).title,
                   content |-> Edited(q).content,
                   version |-> old.version + 1]
<1>1. id[q] \in PostIds /\ old \in Row /\ post[q] \in Row
  BY DEF TypeOK, Matches
<1>2. Edited(q) \in Row
  BY <1>1 DEF Edited, Row
<1>3. row \in Row /\ row.owner = old.owner /\ row.version = old.version + 1
  BY <1>1, <1>2 DEF Row
<1>4. posts' = [posts EXCEPT ![id[q]] = row]
  BY DEF WriteBack
<1>5. post' = [post EXCEPT ![q] = row]
  BY <1>1, <1>4 DEF WriteBack, TypeOK
<1> QED
  BY <1>3, <1>4, <1>5

\* Initially no post exists and no request has a copy.
LEMMA InitIInv == Init => IInv
  BY MaxPostsAssumption, UsersAssumption, RowFields
     DEF Init, IInv, TypeOK, IdsDrawn, Copies, Progress, Deletions,
         VersionsUnique, DeletedOnce

\* A request that arrives has no copy and no answer.
LEMMA ArrivePreserves ==
    ASSUME IInv, NEW q \in Reqs, NEW o \in Ops, NEW u \in Users,
           NEW p \in PostIds, NEW fs \in SUBSET Fields, Arrive(q, o, u, p, fs)
    PROVE  IInv'
<1>1. TypeOK'
  BY DEF IInv, TypeOK, Arrive
<1>2. IdsDrawn'
  BY DEF IInv, IdsDrawn, Arrive
<1>3. Copies'
  BY DEF IInv, TypeOK, Copies, Progress, Arrive
<1>4. Progress'
  BY DEF IInv, TypeOK, Progress, Arrive
<1>5. reply[q] = "none" /\ reply' = reply /\ post' = post
  BY DEF IInv, TypeOK, Progress, Arrive
<1>6. \A s \in Reqs \ {q} : op'[s] = op[s] /\ id'[s] = id[s]
  BY DEF IInv, TypeOK, Arrive
<1>7. Deletions' /\ DeletedOnce'
  BY <1>5, <1>6 DEF IInv, Deletions, DeletedOnce, Arrive
<1>8. VersionsUnique'
  BY <1>5, <1>6 DEF IInv, VersionsUnique
<1> QED
  BY <1>1, <1>2, <1>3, <1>4, <1>7, <1>8 DEF IInv

\* A creation fills an id that no copy and no deletion can refer to.
LEMMA CreatePreserves ==
    ASSUME IInv, NEW q \in Reqs, Create(q)
    PROVE  IInv'
<1>1. PICK row \in Row : posts' = [posts EXCEPT ![lastId + 1] = row]
  BY NewRow DEF Create, IInv, TypeOK
<1>2. lastId + 1 \in PostIds /\ lastId' = lastId + 1
  BY MaxPostsAssumption DEF Create, IInv, TypeOK
<1>3. TypeOK'
  BY <1>1, <1>2 DEF Create, IInv, TypeOK
<1>4. IdsDrawn'
  BY <1>1, <1>2, RowFields DEF Create, IInv, TypeOK, IdsDrawn
<1>5. Copies'
  BY <1>1, <1>2 DEF Create, IInv, TypeOK, Copies
<1>6. Progress'
  BY DEF Create, IInv, TypeOK, Progress
<1>7. Deletions'
  BY DEF Create, IInv, TypeOK, Deletions
<1>8. VersionsUnique' /\ DeletedOnce'
  BY DEF Create, IInv, TypeOK, VersionsUnique, DeletedOnce
<1> QED
  BY <1>3, <1>4, <1>5, <1>6, <1>7, <1>8 DEF IInv

\* The copy that GetByID returns equals its row.
LEMMA ReadPostPreserves ==
    ASSUME IInv, NEW q \in Reqs, ReadPost(q)
    PROVE  IInv'
<1>1. CASE Exists(id[q])
  <2>1. posts[id[q]] \in Row /\ posts[id[q]] # NoPost
    BY <1>1 DEF IInv, TypeOK
  <2>2. pc' = [pc EXCEPT ![q] = IF op[q] = "get" THEN "act" ELSE "authorize"]
    BY <1>1 DEF ReadPost
  <2>3. /\ post' = [post EXCEPT ![q] = posts[id[q]]]
        /\ pc[q] = "read"
        /\ UNCHANGED <<posts, removed, lastId, op, user, id, fields, reply>>
    BY <1>1 DEF ReadPost
  <2>4. TypeOK'
    BY <2>1, <2>2, <2>3 DEF IInv, TypeOK
  <2>5. IdsDrawn' /\ Deletions' /\ DeletedOnce'
    BY <2>3 DEF IInv, IdsDrawn, Deletions, DeletedOnce
  <2>6. Copies'
    BY <1>1, <2>1, <2>3, RowFields DEF IInv, TypeOK, IdsDrawn, Copies
  <2>7. op[q] # "create"
    BY <2>3 DEF IInv, Progress
  <2>8. Progress'
    BY <2>1, <2>2, <2>3, <2>7 DEF IInv, TypeOK, Progress
  <2>9. VersionsUnique'
    BY <2>3 DEF IInv, TypeOK, Progress, VersionsUnique
  <2> QED
    BY <2>4, <2>5, <2>6, <2>8, <2>9 DEF IInv
<1>2. CASE ~Exists(id[q])
  <2>1. /\ Answer(q, "not_found")
        /\ UNCHANGED <<posts, removed, lastId, op, user, id, fields, post>>
    BY <1>2 DEF ReadPost
  <2>2. TypeOK'
    BY <2>1 DEF IInv, TypeOK
  <2>3. IdsDrawn' /\ Copies'
    BY <2>1 DEF IInv, IdsDrawn, Copies
  <2>4. Progress'
    BY <2>1 DEF IInv, TypeOK, Progress
  <2>5. Deletions' /\ VersionsUnique' /\ DeletedOnce'
    BY <2>1 DEF IInv, TypeOK, Deletions, VersionsUnique, DeletedOnce
  <2> QED
    BY <2>2, <2>3, <2>4, <2>5 DEF IInv
<1> QED
  BY <1>1, <1>2

\* A request that only answers, with nothing that acknowledges a change.
LEMMA AnswerPreserves ==
    ASSUME IInv, NEW q \in Reqs, pc[q] # "idle",
           NEW status \in Replies \ {"none"},
           Answer(q, status),
           status = "ok" => op[q] # "update",
           status = "no_content" => op[q] # "delete",
           UNCHANGED <<table, request, post>>
    PROVE  IInv'
<1>1. TypeOK'
  BY DEF IInv, TypeOK
<1>2. IdsDrawn' /\ Copies'
  BY DEF IInv, IdsDrawn, Copies
<1>3. Progress'
  BY DEF IInv, TypeOK, Progress
<1>4. Deletions' /\ VersionsUnique' /\ DeletedOnce'
  BY DEF IInv, TypeOK, Deletions, VersionsUnique, DeletedOnce
<1> QED
  BY <1>1, <1>2, <1>3, <1>4 DEF IInv

\* The owner, or a role that is high enough, passes; others are answered 403.
LEMMA AuthorizePreserves ==
    ASSUME IInv, NEW q \in Reqs, Authorize(q)
    PROVE  IInv'
<1> DEFINE Allowed == \/ post[q].owner = user[q]
                      \/ Level[user[q]] >= RequiredLevel(op[q])
<1>1. CASE Allowed
  <2>1. /\ pc[q] = "authorize" /\ pc' = [pc EXCEPT ![q] = "act"]
        /\ UNCHANGED <<table, request, post, reply>>
    BY <1>1 DEF Authorize
  <2>2. TypeOK'
    BY <2>1 DEF IInv, TypeOK
  <2>3. IdsDrawn' /\ Copies' /\ Deletions' /\ VersionsUnique' /\ DeletedOnce'
    BY <2>1 DEF IInv, IdsDrawn, Copies, Deletions, VersionsUnique, DeletedOnce
  <2>4. Progress'
    BY <1>1, <2>1 DEF IInv, TypeOK, Progress
  <2> QED
    BY <2>2, <2>3, <2>4 DEF IInv
<1>2. CASE ~Allowed
  BY <1>2, AnswerPreserves DEF Authorize
<1> QED
  BY <1>1, <1>2

\* An update that matches gives its row, and its copy, a version above that
\* of every other copy.
LEMMA WriteBackPreserves ==
    ASSUME IInv, NEW q \in Reqs, pc[q] = "act", op[q] = "update", Matches(q),
           WriteBack(q), NEW status \in {"ok", "error"}, Answer(q, status),
           UNCHANGED <<removed, lastId, request>>
    PROVE  IInv'
<1>1. TypeOK /\ post[q] # NoPost
  BY DEF IInv, Progress
<1>2. PICK row \in Row :
        /\ posts' = [posts EXCEPT ![id[q]] = row]
        /\ post' = [post EXCEPT ![q] = row]
        /\ row.owner = posts[id[q]].owner
        /\ row.version = posts[id[q]].version + 1
  BY <1>1, WriteBackRow
<1>3. posts[id[q]] \in Row /\ id[q] \in PostIds /\ row # NoPost
  BY <1>1, RowFields DEF TypeOK, Matches
<1>4. TypeOK'
  BY <1>1, <1>2, <1>3 DEF TypeOK
<1>5. IdsDrawn'
  BY <1>2, <1>3 DEF IInv, TypeOK, IdsDrawn, Matches
<1>6. Copies'
  <2> SUFFICES ASSUME NEW s \in Reqs, post'[s] # NoPost, Exists(id[s])'
               PROVE  /\ post'[s].owner = posts'[id[s]].owner
                      /\ post'[s].version <= posts'[id[s]].version
                      /\ post'[s].version = posts'[id[s]].version
                             => post'[s] = posts'[id[s]]
    BY <1>2, <1>3 DEF IInv, TypeOK, Copies, IdsDrawn, Matches
  <2>1. CASE s = q
    BY <1>2, <1>3, <2>1, RowFields DEF IInv, TypeOK
  <2>2. CASE s # q /\ id[s] = id[q]
    <3>1. post'[s] = post[s] /\ post[s] \in Row /\ posts'[id[s]] = row
      BY <1>1, <1>2, <1>3, <2>2 DEF TypeOK
    <3>2. /\ post[s].owner = posts[id[q]].owner
          /\ post[s].version <= posts[id[q]].version
      BY <2>2, <3>1 DEF IInv, Copies, Matches
    <3> QED
      BY <1>2, <1>3, <3>1, <3>2, RowFields
  <2>3. CASE s # q /\ id[s] # id[q]
    <3>1. post'[s] = post[s] /\ posts'[id[s]] = posts[id[s]]
      BY <1>1, <1>2, <2>3 DEF TypeOK
    <3> QED
      BY <3>1 DEF IInv, Copies
  <2> QED
    BY <2>1, <2>2, <2>3
<1>7. Progress'
  BY <1>2, <1>3 DEF IInv, TypeOK, Progress
<1>8. Deletions' /\ DeletedOnce'
  BY DEF IInv, TypeOK, Deletions, DeletedOnce
<1>9. VersionsUnique'
  <2>1. ASSUME NEW s \in Reqs \ {q}, Updated(s), id[s] = id[q]
        PROVE  post[s].version < row.version
    <3>1. post[s] # NoPost /\ post[s] \in Row
      BY <2>1 DEF IInv, TypeOK, Progress
    <3>2. post[s].version <= posts[id[q]].version
      BY <2>1, <3>1 DEF IInv, Copies, Matches
    <3> QED
      BY <1>2, <1>3, <3>1, <3>2, RowFields
  <2>2. \A s \in Reqs \ {q} : reply'[s] = reply[s] /\ post'[s] = post[s]
    BY <1>1, <1>2 DEF TypeOK
  <2>3. post'[q] = row
    BY <1>1, <1>2 DEF TypeOK
  <2>4. row.version \in Nat
    BY RowFields
  <2>5. \A s \in Reqs \ {q} : Updated(s) => post[s] \in Row
    BY DEF IInv, TypeOK, Progress
  <2> QED
    BY <2>1, <2>2, <2>3, <2>4, <2>5, RowFields DEF IInv, VersionsUnique
<1> QED
  BY <1>4, <1>5, <1>6, <1>7, <1>8, <1>9 DEF IInv

\* Update writes a matching row and answers 500 without one.
LEMMA UpdatePreserves ==
    ASSUME IInv, NEW q \in Reqs, Update(q)
    PROVE  IInv'
  BY WriteBackPreserves, AnswerPreserves DEF Update

\* Delete removes a row, or answers 404.
LEMMA DeletePreserves ==
    ASSUME IInv, NEW q \in Reqs, Delete(q)
    PROVE  IInv'
<1>1. CASE Exists(id[q])
  <2>1. /\ posts' = [posts EXCEPT ![id[q]] = NoPost]
        /\ removed' = removed \cup {id[q]}
        /\ Answer(q, "no_content")
        /\ UNCHANGED <<lastId, request, post>>
        /\ op[q] = "delete" /\ pc[q] = "act"
    BY <1>1 DEF Delete
  <2>2. id[q] \in PostIds /\ id[q] \notin removed /\ id[q] <= lastId
    BY <1>1 DEF IInv, TypeOK, IdsDrawn
  <2>3. TypeOK'
    BY <2>1, <2>2 DEF IInv, TypeOK
  <2>4. IdsDrawn'
    BY <2>1, <2>2 DEF IInv, TypeOK, IdsDrawn
  <2>5. Copies'
    BY <2>1, <2>2 DEF IInv, TypeOK, Copies
  <2>6. Progress'
    BY <2>1 DEF IInv, TypeOK, Progress
  <2>7. Deletions'
    BY <2>1 DEF IInv, TypeOK, Deletions
  <2>8. VersionsUnique'
    BY <2>1 DEF IInv, TypeOK, VersionsUnique
  <2>9. DeletedOnce'
    BY <2>1, <2>2 DEF IInv, TypeOK, Deletions, DeletedOnce
  <2> QED
    BY <2>3, <2>4, <2>5, <2>6, <2>7, <2>8, <2>9 DEF IInv
<1>2. CASE ~Exists(id[q])
  BY <1>2, AnswerPreserves DEF Delete
<1> QED
  BY <1>1, <1>2

\* Every step keeps the invariant.
LEMMA NextPreserves == IInv /\ [Next]_vars => IInv'
<1> SUFFICES ASSUME IInv, [Next]_vars PROVE IInv'
  OBVIOUS
<1>1. ASSUME NEW q \in Reqs, Step(q) PROVE IInv'
  <2>1. CASE Get(q) \/ Fails(q)
    BY <2>1, AnswerPreserves DEF Get, Fails
  <2>2. CASE UpdateUnacknowledged(q)
    BY <2>2, WriteBackPreserves DEF UpdateUnacknowledged
  <2> QED
    BY <1>1, <2>1, <2>2, CreatePreserves, ReadPostPreserves,
       AuthorizePreserves, UpdatePreserves, DeletePreserves DEF Step
<1>2. CASE UNCHANGED vars
  BY <1>2 DEF vars, IInv, TypeOK, IdsDrawn, Copies, Progress, Deletions,
              VersionsUnique, DeletedOnce
<1> QED
  BY <1>1, <1>2, ArrivePreserves DEF Next

\* The invariant holds in every reachable state.
THEOREM Invariance == Spec => []IInv
  BY InitIInv, NextPreserves, PTL DEF Spec

\* Types.
THEOREM TypeCorrect == Spec => []TypeOK
<1>1. IInv => TypeOK
  BY DEF IInv
<1> QED
  BY <1>1, Invariance, PTL

\* No two PATCHes of a post are told the same version.
THEOREM VersionsAlwaysUnique == Spec => []VersionsUnique
<1>1. IInv => VersionsUnique
  BY DEF IInv
<1> QED
  BY <1>1, Invariance, PTL

\* At most one DELETE of a post answers 204.
THEOREM AlwaysDeletedOnce == Spec => []DeletedOnce
<1>1. IInv => DeletedOnce
  BY DEF IInv
<1> QED
  BY <1>1, Invariance, PTL
-----------------------------------------------------------------------------
(* Posts implements PostStore.                                             *)

\* A write-back is the patch of the row that is there now: the fields that
\* were not sent are equal in the copy and in the row.
LEMMA WriteBackRefines ==
    ASSUME IInv, NEW q \in Reqs, pc[q] = "act", op[q] = "update", Matches(q),
           WriteBack(q), UNCHANGED removed
    PROVE  Store!Patch(user[q], id[q], fields[q], q)
<1>1. posts[id[q]] = post[q] /\ post[q] \in Row /\ id[q] \in PostIds
  BY DEF IInv, TypeOK, Progress, Copies, Matches
<1>2. /\ Edited(q).title = IF "title" \in fields[q] THEN q ELSE post[q].title
      /\ Edited(q).content = IF "content" \in fields[q] THEN q
                                                       ELSE post[q].content
  BY <1>1 DEF Edited, Row
<1>3. Store!Exists(id[q]) /\ Store!May(user[q], id[q], Moderator)
  BY <1>1 DEF IInv, Progress, Matches, Store!Exists, Store!May
<1> QED
  BY <1>1, <1>2, <1>3 DEF WriteBack, Store!Patch

\* Every step is a step of PostStore or changes no post.
LEMMA StepRefines ==
    IInv /\ [Next]_vars => [Store!Next]_<<posts, removed>>
<1> SUFFICES ASSUME IInv, [Next]_vars
             PROVE  Store!Next \/ UNCHANGED <<posts, removed>>
  OBVIOUS
<1>1. ASSUME NEW q \in Reqs, Create(q) PROVE Store!Next
  <2>1. /\ lastId + 1 \in PostIds /\ user[q] \in Users
        /\ ~Exists(lastId + 1) /\ lastId + 1 \notin removed
    BY <1>1, MaxPostsAssumption DEF Create, IInv, TypeOK, IdsDrawn
  <2>2. Store!Create(user[q], lastId + 1, q)
    BY <1>1, <2>1 DEF Create, Store!Create, Store!Exists
  <2> QED
    BY <2>1, <2>2 DEF Store!Next
<1>2. ASSUME NEW q \in Reqs, pc[q] = "act", op[q] = "update", Matches(q),
             WriteBack(q), UNCHANGED removed
      PROVE  Store!Next
  <2>1. user[q] \in Users /\ id[q] \in PostIds /\ fields[q] \in SUBSET Fields
    BY DEF IInv, TypeOK
  <2> QED
    BY <1>2, <2>1, WriteBackRefines DEF Store!Next, Store!Fields
<1>3. ASSUME NEW q \in Reqs, Delete(q)
      PROVE  Store!Next \/ UNCHANGED <<posts, removed>>
  <2>1. CASE Exists(id[q])
    <3>1. user[q] \in Users /\ id[q] \in PostIds
      BY DEF IInv, TypeOK
    <3>2. Store!May(user[q], id[q], Admin)
      BY <1>3, <2>1 DEF Delete, IInv, Progress, Copies, Store!May
    <3>3. Store!Remove(user[q], id[q])
      BY <1>3, <2>1, <3>2 DEF Delete, Store!Remove, Store!Exists
    <3> QED
      BY <3>1, <3>3 DEF Store!Next
  <2> QED
    BY <1>3, <2>1 DEF Delete
<1>4. ASSUME NEW q \in Reqs, Step(q)
      PROVE  Store!Next \/ UNCHANGED <<posts, removed>>
  BY <1>1, <1>2, <1>3, <1>4
     DEF Step, ReadPost, Authorize, Get, Update, Fails, UpdateUnacknowledged
<1> QED
  BY <1>4 DEF Next, Arrive, vars

\* Concurrent creations, updates and deletions of posts, each in several
\* steps with a copy in between, implement the atomic PostStore: no update is
\* lost, and each change is made by a user who may make it then.
THEOREM ImplementsPostStore == Spec => PostStoreSpec
<1>1. Init => Store!Init
  BY DEF Init, Store!Init
<1> QED
  BY <1>1, StepRefines, Invariance, PTL DEF Spec, PostStoreSpec, Store!Spec
-----------------------------------------------------------------------------
(* Who wins a conflict.  An answer that is lost or a failure would be an   *)
(* error without a winner: the invariant is about runs without them.       *)

\* Somebody was told that he wrote version v of p.
Wrote(p, v) ==
    \E s \in Reqs : Updated(s) /\ id[s] = p /\ post[s].version = v

\* Every version of a post but the first is one that somebody was told of.
VersionsWritten ==
    \A p \in PostIds : Exists(p) => \A v \in 1..posts[p].version : Wrote(p, v)

Refused(q) == pc[q] = "done" /\ op[q] = "update" /\ reply[q] = "error"

\* Who was refused had read a version that is no longer the last.
RefusedIsBehind ==
    \A q \in Reqs : Refused(q) =>
        /\ post[q] # NoPost
        /\ Exists(id[q]) => post[q].version < posts[id[q]].version

CInv == VersionsWritten /\ RefusedIsBehind

\* A step of q leaves the other requests alone, and q was not done before it.
LEMMA OthersKept ==
    ASSUME IInv, NEW q \in Reqs,
           \/ Step(q)
           \/ \E o \in Ops, u \in Users, p \in PostIds, fs \in SUBSET Fields :
                  Arrive(q, o, u, p, fs)
    PROVE  /\ pc[q] # "done" /\ reply[q] = "none"
           /\ \A s \in Reqs \ {q} :
                  /\ pc'[s] = pc[s] /\ op'[s] = op[s] /\ id'[s] = id[s]
                  /\ post'[s] = post[s] /\ reply'[s] = reply[s]
<1>1. pc[q] # "done"
  BY DEF Step, Arrive, Create, ReadPost, Authorize, Get, Update, Delete, Fails,
         UpdateUnacknowledged
<1>2. reply[q] = "none"
  BY <1>1 DEF IInv, Progress
<1>3. ASSUME Matches(q), WriteBack(q), pc[q] = "act", op[q] = "update"
      PROVE  \A s \in Reqs \ {q} : post'[s] = post[s]
  BY <1>3, WriteBackRow DEF IInv, TypeOK, Progress
<1>4. \A s \in Reqs \ {q} : post'[s] = post[s]
  BY <1>3 DEF IInv, TypeOK, Step, Arrive, Create, ReadPost, Authorize, Get,
              Update, Delete, Fails, UpdateUnacknowledged
<1>5. \A s \in Reqs \ {q} : /\ pc'[s] = pc[s] /\ op'[s] = op[s]
                            /\ id'[s] = id[s] /\ reply'[s] = reply[s]
  BY DEF IInv, TypeOK, Step, Arrive, Create, ReadPost, Authorize, Get, Update,
         Delete, Fails, UpdateUnacknowledged
<1> QED
  BY <1>1, <1>2, <1>4, <1>5

\* What was told stays true, whoever takes a step.
LEMMA WroteKept ==
    ASSUME IInv, NEW q \in Reqs, NEW p, NEW v, Wrote(p, v),
           \/ Step(q)
           \/ \E o \in Ops, u \in Users, n \in PostIds, fs \in SUBSET Fields :
                  Arrive(q, o, u, n, fs)
    PROVE  Wrote(p, v)'
<1>1. PICK s \in Reqs : Updated(s) /\ id[s] = p /\ post[s].version = v
  BY DEF Wrote
<1>2. s # q
  BY <1>1, OthersKept
<1> QED
  BY <1>1, <1>2, OthersKept DEF Wrote

\* A step that changes no row, and refuses nobody but a copy that is behind.
LEMMA TableKeptPreserves ==
    ASSUME IInv, CInv, NEW q \in Reqs, posts' = posts,
           \/ Step(q)
           \/ \E o \in Ops, u \in Users, p \in PostIds, fs \in SUBSET Fields :
                  Arrive(q, o, u, p, fs),
           Refused(q)' => /\ post'[q] # NoPost
                          /\ Exists(id'[q]) =>
                                 post'[q].version < posts[id'[q]].version
    PROVE  CInv'
<1>1. VersionsWritten'
  BY WroteKept DEF CInv, VersionsWritten
<1>2. RefusedIsBehind'
  BY OthersKept DEF CInv, RefusedIsBehind, Refused
<1> QED
  BY <1>1, <1>2 DEF CInv

\* The new row has no version to be told of; no copy is of its id.
LEMMA CreateKeepsWinners ==
    ASSUME IInv, CInv, NEW q \in Reqs, Create(q)
    PROVE  CInv'
<1>1. PICK row \in Row : /\ posts' = [posts EXCEPT ![lastId + 1] = row]
                         /\ row.version = 0
  BY NewRow DEF Create, IInv, TypeOK
<1>2. Step(q)
  BY DEF Step
<1>3. lastId + 1 \in PostIds /\ lastId \in Nat
  BY MaxPostsAssumption DEF Create, IInv, TypeOK
<1>4. VersionsWritten'
  <2> SUFFICES ASSUME NEW p \in PostIds, Exists(p)', NEW v \in 1..posts'[p].version
               PROVE  Wrote(p, v)'
    BY DEF VersionsWritten
  <2>1. p # lastId + 1
    BY <1>1, <1>3 DEF IInv, TypeOK
  <2>2. posts'[p] = posts[p]
    BY <1>1, <2>1 DEF IInv, TypeOK
  <2> QED
    BY <1>2, <2>2, WroteKept DEF CInv, VersionsWritten
<1>5. RefusedIsBehind'
  <2> SUFFICES ASSUME NEW s \in Reqs, Refused(s)'
               PROVE  /\ post'[s] # NoPost
                      /\ Exists(id[s])' => post'[s].version < posts'[id'[s]].version
    BY DEF RefusedIsBehind, Create
  <2>1. s # q
    BY DEF Create, Refused, IInv, TypeOK
  <2>2. Refused(s) /\ post'[s] = post[s] /\ id'[s] = id[s] /\ post[s] # NoPost
    BY <1>2, <2>1, OthersKept DEF Refused, CInv, RefusedIsBehind
  <2>3. id[s] <= lastId /\ id[s] \in PostIds
    BY <2>2 DEF IInv, Copies, TypeOK
  <2>4. posts'[id[s]] = posts[id[s]]
    BY <1>1, <1>3, <2>3 DEF IInv, TypeOK
  <2> QED
    BY <2>2, <2>4 DEF CInv, RefusedIsBehind
<1> QED
  BY <1>4, <1>5 DEF CInv

\* A write-back tells of the version it makes.
LEMMA WriteBackKeepsWinners ==
    ASSUME IInv, CInv, NEW q \in Reqs, Update(q), Matches(q)
    PROVE  CInv'
<1>1. /\ pc[q] = "act" /\ op[q] = "update" /\ WriteBack(q) /\ Answer(q, "ok")
      /\ UNCHANGED request /\ Step(q)
  BY DEF Update, Step
<1>2. PICK row \in Row :
        /\ posts' = [posts EXCEPT ![id[q]] = row]
        /\ post' = [post EXCEPT ![q] = row]
        /\ row.version = posts[id[q]].version + 1
  BY <1>1, WriteBackRow DEF IInv, Progress
<1>3. id[q] \in PostIds /\ posts[id[q]].version \in Nat
  BY RowFields DEF IInv, TypeOK, Matches
<1>4. ASSUME NEW p, NEW v, p = id[q], v = row.version
      PROVE  Wrote(p, v)'
  BY <1>1, <1>2, <1>3, <1>4 DEF Wrote, IInv, TypeOK
<1>5. VersionsWritten'
  <2> SUFFICES ASSUME NEW p \in PostIds, Exists(p)', NEW v \in 1..posts'[p].version
               PROVE  Wrote(p, v)'
    BY DEF VersionsWritten
  <2>1. CASE p # id[q]
    <3>1. posts'[p] = posts[p]
      BY <1>2, <2>1 DEF IInv, TypeOK
    <3> QED
      BY <1>1, <3>1, WroteKept DEF CInv, VersionsWritten
  <2>2. CASE p = id[q]
    <3>1. posts'[p] = row /\ Exists(p)
      BY <1>2, <1>3, <2>2 DEF IInv, TypeOK, Matches
    <3>2. CASE v = row.version
      BY <1>4, <2>2, <3>2
    <3>3. CASE v # row.version
      <4>1. v \in 1..posts[p].version
        BY <1>2, <1>3, <2>2, <3>1, <3>3
      <4> QED
        BY <1>1, <3>1, <4>1, WroteKept DEF CInv, VersionsWritten
    <3> QED
      BY <3>2, <3>3
  <2> QED
    BY <2>1, <2>2
<1>6. RefusedIsBehind'
  <2> SUFFICES ASSUME NEW s \in Reqs, Refused(s)'
               PROVE  /\ post'[s] # NoPost
                      /\ Exists(id[s])' => post'[s].version < posts'[id'[s]].version
    BY <1>1 DEF RefusedIsBehind
  <2>1. s # q
    BY <1>1 DEF Refused, IInv, TypeOK
  <2>2. /\ Refused(s) /\ post'[s] = post[s] /\ id'[s] = id[s]
        /\ post[s] # NoPost /\ post[s] \in Row /\ id[s] \in PostIds
    BY <1>1, <2>1, OthersKept DEF Refused, CInv, RefusedIsBehind, IInv, TypeOK
  <2>3. CASE id[s] = id[q]
    <3>1. post[s].version < posts[id[q]].version
      BY <2>2, <2>3 DEF CInv, RefusedIsBehind, Matches
    <3>2. posts'[id[s]] = row /\ post[s].version \in Nat
      BY <1>2, <1>3, <2>2, <2>3, RowFields DEF IInv, TypeOK
    <3> QED
      BY <1>2, <1>3, <2>2, <3>1, <3>2
  <2>4. CASE id[s] # id[q]
    <3>1. posts'[id[s]] = posts[id[s]]
      BY <1>2, <2>2, <2>4 DEF IInv, TypeOK
    <3> QED
      BY <2>2, <3>1 DEF CInv, RefusedIsBehind
  <2> QED
    BY <2>3, <2>4
<1> QED
  BY <1>5, <1>6 DEF CInv

\* Where no row matches, the copy is behind the row, if there is one.
LEMMA RefusalKeepsWinners ==
    ASSUME IInv, CInv, NEW q \in Reqs, Update(q), ~Matches(q)
    PROVE  CInv'
<1>1. /\ Step(q) /\ posts' = posts /\ post' = post /\ id' = id
      /\ post[q] # NoPost /\ post[q] \in Row /\ id[q] \in PostIds
  BY DEF Update, Step, IInv, Progress, TypeOK
<1>2. ASSUME Exists(id[q])
      PROVE  post[q].version < posts[id[q]].version
  <2>1. /\ post[q].version # posts[id[q]].version
        /\ post[q].version <= posts[id[q]].version
        /\ posts[id[q]] \in Row
    BY <1>1, <1>2 DEF Matches, IInv, Copies, TypeOK
  <2> QED
    BY <1>1, <2>1, RowFields
<1> QED
  BY <1>1, <1>2, TableKeptPreserves

\* A deletion takes a row away.
LEMMA DeleteKeepsWinners ==
    ASSUME IInv, CInv, NEW q \in Reqs, Delete(q)
    PROVE  CInv'
<1>1. Step(q) /\ ~Refused(q)'
  BY DEF Step, Delete, Refused, IInv, TypeOK
<1>2. CASE posts' = posts
  BY <1>1, <1>2, TableKeptPreserves
<1>3. CASE posts' = [posts EXCEPT ![id[q]] = NoPost]
  <2>1. ASSUME NEW p \in PostIds, Exists(p)'
        PROVE  Exists(p) /\ posts'[p] = posts[p]
    BY <1>3, <2>1 DEF IInv, TypeOK
  <2>2. VersionsWritten'
    BY <1>1, <2>1, WroteKept DEF CInv, VersionsWritten
  <2>3. \A s \in Reqs : Refused(s)' => /\ Refused(s) /\ id'[s] = id[s]
                                       /\ post'[s] = post[s]
                                       /\ id[s] \in PostIds
    BY <1>1, OthersKept DEF Refused, IInv, TypeOK
  <2>4. RefusedIsBehind'
    BY <2>1, <2>3 DEF CInv, RefusedIsBehind
  <2> QED
    BY <2>2, <2>4 DEF CInv
<1> QED
  BY <1>2, <1>3 DEF Delete

\* Every step of a run without faults keeps it.
LEMMA NextKeepsWinners == Faults = {} /\ IInv /\ CInv /\ [Next]_vars => CInv'
<1> SUFFICES ASSUME Faults = {}, IInv, CInv, [Next]_vars PROVE CInv'
  OBVIOUS
<1>1. ASSUME NEW q \in Reqs, Step(q) PROVE CInv'
  <2>1. CASE ReadPost(q) \/ Authorize(q) \/ Get(q)
    <3>1. posts' = posts /\ ~Refused(q)'
      BY <2>1 DEF ReadPost, Authorize, Get, Refused, IInv, TypeOK, Progress
    <3> QED
      BY <1>1, <3>1, TableKeptPreserves
  <2>2. ~Fails(q) /\ ~UpdateUnacknowledged(q)
    BY DEF Fails, UpdateUnacknowledged
  <2> QED
    BY <1>1, <2>1, <2>2, CreateKeepsWinners, WriteBackKeepsWinners,
       RefusalKeepsWinners, DeleteKeepsWinners DEF Step
<1>2. ASSUME NEW q \in Reqs, NEW o \in Ops, NEW u \in Users, NEW p \in PostIds,
             NEW fs \in SUBSET Fields, Arrive(q, o, u, p, fs)
      PROVE  CInv'
  <2>1. posts' = posts /\ ~Refused(q)'
    BY <1>2 DEF Arrive, Refused, IInv, TypeOK
  <2> QED
    BY <1>2, <2>1, TableKeptPreserves
<1>3. CASE UNCHANGED vars
  BY <1>3 DEF vars, CInv, VersionsWritten, RefusedIsBehind, Refused, Wrote
<1> QED
  BY <1>1, <1>2, <1>3 DEF Next

\* When no statement or answer fails (Faults = {}), a PATCH that is refused while
\* its post exists lost to another PATCH, whose sender was told so: concurrent
\* PATCHes never all fail.
THEOREM ConflictsHaveWinners == Spec => []ConflictHasWinner
<1>1. CASE Faults = {}
  <2>1. Init => CInv
    BY DEF Init, CInv, VersionsWritten, RefusedIsBehind, Refused
  <2>2. IInv /\ CInv => ConflictHasWinner
    <3> SUFFICES ASSUME IInv, CInv, NEW q \in Reqs, Refused(q), Exists(id[q])
                 PROVE  Wrote(id[q], post[q].version + 1)
      BY DEF ConflictHasWinner, Refused, Wrote
    <3>1. /\ post[q] \in Row /\ posts[id[q]] \in Row /\ id[q] \in PostIds
          /\ post[q].version < posts[id[q]].version
      BY DEF IInv, TypeOK, CInv, RefusedIsBehind
    <3>2. post[q].version + 1 \in 1..posts[id[q]].version
      BY <3>1, RowFields
    <3> QED
      BY <3>1, <3>2 DEF CInv, VersionsWritten
  <2>3. IInv /\ CInv /\ [Next]_vars => CInv'
    BY <1>1, NextKeepsWinners
  <2> QED
    BY <2>1, <2>2, <2>3, Invariance, PTL DEF Spec
<1>2. CASE Faults # {}
  <2>1. ConflictHasWinner
    BY <1>2 DEF ConflictHasWinner
  <2> QED
    BY <2>1, PTL
<1> QED
  BY <1>1, <1>2
=============================================================================
