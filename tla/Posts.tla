-------------------------------- MODULE Posts --------------------------------
(***************************************************************************)
(* The handlers of cmd/api/posts.go with the middleware they run behind    *)
(* (postsContextMiddleware, checkPostOwnership) and the statements of      *)
(* internal/store/posts.go.  A request reads the post, checks who may      *)
(* change it, and changes it, in separate steps: what the later steps use  *)
(* is the copy that the first one put in the request's context.            *)
(*                                                                         *)
(* Each statement runs by itself, so it is one atomic step of PostgreSQL.  *)
(* A request is also the value of the title or content it sends.           *)
(***************************************************************************)
EXTENDS Integers

CONSTANTS Reqs,                  \* requests to /v1/posts
          Users,                 \* authenticated users
          MaxPosts,              \* bound on the ids the sequence draws
          NoPost,                \* the absent row
          Level,                 \* Level[u]: role level of user u
          Faults                 \* failures the environment may produce

PostIds == 1..MaxPosts
Moderator == 2
Admin == 3
Fields == {"title", "content"}
Ops == {"create", "get", "update", "delete"}
Replies == {"none", "created", "ok", "no_content", "forbidden", "not_found",
            "error"}
Row == [owner : Users, title : Reqs, content : Reqs, version : Nat]

ASSUME MaxPostsAssumption == MaxPosts \in Nat \ {0}
ASSUME UsersAssumption == Users # {}
ASSUME LevelAssumption == Level \in [Users -> Nat]
ASSUME NoPostAssumption == NoPost \notin Row
ASSUME PostFaultsAssumption == Faults \subseteq {"db", "lostack"}

VARIABLES posts,       \* posts[p]: the row of p, or NoPost
          removed,     \* ids whose row was deleted
          lastId,      \* last id drawn from the sequence of posts
          pc,          \* pc[q]: next step of request q
          op,          \* op[q]: its method
          user,        \* user[q]: the user of its token
          id,          \* id[q]: the post it names
          fields,      \* fields[q]: what its payload sets
          post,        \* post[q]: the copy in its context
          reply        \* reply[q]: its status

table == <<posts, removed, lastId>>
request == <<op, user, id, fields>>
vars == <<posts, removed, lastId, pc, op, user, id, fields, post, reply>>

TypeOK ==
    /\ posts \in [PostIds -> Row \cup {NoPost}]
    /\ removed \subseteq PostIds
    /\ lastId \in 0..MaxPosts
    /\ pc \in [Reqs -> {"idle", "read", "authorize", "act", "done"}]
    /\ op \in [Reqs -> Ops]
    /\ user \in [Reqs -> Users]
    /\ id \in [Reqs -> PostIds]
    /\ fields \in [Reqs -> SUBSET Fields]
    /\ post \in [Reqs -> Row \cup {NoPost}]
    /\ reply \in [Reqs -> Replies]

Init ==
    /\ posts = [p \in PostIds |-> NoPost]
    /\ removed = {} /\ lastId = 0
    /\ pc = [q \in Reqs |-> "idle"]
    /\ op = [q \in Reqs |-> "get"]
    /\ user = [q \in Reqs |-> CHOOSE u \in Users : TRUE]
    /\ id = [q \in Reqs |-> 1]
    /\ fields = [q \in Reqs |-> {}]
    /\ post = [q \in Reqs |-> NoPost]
    /\ reply = [q \in Reqs |-> "none"]
-----------------------------------------------------------------------------
Exists(p) == posts[p] # NoPost

Goto(q, from, to) == pc[q] = from /\ pc' = [pc EXCEPT ![q] = to]

Answer(q, status) ==
    /\ pc' = [pc EXCEPT ![q] = "done"]
    /\ reply' = [reply EXCEPT ![q] = status]

\* A request arrives, already authenticated as u.  Only an update has fields.
Arrive(q, o, u, p, fs) ==
    /\ o = "update" \/ fs = {}
    /\ Goto(q, "idle", IF o = "create" THEN "act" ELSE "read")
    /\ op' = [op EXCEPT ![q] = o]
    /\ user' = [user EXCEPT ![q] = u]
    /\ id' = [id EXCEPT ![q] = p]
    /\ fields' = [fields EXCEPT ![q] = fs]
    /\ UNCHANGED <<table, post, reply>>

\* createPostHandler: the id is drawn from the sequence, which keeps it.
Create(q) ==
    /\ pc[q] = "act" /\ op[q] = "create" /\ lastId < MaxPosts
    /\ lastId' = lastId + 1
    /\ posts' = [posts EXCEPT ![lastId + 1] =
           [owner |-> user[q], title |-> q, content |-> q, version |-> 0]]
    /\ Answer(q, "created")
    /\ UNCHANGED <<removed, request, post>>

\* postsContextMiddleware: PostStore.GetByID, 404 without a row.
ReadPost(q) ==
    /\ pc[q] = "read"
    /\ \/ /\ Exists(id[q])
          /\ Goto(q, "read", IF op[q] = "get" THEN "act" ELSE "authorize")
          /\ post' = [post EXCEPT ![q] = posts[id[q]]]
          /\ UNCHANGED reply
       \/ /\ ~Exists(id[q])
          /\ Answer(q, "not_found")
          /\ UNCHANGED post
    /\ UNCHANGED <<table, request>>

RequiredLevel(o) == IF o = "delete" THEN Admin ELSE Moderator

\* checkPostOwnership: the owner, or a user of the required role or above.
Authorize(q) ==
    /\ pc[q] = "authorize"
    /\ IF \/ post[q].owner = user[q]
          \/ Level[user[q]] >= RequiredLevel(op[q])
       THEN Goto(q, "authorize", "act") /\ UNCHANGED reply
       ELSE Answer(q, "forbidden")
    /\ UNCHANGED <<table, request, post>>

\* getPostHandler answers the copy, with the comments it reads now.
Get(q) ==
    /\ pc[q] = "act" /\ op[q] = "get"
    /\ Answer(q, "ok")
    /\ UNCHANGED <<table, request, post>>

\* Faulty variant: fields missing from the payload are written as empty.
Edited_Put(q) ==
    [post[q] EXCEPT
        !.title = IF "title" \in fields[q] THEN q ELSE NoPost,
        !.content = IF "content" \in fields[q] THEN q ELSE NoPost]

\* The copy with the fields of the payload, as updatePostHandler sets them.
Edited(q) ==
    [post[q] EXCEPT
        !.title = IF "title" \in fields[q] THEN q ELSE @,
        !.content = IF "content" \in fields[q] THEN q ELSE @]

\* Faulty variant: the statement has no AND version = $4.
Matches_AnyVersion(q) == Exists(id[q])

\* PostStore.Update: WHERE id = $3 AND version = $4.
Matches(q) == Exists(id[q]) /\ posts[id[q]].version = post[q].version

\* Faulty variant: the statement does not set version.
WriteBack_SameVersion(q) ==
    /\ posts' = [posts EXCEPT ![id[q]] =
           [owner |-> @.owner, title |-> Edited(q).title,
            content |-> Edited(q).content, version |-> @.version]]
    /\ post' = [post EXCEPT ![q] = posts'[id[q]]]

\* Faulty variant: the statement has no RETURNING version.
WriteBack_NoReturning(q) ==
    /\ posts' = [posts EXCEPT ![id[q]] =
           [owner |-> @.owner, title |-> Edited(q).title,
            content |-> Edited(q).content, version |-> @.version + 1]]
    /\ post' = [post EXCEPT ![q] = Edited(q)]

\* Every field of the copy is written; RETURNING puts the new version in it.
WriteBack(q) ==
    /\ posts' = [posts EXCEPT ![id[q]] =
           [owner |-> @.owner, title |-> Edited(q).title,
            content |-> Edited(q).content, version |-> @.version + 1]]
    /\ post' = [post EXCEPT ![q] = posts'[id[q]]]

\* updatePostHandler: without a matching row Update returns ErrNotFound,
\* which the handler answers 500.
Update(q) ==
    /\ pc[q] = "act" /\ op[q] = "update"
    /\ \/ Matches(q) /\ WriteBack(q) /\ Answer(q, "ok")
       \/ ~Matches(q) /\ Answer(q, "error") /\ UNCHANGED <<posts, post>>
    /\ UNCHANGED <<removed, lastId, request>>

\* Faulty variant: RowsAffected is not looked at.
Delete_Unchecked(q) ==
    /\ pc[q] = "act" /\ op[q] = "delete"
    /\ posts' = [posts EXCEPT ![id[q]] = NoPost]
    /\ removed' = removed \cup {id[q]}
    /\ Answer(q, "no_content")
    /\ UNCHANGED <<lastId, request, post>>

\* deletePostHandler: no affected row is a 404.
Delete(q) ==
    /\ pc[q] = "act" /\ op[q] = "delete"
    /\ \/ /\ Exists(id[q])
          /\ posts' = [posts EXCEPT ![id[q]] = NoPost]
          /\ removed' = removed \cup {id[q]}
          /\ Answer(q, "no_content")
       \/ /\ ~Exists(id[q])
          /\ Answer(q, "not_found")
          /\ UNCHANGED <<posts, removed>>
    /\ UNCHANGED <<lastId, request, post>>

\* A statement fails, its context is done, or the author's row is gone.
Fails(q) ==
    /\ "db" \in Faults
    /\ pc[q] \in {"read", "authorize", "act"}
    /\ Answer(q, "error")
    /\ UNCHANGED <<table, request, post>>

\* The statement takes effect and its answer is lost.
UpdateUnacknowledged(q) ==
    /\ "lostack" \in Faults
    /\ pc[q] = "act" /\ op[q] = "update" /\ Matches(q)
    /\ WriteBack(q)
    /\ Answer(q, "error")
    /\ UNCHANGED <<removed, lastId, request>>
-----------------------------------------------------------------------------
Step(q) ==
    \/ Create(q) \/ ReadPost(q) \/ Authorize(q) \/ Get(q) \/ Update(q)
    \/ Delete(q) \/ Fails(q) \/ UpdateUnacknowledged(q)

Next ==
    \E q \in Reqs :
        \/ \E o \in Ops, u \in Users, p \in PostIds, fs \in SUBSET Fields :
               Arrive(q, o, u, p, fs)
        \/ Step(q)

Spec == Init /\ [][Next]_vars
-----------------------------------------------------------------------------
(* Properties                                                              *)

\* The read, the check and the write of a request are worth one atomic step
\* of PostStore: a PATCH of one field never undoes a concurrent PATCH of the
\* other (scripts/test_concurrency.go), and nobody changes a post by a right
\* that the copy gave and the row does not.
Store == INSTANCE PostStore WITH Values <- Reqs

PostStoreSpec == Store!Spec

Updated(q) == op[q] = "update" /\ reply[q] = "ok"

\* No two PATCHes of a post are told that they produced the same version.
VersionsUnique ==
    \A q, s \in Reqs :
        Updated(q) /\ Updated(s) /\ id[q] = id[s] /\ q # s
            => post[q].version # post[s].version

\* As long as no statement, commit or answer fails (Faults = {}), a PATCH that
\* is refused while its post exists lost to another: somebody was told that he
\* wrote the version after the one it had read.  Concurrent PATCHes never all
\* fail.
ConflictHasWinner ==
    \A q \in Reqs :
        /\ pc[q] = "done" /\ op[q] = "update" /\ reply[q] = "error"
        /\ Exists(id[q]) /\ Faults = {}
        => \E s \in Reqs : /\ Updated(s) /\ id[s] = id[q]
                           /\ post[s].version = post[q].version + 1

\* At most one DELETE of a post answers 204.
DeletedOnce ==
    \A q, s \in Reqs :
        /\ op[q] = "delete" /\ reply[q] = "no_content"
        /\ op[s] = "delete" /\ reply[s] = "no_content"
        /\ id[q] = id[s]
        => q = s
=============================================================================
