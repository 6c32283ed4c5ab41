--------------------------------- MODULE Seed ---------------------------------
(***************************************************************************)
(* Seed of internal/db/seed.go, which make seed runs: users with fixed     *)
(* names in one transaction, then posts and comments of theirs, each by    *)
(* itself.  It may be run again, or twice at a time, on a database that is *)
(* in use, and whatever it meets it stops at the first error, but for the  *)
(* one of the commit, which it does not look at.                           *)
(***************************************************************************)
EXTENDS Integers

CONSTANTS Runs,        \* runs of the command
          NumUsers, NumPosts, NumComments,
          Nobody, Visitor

\* What the constants are taken to be.
Parameters ==
    /\ NumUsers \in Nat \ {0} /\ NumPosts \in Nat /\ NumComments \in Nat
    /\ Nobody # Visitor /\ Runs \cap {Nobody, Visitor} = {}

VARIABLES name,        \* name[i]: who has the i-th name in table users
          committed,   \* runs whose transaction was committed
          stage,       \* stage[r]: what run r inserts
          count,       \* count[r]: how many of it so far
          posts, comments   \* posts[r], comments[r]: rows run r has inserted

vars == <<name, committed, stage, count, posts, comments>>

Names == 1..NumUsers

TypeOK ==
    /\ name \in [Names -> Runs \cup {Nobody, Visitor}]
    /\ committed \subseteq Runs
    /\ stage \in [Runs -> {"start", "users", "commit", "posts", "comments",
                           "ended"}]
    /\ count \in [Runs -> Nat]
    /\ posts \in [Runs -> 0..NumPosts] /\ comments \in [Runs -> 0..NumComments]

Init ==
    /\ name = [i \in Names |-> Nobody] /\ committed = {}
    /\ stage = [r \in Runs |-> "start"]
    /\ count = [r \in Runs |-> 0]
    /\ posts = [r \in Runs |-> 0] /\ comments = [r \in Runs |-> 0]
-----------------------------------------------------------------------------
Goto(r, next) ==
    stage' = [stage EXCEPT ![r] = next] /\ count' = [count EXCEPT ![r] = 0]

Insert(r) == count' = [count EXCEPT ![r] = @ + 1] /\ UNCHANGED stage

\* PostgreSQL forgets what was inserted and not committed.
Rollback(r) ==
    name' = [i \in Names |-> IF name[i] = r /\ r \notin committed THEN Nobody
                             ELSE name[i]]

\* A user of the API registers one of the names.
Register(i) ==
    /\ name[i] = Nobody /\ name' = [name EXCEPT ![i] = Visitor]
    /\ UNCHANGED <<committed, stage, count, posts, comments>>

\* The role is there, and the transaction begins.
Begin(r) ==
    /\ stage[r] = "start" /\ Goto(r, "users")
    /\ UNCHANGED <<name, committed, posts, comments>>

\* Faulty variant: the names of every run are new.
Free_Always(i) == TRUE

Free(i) == name[i] = Nobody

\* UserStore.Create.  A name of a transaction that is under way is waited for;
\* one that is taken is an error, as in Stops.
CreateUser(r) ==
    LET i == count[r] + 1 IN
    /\ stage[r] = "users" /\ i \in Names /\ Free(i)
    /\ name' = [name EXCEPT ![i] = r]
    /\ IF i = NumUsers THEN Goto(r, "commit") ELSE Insert(r)
    /\ UNCHANGED <<committed, posts, comments>>

\* It goes on, committed or not.
Commit(r) ==
    /\ stage[r] = "commit" /\ Goto(r, "posts")
    /\ \/ committed' = committed \cup {r} /\ UNCHANGED name
       \/ Rollback(r) /\ UNCHANGED committed
    /\ UNCHANGED <<posts, comments>>

\* PostStore.Create: a post has an author among the users (fk_user).
CreatePost(r) ==
    /\ stage[r] = "posts"
    /\ IF count[r] = NumPosts THEN Goto(r, "comments") /\ UNCHANGED posts
       ELSE r \in committed /\ posts' = [posts EXCEPT ![r] = @ + 1] /\ Insert(r)
    /\ UNCHANGED <<name, committed, comments>>

CreateComment(r) ==
    /\ stage[r] = "comments"
    /\ IF count[r] = NumComments THEN Goto(r, "ended") /\ UNCHANGED comments
       ELSE comments' = [comments EXCEPT ![r] = @ + 1] /\ Insert(r)
    /\ UNCHANGED <<name, committed, posts>>

\* A statement fails, or the process ends: what was not committed is undone.
Stops(r) ==
    /\ stage[r] # "ended" /\ Goto(r, "ended") /\ Rollback(r)
    /\ UNCHANGED <<committed, posts, comments>>

Next ==
    \/ \E i \in Names : Register(i)
    \/ \E r \in Runs : \/ Begin(r) \/ CreateUser(r) \/ Commit(r)
                       \/ CreatePost(r) \/ CreateComment(r) \/ Stops(r)

Spec == Init /\ [][Next]_vars
-----------------------------------------------------------------------------
(* Properties                                                              *)

\* Seed, the unique names, and fk_user: however often it is run, and wherever a
\* run stops, no more than one run adds posts, and comments are added only to
\* all of its posts.
SeededOnce ==
    /\ \A r, s \in Runs : posts[r] > 0 /\ posts[s] > 0 => r = s
    /\ \A r \in Runs : comments[r] > 0 => posts[r] = NumPosts
=============================================================================
