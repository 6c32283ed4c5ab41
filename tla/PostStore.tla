----------------------------- MODULE PostStore ------------------------------
(***************************************************************************)
(* What the posts API promises: a post is created, patched and removed in  *)
(* single steps by users who may do so.  A patch changes the fields it was *)
(* sent and no others, whatever concurrent patches do.  The handlers of    *)
(* Posts implement it (Posts!PostStoreSpec).                               *)
(***************************************************************************)
EXTENDS Integers

CONSTANTS PostIds, Users,
          Values,              \* titles and contents
          NoPost,              \* no row with this id
          Level,               \* Level[u]: role level of user u
          Moderator, Admin     \* levels of the roles of the same name

VARIABLES posts,               \* posts[p]: the row of p, or NoPost
          removed              \* ids whose row was deleted

Fields == {"title", "content"}

Init == posts = [p \in PostIds |-> NoPost] /\ removed = {}

Exists(p) == posts[p] # NoPost

May(u, p, level) == posts[p].owner = u \/ Level[u] >= level

Create(u, p, v) ==
    /\ ~Exists(p) /\ p \notin removed
    /\ posts' = [posts EXCEPT ![p] =
           [owner |-> u, title |-> v, content |-> v, version |-> 0]]
    /\ UNCHANGED removed

Patch(u, p, fields, v) ==
    /\ Exists(p) /\ May(u, p, Moderator)
    /\ posts' = [posts EXCEPT ![p] =
           [owner |-> @.owner,
            title |-> IF "title" \in fields THEN v ELSE @.title,
            content |-> IF "content" \in fields THEN v ELSE @.content,
            version |-> @.version + 1]]
    /\ UNCHANGED removed

Remove(u, p) ==
    /\ Exists(p) /\ May(u, p, Admin)
    /\ posts' = [posts EXCEPT ![p] = NoPost]
    /\ removed' = removed \cup {p}

Next == \E u \in Users, p \in PostIds :
            \/ \E v \in Values : Create(u, p, v)
            \/ \E v \in Values, fields \in SUBSET Fields :
                   Patch(u, p, fields, v)
            \/ Remove(u, p)

Spec == Init /\ [][Next]_<<posts, removed>>
=============================================================================
