------------------------------ MODULE Followers -------------------------------
(***************************************************************************)
(* Following (followUserHandler, unFollowUserHandler, FollowerStore) and   *)
(* what GetUserFeed makes of it.  Every request runs one statement, which  *)
(* is one atomic step of PostgreSQL.  A pair <<v, u>> in followers says,   *)
(* as the columns (user_id, follower_id) do, that u follows v.             *)
(***************************************************************************)
EXTENDS Integers, FiniteSets

CONSTANTS Users,       \* ids of users, with and without an account
          MaxPosts,    \* bound on the ids of posts
          MaxComments, \* bound on the comments of a post
          Faults       \* statements may fail

ASSUME FollowersAssumption ==
    MaxPosts \in Nat /\ MaxComments \in Nat /\ Faults \in BOOLEAN

VARIABLES account,     \* account[u]: "none", "pending" or "active"
          followers,
          author,      \* author[p]: for the posts drawn so far
          live,        \* posts not deleted
          comments,    \* comments[p]: rows of comments for p
          reply        \* the last answer to a follow or an unfollow

vars == <<account, followers, author, live, comments, reply>>

PostIds == 1..MaxPosts
Existing == {u \in Users : account[u] # "none"}
NoReply == [status |-> 0]

TypeOK ==
    /\ account \in [Users -> {"none", "pending", "active"}]
    /\ followers \subseteq Existing \X Existing
    /\ \E n \in 0..MaxPosts : author \in [1..n -> Users]
    /\ live \subseteq {p \in DOMAIN author : author[p] \in Existing}
    /\ comments \in [PostIds -> 0..MaxComments]
    /\ reply = NoReply \/ reply \in [op : {"follow", "unfollow"}, by : Users,
                                     of : Users, status : {204, 409, 500}]

Init ==
    /\ account = [u \in Users |-> "none"]
    /\ followers = {}
    /\ author = [p \in {} |-> CHOOSE u \in Users : TRUE]
    /\ live = {}
    /\ comments = [p \in PostIds |-> 0]
    /\ reply = NoReply
-----------------------------------------------------------------------------
(* Accounts, posts and comments, as the other handlers change them.        *)

Register(u) ==
    /\ account[u] = "none"
    /\ account' = [account EXCEPT ![u] = "pending"]
    /\ UNCHANGED <<followers, author, live, comments, reply>>

Activate(u) ==
    /\ account[u] = "pending"
    /\ account' = [account EXCEPT ![u] = "active"]
    /\ UNCHANGED <<followers, author, live, comments, reply>>

\* Faulty variant: the rows of followers stay.
Withdraw_NoCascade(u) ==
    /\ account[u] # "none" /\ \A p \in live : author[p] # u
    /\ account' = [account EXCEPT ![u] = "none"]
    /\ UNCHANGED <<followers, author, live, comments, reply>>

\* Users.Delete after a mail that failed: a post of the user stops it, and ON
\* DELETE CASCADE removes the rows that follow the user or are the user's.
Withdraw(u) ==
    /\ account[u] # "none" /\ \A p \in live : author[p] # u
    /\ account' = [account EXCEPT ![u] = "none"]
    /\ followers' = {f \in followers : u \notin {f[1], f[2]}}
    /\ UNCHANGED <<author, live, comments, reply>>

CreatePost(u) ==
    LET p == Cardinality(DOMAIN author) + 1 IN
    /\ account[u] = "active" /\ p \in PostIds
    /\ author' = [q \in 1..p |-> IF q = p THEN u ELSE author[q]]
    /\ live' = live \cup {p}
    /\ UNCHANGED <<account, followers, comments, reply>>

DeletePost(p) ==
    /\ live' = live \ {p}
    /\ UNCHANGED <<account, followers, author, comments, reply>>

\* Only the seed makes comments; no route of the server does.
Comment(p) ==
    /\ comments[p] < MaxComments
    /\ comments' = [comments EXCEPT ![p] = @ + 1]
    /\ UNCHANGED <<account, followers, author, live, reply>>
-----------------------------------------------------------------------------
Answer(op, u, v, status) ==
    reply' = [op |-> op, by |-> u, of |-> v, status |-> status]

\* A conflict is answered; every other error of the INSERT, the violated
\* foreign key of a user who does not exist among them, is dropped.  (An id that
\* is no number is answered 400 and yet tried, as user 0, who has no account.)
Follow(u, v) ==
    /\ account[u] = "active"
    /\ \/ /\ <<v, u>> \in followers
          /\ Answer("follow", u, v, 409) /\ UNCHANGED followers
       \/ /\ <<v, u>> \notin followers /\ account[v] # "none"
          /\ Answer("follow", u, v, 204)
          /\ followers' = followers \cup {<<v, u>>}
       \/ /\ account[v] = "none" \/ Faults
          /\ Answer("follow", u, v, 204) /\ UNCHANGED followers
    /\ UNCHANGED <<account, author, live, comments>>

UnFollow(u, v) ==
    /\ account[u] = "active"
    /\ \/ followers' = followers \ {<<v, u>>} /\ Answer("unfollow", u, v, 204)
       \/ /\ Faults
          /\ followers' \in {followers, followers \ {<<v, u>>}}
          /\ Answer("unfollow", u, v, 500)
    /\ UNCHANGED <<account, author, live, comments>>

Next ==
    \/ \E u \in Users :
           Register(u) \/ Activate(u) \/ Withdraw(u) \/ CreatePost(u)
    \/ \E p \in live : DeletePost(p) \/ Comment(p)
    \/ \E u, v \in Users : Follow(u, v) \/ UnFollow(u, v)

Spec == Init /\ [][Next]_vars
-----------------------------------------------------------------------------
(* The query of GetUserFeed                                                *)

\* Faulty variant: only the posts of others.
Joined_NotOwn(u) ==
    {j \in live \X followers : j[2][2] = author[j[1]] /\ j[2][1] = u}

\* What is joined before it is grouped: pairs of a post and a row of followers.
Joined(u) ==
    {j \in live \X followers :
        (j[2][2] = author[j[1]] \/ author[j[1]] = u) /\ j[2][1] = u}

\* One row for each post; COUNT counts its comments once for each row of
\* followers it was joined with.
UserFeed(u) ==
    {[post |-> p,
      comments_count |-> comments[p]
          * Cardinality({f \in followers : <<p, f>> \in Joined(u)})]
        : p \in {j[1] : j \in Joined(u)}}
-----------------------------------------------------------------------------
(* Properties                                                              *)

FollowersOf(u) == {v \in Users : <<u, v>> \in followers}
Followed(u) == {v \in Users : <<v, u>> \in followers}

\* What the join amounts to: the posts of the users who follow u, and those of
\* u as soon as anyone follows u, with their comments counted for each follower.
FeedIsOfFollowers ==
    \A u \in Users :
        LET n == Cardinality(FollowersOf(u))
            Own == [p \in {q \in live : author[q] = u} |-> comments[p] * n]
            Theirs == [p \in {q \in live : author[q] # u} |-> comments[p]]
            Shown == {p \in live : author[p] \in FollowersOf(u)}
                     \cup {p \in DOMAIN Own : n > 0}
        IN  UserFeed(u) =
                {[post |-> p, comments_count |->
                     IF author[p] = u THEN Own[p] ELSE Theirs[p]] : p \in Shown}

\* "Posts from users you follow.", says the page that shows this feed.
FeedIsOfFollowed ==
    \A u \in Users : \A row \in UserFeed(u) :
        author[row.post] \in Followed(u) \cup {u}
=============================================================================
