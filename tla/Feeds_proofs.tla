----------------------------- MODULE Feeds_proofs -----------------------------
(***************************************************************************)
(* The feeds, for any users, posts, comments, faults, limits and runs of   *)
(* the seed: what the join of GetUserFeed amounts to, that the tables are  *)
(* seeded once, and what a reader of the feed of all misses and sees twice.*)
(***************************************************************************)
EXTENDS Feeds, FiniteSetTheorems, TLAPS

(***************************************************************************)
(* GetUserFeed.  The rows of followers have to be finitely many, or their  *)
(* COUNT would be no number; that they are is the one thing the feed needs *)
(* of the history, beside their type.                                      *)
(***************************************************************************)
IInv == TypeOK /\ IsFiniteSet(followers)

\* The rows of followers that a feed of u is joined with.
RowsOf(u) == {f \in followers : f[1] = u}
-----------------------------------------------------------------------------
\* Initially there is nothing to count.
LEMMA InitIInv == Init => IInv
<1> SUFFICES ASSUME Init PROVE IInv
  OBVIOUS
<1>1. author \in [1..0 -> Users] /\ 0 \in 0..MaxPosts
  BY FollowersAssumption DEF Init
<1>2. \E n \in 0..MaxPosts : author \in [1..n -> Users]
  BY <1>1
<1>3. comments \in [PostIds -> 0..MaxComments]
  BY FollowersAssumption DEF Init
<1> QED
  BY <1>2, <1>3, FS_EmptySet DEF Init, IInv, TypeOK, Existing

\* A new post has the next id, and an author who has an account.
LEMMA CreatePostTypes ==
    ASSUME IInv, NEW u \in Users, CreatePost(u)
    PROVE  TypeOK'
<1>1. PICK n \in 0..MaxPosts : author \in [1..n -> Users]
  BY DEF IInv, TypeOK
<1>2. Cardinality(DOMAIN author) = n
  BY <1>1, FS_Interval, FollowersAssumption
<1>3. n + 1 \in PostIds /\ n \in Nat
  BY <1>2, <1>1, FollowersAssumption DEF CreatePost
<1>4. author' = [q \in 1..n + 1 |-> IF q = n + 1 THEN u ELSE author[q]]
  BY <1>2 DEF CreatePost
<1>5. author' \in [1..n + 1 -> Users] /\ n + 1 \in 0..MaxPosts
  BY <1>1, <1>3, <1>4, FollowersAssumption DEF PostIds
<1>6. live' \subseteq {p \in DOMAIN author' : author'[p] \in Existing'}
  <2> SUFFICES ASSUME NEW p \in live'
               PROVE  p \in 1..n + 1 /\ author'[p] \in Existing'
    BY <1>4
  <2>1. account' = account /\ (p \in live \/ p = n + 1) /\ u \in Existing
    BY <1>2 DEF CreatePost, Existing
  <2>2. p \in live => p \in 1..n /\ author[p] \in Existing
    BY <1>1 DEF IInv, TypeOK
  <2> QED
    BY <1>3, <1>4, <2>1, <2>2 DEF Existing
<1>7. \E m \in 0..MaxPosts : author' \in [1..m -> Users]
  BY <1>5
<1>8. followers' \subseteq Existing' \X Existing'
  BY DEF IInv, TypeOK, CreatePost, Existing
<1>9. account' = account /\ comments' = comments /\ reply' = reply
  BY DEF CreatePost
<1> QED
  BY <1>6, <1>7, <1>8, <1>9 DEF IInv, TypeOK

\* Every step keeps the types.
LEMMA NextTypes ==
    ASSUME IInv, [Next]_vars
    PROVE  TypeOK'
<1>1. ASSUME NEW u \in Users, Register(u) \/ Activate(u) PROVE TypeOK'
  <2>1. /\ account' \in [Users -> {"none", "pending", "active"}]
        /\ \A v \in Users : account[v] # "none" => account'[v] # "none"
        /\ UNCHANGED <<followers, author, live, comments, reply>>
    BY <1>1 DEF IInv, TypeOK, Register, Activate
  <2>2. Existing \subseteq Existing'
    BY <2>1 DEF Existing
  <2>3. followers' \subseteq Existing' \X Existing'
    BY <2>1, <2>2 DEF IInv, TypeOK
  <2>4. live' \subseteq {p \in DOMAIN author' : author'[p] \in Existing'}
    BY <2>1, <2>2 DEF IInv, TypeOK
  <2> QED
    BY <2>1, <2>3, <2>4 DEF IInv, TypeOK
<1>2. ASSUME NEW u \in Users, Withdraw(u) PROVE TypeOK'
  <2>1. followers' \subseteq Existing' \X Existing'
    BY <1>2 DEF IInv, TypeOK, Withdraw, Existing
  <2>2. live' \subseteq {p \in DOMAIN author' : author'[p] \in Existing'}
    BY <1>2 DEF IInv, TypeOK, Withdraw, Existing
  <2> QED
    BY <1>2, <2>1, <2>2 DEF IInv, TypeOK, Withdraw
<1>3. ASSUME NEW p \in live, DeletePost(p) PROVE TypeOK'
  BY <1>3 DEF IInv, TypeOK, DeletePost, Existing
<1>4. ASSUME NEW p \in live, Comment(p) PROVE TypeOK'
  <2>1. comments' \in [PostIds -> 0..MaxComments]
    <3>1. comments \in [PostIds -> 0..MaxComments]
      BY DEF IInv, TypeOK
    <3>2. /\ comments[p] < MaxComments
          /\ comments' = [comments EXCEPT ![p] = @ + 1]
      BY <1>4 DEF Comment
    <3>3. p \in PostIds => comments[p] + 1 \in 0..MaxComments
      BY <3>1, <3>2, FollowersAssumption
    <3> QED
      BY <3>1, <3>2, <3>3
  <2> QED
    BY <1>4, <2>1 DEF IInv, TypeOK, Comment, Existing
<1>5. ASSUME NEW u \in Users, NEW v \in Users, Follow(u, v) PROVE TypeOK'
  BY <1>5 DEF IInv, TypeOK, Follow, Answer, Existing
<1>6. ASSUME NEW u \in Users, NEW v \in Users, UnFollow(u, v) PROVE TypeOK'
  BY <1>6 DEF IInv, TypeOK, UnFollow, Answer, Existing
<1>7. CASE UNCHANGED vars
  BY <1>7 DEF IInv, TypeOK, vars, Existing
<1> QED
  BY <1>1, <1>2, <1>3, <1>4, <1>5, <1>6, <1>7, CreatePostTypes DEF Next

\* A step adds at most one row of followers.
LEMMA NextFinite ==
    ASSUME IInv, [Next]_vars
    PROVE  IsFiniteSet(followers')
<1>1. \/ followers' \subseteq followers
      \/ \E f : followers' = followers \cup {f}
  BY DEF Next, Register, Activate, Withdraw, CreatePost, DeletePost, Comment,
         Follow, UnFollow, vars
<1> QED
  BY <1>1, FS_Subset, FS_AddElement DEF IInv

\* The invariant holds in every reachable state.
THEOREM Invariance == Spec => []IInv
<1>1. IInv /\ [Next]_vars => IInv'
  BY NextTypes, NextFinite DEF IInv
<1> QED
  BY InitIInv, <1>1, PTL DEF Spec
-----------------------------------------------------------------------------
(* The query.                                                              *)

\* u has as many followers as rows.
LEMMA CountOfRows ==
    ASSUME IInv, NEW u \in Users
    PROVE  /\ Cardinality(RowsOf(u)) = Cardinality(FollowersOf(u))
           /\ Cardinality(FollowersOf(u)) \in Nat
           /\ Cardinality(FollowersOf(u)) > 0 <=> RowsOf(u) # {}
<1> DEFINE second == [f \in RowsOf(u) |-> f[2]]
<1>1. IsFiniteSet(RowsOf(u))
  BY FS_Subset DEF IInv, RowsOf
<1>2. ASSUME NEW f \in RowsOf(u)
      PROVE  f = <<u, f[2]>> /\ f[2] \in FollowersOf(u)
  <2>1. f \in followers /\ f[1] = u /\ f \in Existing \X Existing
    BY DEF IInv, TypeOK, RowsOf
  <2>2. f = <<u, f[2]>> /\ f[2] \in Users
    BY <2>1 DEF Existing
  <2> QED
    BY <2>1, <2>2 DEF FollowersOf
<1>3. \A v \in FollowersOf(u) : <<u, v>> \in RowsOf(u)
  BY DEF FollowersOf, RowsOf
<1>4. second \in Bijection(RowsOf(u), FollowersOf(u))
  <2>1. second \in [RowsOf(u) -> FollowersOf(u)]
    BY <1>2
  <2>2. \A f, g \in RowsOf(u) : second[f] = second[g] => f = g
    BY <1>2
  <2>3. \A v \in FollowersOf(u) : second[<<u, v>>] = v
    BY <1>3
  <2> QED
    BY <1>3, <2>1, <2>2, <2>3, Zenon
       DEF Bijection, Injection, Surjection, IsInjective
<1>5. ExistsBijection(RowsOf(u), FollowersOf(u))
  BY <1>4, Zenon DEF ExistsBijection
<1>6. /\ Cardinality(RowsOf(u)) = Cardinality(FollowersOf(u))
      /\ Cardinality(RowsOf(u)) \in Nat
  BY <1>1, <1>5, FS_Bijection, FS_CardinalityType
<1>7. Cardinality(RowsOf(u)) = 0 <=> RowsOf(u) = {}
  BY <1>1, FS_EmptySet
<1> QED
  BY <1>6, <1>7

\* A post of u is joined with all rows of u's, one of another user with the
\* row, if any, that says that user follows u.
LEMMA JoinOfPost ==
    ASSUME IInv, NEW u \in Users, NEW p \in live
    PROVE  {f \in followers : <<p, f>> \in Joined(u)} =
               IF author[p] = u THEN RowsOf(u)
               ELSE IF author[p] \in FollowersOf(u) THEN {<<u, author[p]>>}
               ELSE {}
<1>1. \A f \in followers : <<p, f>> \in Joined(u) <=>
          (f[2] = author[p] \/ author[p] = u) /\ f[1] = u
  BY DEF Joined
<1>2. \A f \in followers : f = <<f[1], f[2]>> /\ f[2] \in Users
  BY DEF IInv, TypeOK, Existing
<1>3. CASE author[p] = u
  BY <1>1, <1>3 DEF RowsOf
<1>4. CASE author[p] # u /\ author[p] \in FollowersOf(u)
  <2>1. <<u, author[p]>> \in followers
    BY <1>4 DEF FollowersOf
  <2> QED
    BY <1>1, <1>2, <1>4, <2>1
<1>5. CASE author[p] # u /\ author[p] \notin FollowersOf(u)
  BY <1>1, <1>2, <1>5 DEF FollowersOf
<1> QED
  BY <1>3, <1>4, <1>5

\* The posts with a row: those of the followers of u, and u's own as soon as
\* there is a follower.
LEMMA PostsOfFeed ==
    ASSUME IInv, NEW u \in Users, NEW p
    PROVE  p \in {j[1] : j \in Joined(u)} <=>
               /\ p \in live
               /\ \/ author[p] \in FollowersOf(u)
                  \/ author[p] = u /\ RowsOf(u) # {}
<1>1. p \in {j[1] : j \in Joined(u)} <=>
          p \in live /\ \E f \in followers : <<p, f>> \in Joined(u)
  <2>1. \A j \in Joined(u) : j = <<j[1], j[2]>> /\ j[1] \in live
                                              /\ j[2] \in followers
    BY DEF Joined
  <2>2. \A f \in followers : <<p, f>> \in Joined(u) => p = <<p, f>>[1]
    OBVIOUS
  <2> QED
    BY <2>1, <2>2
<1>2. p \in live =>
          ((\E f \in followers : <<p, f>> \in Joined(u)) <=>
           {f \in followers : <<p, f>> \in Joined(u)} # {})
  OBVIOUS
<1>3. author[p] = u /\ u \in FollowersOf(u) => RowsOf(u) # {}
  BY DEF FollowersOf, RowsOf
<1> QED
  BY <1>1, <1>2, <1>3, JoinOfPost

\* The count of the comments of a post, once for each row joined with.
LEMMA CountsOfFeed ==
    ASSUME IInv, NEW u \in Users, NEW p \in live,
           author[p] = u \/ author[p] \in FollowersOf(u)
    PROVE  comments[p]
               * Cardinality({f \in followers : <<p, f>> \in Joined(u)})
           = IF author[p] = u THEN comments[p] * Cardinality(FollowersOf(u))
             ELSE comments[p]
<1>1. PICK n \in 0..MaxPosts : author \in [1..n -> Users]
  BY DEF IInv, TypeOK
<1>2. p \in PostIds /\ comments[p] \in Nat
  BY <1>1, FollowersAssumption DEF IInv, TypeOK, PostIds
<1>3. CASE author[p] = u
  BY <1>3, JoinOfPost, CountOfRows
<1>4. CASE author[p] # u
  <2>1. Cardinality({f \in followers : <<p, f>> \in Joined(u)}) = 1
    BY <1>4, JoinOfPost, FS_Singleton
  <2> QED
    BY <1>2, <1>4, <2>1
<1> QED
  BY <1>3, <1>4

\* The feed of a user is what the query was found to amount to.
LEMMA FeedOfUser == IInv => FeedIsOfFollowers
<1> SUFFICES ASSUME IInv, NEW u \in Users
             PROVE  LET n == Cardinality(FollowersOf(u))
                        Own == [p \in {q \in live : author[q] = u}
                                    |-> comments[p] * n]
                        Theirs == [p \in {q \in live : author[q] # u}
                                       |-> comments[p]]
                        Shown == {p \in live : author[p] \in FollowersOf(u)}
                                 \cup {p \in DOMAIN Own : n > 0}
                    IN  UserFeed(u) =
                            {[post |-> p, comments_count |->
                                 IF author[p] = u THEN Own[p] ELSE Theirs[p]]
                                : p \in Shown}
  BY DEF FeedIsOfFollowers
<1> DEFINE n == Cardinality(FollowersOf(u))
           Own == [p \in {q \in live : author[q] = u} |-> comments[p] * n]
           Theirs == [p \in {q \in live : author[q] # u} |-> comments[p]]
           Shown == {p \in live : author[p] \in FollowersOf(u)}
                    \cup {p \in DOMAIN Own : n > 0}
           Posts == {j[1] : j \in Joined(u)}
           Count(p) == comments[p]
               * Cardinality({f \in followers : <<p, f>> \in Joined(u)})
           Told(p) == IF author[p] = u THEN Own[p] ELSE Theirs[p]
<1>1. Posts = Shown
  <2>1. \A p : p \in Shown <=> /\ p \in live
                               /\ \/ author[p] \in FollowersOf(u)
                                  \/ author[p] = u /\ n > 0
    OBVIOUS
  <2>2. n > 0 <=> RowsOf(u) # {}
    BY CountOfRows
  <2>3. \A p : p \in Posts <=> /\ p \in live
                               /\ \/ author[p] \in FollowersOf(u)
                                  \/ author[p] = u /\ RowsOf(u) # {}
    BY PostsOfFeed
  <2> HIDE DEF n, Shown, Posts
  <2> QED
    BY <2>1, <2>2, <2>3
<1>2. ASSUME NEW p \in Shown
      PROVE  Count(p) = Told(p)
  <2>1. p \in live /\ (author[p] = u \/ author[p] \in FollowersOf(u))
    BY <1>2
  <2>2. Count(p) = IF author[p] = u THEN comments[p] * n ELSE comments[p]
    BY <2>1, CountsOfFeed
  <2>3. Told(p) = IF author[p] = u THEN comments[p] * n ELSE comments[p]
    BY <2>1
  <2> QED
    BY <2>2, <2>3
<1>3. UserFeed(u) = {[post |-> p, comments_count |-> Count(p)] : p \in Posts}
  BY DEF UserFeed
<1> HIDE DEF n, Own, Theirs, Shown, Posts, Count, Told
<1>4. {[post |-> p, comments_count |-> Count(p)] : p \in Posts}
          = {[post |-> p, comments_count |-> Told(p)] : p \in Shown}
  BY <1>1, <1>2
<1> QED
  BY <1>3, <1>4 DEF n, Own, Theirs, Shown, Told

\* For any number of users and posts, after any history of follows, deletions
\* and failures, the feed of a user has the posts of those who follow him, and
\* his own, with the comments multiplied, once somebody does.
THEOREM FeedIsAlwaysOfFollowers == Spec => []FeedIsOfFollowers
  BY FeedOfUser, Invariance, PTL

(***************************************************************************)
(* The seed.                                                               *)
(***************************************************************************)
\* A run that is inserting users has the names so far; one that was committed
\* has all of them, and only such a run has posts.
SeedInv ==
    /\ Fill!TypeOK
    /\ \A r \in Runs :
        /\ stage[r] = "users"
               => \A i \in Fill!Names : i <= count[r] => name[i] = r
        /\ stage[r] = "commit" => \A i \in Fill!Names : name[i] = r
        /\ r \in committed
               => /\ stage[r] \notin {"start", "users", "commit"}
                  /\ \A i \in Fill!Names : name[i] = r
        /\ seeded[r] > 0 => r \in committed
        /\ stage[r] \in {"start", "users", "commit"} => seeded[r] = 0
        /\ stage[r] = "posts" => count[r] = seeded[r]
        /\ stage[r] = "comments"
               => count[r] = remarks[r] /\ seeded[r] = NumPosts
        /\ stage[r] \in {"start", "users", "commit", "posts"}
               => remarks[r] = 0
        /\ remarks[r] > 0 => seeded[r] = NumPosts

LEMMA SeedConstants ==
    /\ NumUsers \in Nat \ {0} /\ NumPosts \in Nat /\ NumComments \in Nat
    /\ Nobody # Visitor /\ \A r \in Runs : r # Nobody /\ r # Visitor
    /\ Fill!Names = 1..NumUsers
  BY FeedsAssumption DEF Fill!Parameters, Fill!Names

LEMMA SeedInit == Fill!Init => SeedInv
  BY SeedConstants DEF Fill!Init, SeedInv, Fill!TypeOK

\* A run goes on to its next stage, or ends, with none or all of its names.
LEMMA SeedGoto ==
    ASSUME SeedInv, NEW r \in Runs, NEW next, Fill!Goto(r, next),
           next \in {"users", "commit", "posts", "comments", "ended"},
           UNCHANGED <<seeded, remarks>>,
           \/ UNCHANGED <<name, committed>> /\ next # "commit"
           \/ Fill!Rollback(r) /\ UNCHANGED committed /\ next # "commit"
           \/ /\ UNCHANGED name /\ committed' = committed \cup {r}
              /\ stage[r] = "commit" /\ next = "posts"
           \/ /\ UNCHANGED committed /\ next = "commit"
              /\ name' = [name EXCEPT ![count[r] + 1] = r]
              /\ count[r] + 1 = NumUsers /\ name[count[r] + 1] = Nobody,
           next = "users" => stage[r] = "start",
           next = "posts" => stage[r] = "commit",
           next = "comments" => stage[r] = "posts" /\ count[r] = NumPosts,
           next = "commit" => stage[r] = "users"
    PROVE  SeedInv'
<1>1. /\ stage' = [stage EXCEPT ![r] = next]
      /\ count' = [count EXCEPT ![r] = 0]
      /\ seeded' = seeded /\ remarks' = remarks
  BY DEF Fill!Goto
<1>2. Fill!TypeOK
  BY DEF SeedInv
<1>3. Fill!TypeOK'
  BY <1>1, <1>2, SeedConstants DEF Fill!TypeOK, Fill!Rollback
<1>4. ASSUME NEW s \in Runs, s # r
      PROVE  /\ stage'[s] = stage[s] /\ count'[s] = count[s]
             /\ s \in committed' <=> s \in committed
             /\ \A i \in Fill!Names : name[i] = s => name'[i] = s
  BY <1>1, <1>2, <1>4, SeedConstants DEF Fill!TypeOK, Fill!Rollback
<1>5. stage'[r] = next /\ count'[r] = 0
  BY <1>1, <1>2 DEF Fill!TypeOK
<1>6. r \in committed' => \A i \in Fill!Names : name'[i] = r
  BY <1>2, SeedConstants DEF SeedInv, Fill!TypeOK, Fill!Rollback
<1>7. next = "commit" => \A i \in Fill!Names : name'[i] = r
  <2> SUFFICES ASSUME next = "commit", NEW i \in Fill!Names
               PROVE  name'[i] = r
    OBVIOUS
  <2>1. name' = [name EXCEPT ![count[r] + 1] = r] /\ count[r] + 1 = NumUsers
    OBVIOUS
  <2>2. /\ i <= count[r] => name[i] = r
        /\ i <= NumUsers /\ i \in Nat /\ count[r] \in Nat
    BY <1>2, SeedConstants DEF SeedInv, Fill!TypeOK
  <2>3. i <= count[r] \/ i = count[r] + 1
    BY <2>1, <2>2, SeedConstants
  <2> QED
    BY <1>2, <2>1, <2>2, <2>3 DEF Fill!TypeOK
<1>8. r \in committed' => next \notin {"start", "users", "commit"}
  BY DEF SeedInv
<1>9. /\ seeded[r] > 0 => r \in committed'
      /\ next \in {"users", "commit", "posts"}
             => seeded[r] = 0 /\ remarks[r] = 0
      /\ next = "comments" => remarks[r] = 0 /\ seeded[r] = NumPosts
      /\ remarks[r] > 0 => seeded[r] = NumPosts
  BY DEF SeedInv
<1>10. next = "users" => \A i \in Fill!Names : ~(i <= 0)
  BY SeedConstants
<1> HIDE DEF SeedInv
<1>11. ASSUME NEW s \in Runs
       PROVE
        /\ stage'[s] = "users"
               => \A i \in Fill!Names : i <= count'[s] => name'[i] = s
        /\ stage'[s] = "commit" => \A i \in Fill!Names : name'[i] = s
        /\ s \in committed'
               => /\ stage'[s] \notin {"start", "users", "commit"}
                  /\ \A i \in Fill!Names : name'[i] = s
        /\ seeded'[s] > 0 => s \in committed'
        /\ stage'[s] \in {"start", "users", "commit"} => seeded'[s] = 0
        /\ stage'[s] = "posts" => count'[s] = seeded'[s]
        /\ stage'[s] = "comments"
               => count'[s] = remarks'[s] /\ seeded'[s] = NumPosts
        /\ stage'[s] \in {"start", "users", "commit", "posts"}
               => remarks'[s] = 0
        /\ remarks'[s] > 0 => seeded'[s] = NumPosts
  <2>1. CASE s # r
    BY <1>1, <1>4, <2>1 DEF SeedInv
  <2>2. CASE s = r
    BY <1>1, <1>5, <1>6, <1>7, <1>8, <1>9, <1>10, <2>2
  <2> QED
    BY <2>1, <2>2
<1> QED
  BY <1>3, <1>11 DEF SeedInv

\* A run inserts a row, and stays in its stage.
LEMMA SeedInsert ==
    ASSUME SeedInv, NEW r \in Runs, Fill!Insert(r), UNCHANGED committed,
           \/ /\ stage[r] = "users" /\ count[r] + 1 \in Fill!Names
              /\ name[count[r] + 1] = Nobody
              /\ name' = [name EXCEPT ![count[r] + 1] = r]
              /\ UNCHANGED <<seeded, remarks>>
           \/ /\ stage[r] = "posts" /\ count[r] # NumPosts
              /\ r \in committed /\ seeded' = [seeded EXCEPT ![r] = @ + 1]
              /\ UNCHANGED <<name, remarks>>
           \/ /\ stage[r] = "comments" /\ count[r] # NumComments
              /\ remarks' = [remarks EXCEPT ![r] = @ + 1]
              /\ UNCHANGED <<name, seeded>>
    PROVE  SeedInv'
<1>1. /\ count' = [count EXCEPT ![r] = @ + 1] /\ stage' = stage
      /\ committed' = committed
  BY DEF Fill!Insert
<1>2. Fill!TypeOK
  BY DEF SeedInv
<1>3. CASE stage[r] = "users"
  <2>1. /\ count[r] + 1 \in Fill!Names /\ name[count[r] + 1] = Nobody
        /\ name' = [name EXCEPT ![count[r] + 1] = r]
        /\ seeded' = seeded /\ remarks' = remarks
    BY <1>3
  <2>2. Fill!TypeOK'
    BY <1>1, <1>2, <2>1 DEF Fill!TypeOK
  <2>3. ASSUME NEW s \in Runs, NEW i \in Fill!Names, name[i] = s
        PROVE  name'[i] = s
    BY <1>2, <2>1, <2>3, SeedConstants DEF Fill!TypeOK
  <2>4. ASSUME NEW i \in Fill!Names, i <= count[r] + 1
        PROVE  name'[i] = r
    <3>1. i <= count[r] \/ i = count[r] + 1
      BY <1>2, <2>4, SeedConstants DEF Fill!TypeOK
    <3>2. i <= count[r] => name[i] = r
      BY <1>3 DEF SeedInv
    <3> QED
      BY <1>2, <2>1, <3>1, <3>2 DEF Fill!TypeOK
  <2>5. \A s \in Runs : count'[s] = IF s = r THEN count[r] + 1 ELSE count[s]
    BY <1>1, <1>2 DEF Fill!TypeOK
  <2> QED
    BY <1>1, <1>3, <2>1, <2>2, <2>3, <2>4, <2>5 DEF SeedInv
<1>4. CASE stage[r] = "posts"
  <2>1. /\ count[r] # NumPosts /\ r \in committed
        /\ seeded' = [seeded EXCEPT ![r] = @ + 1]
        /\ name' = name /\ remarks' = remarks
    BY <1>4
  <2>2. /\ count[r] = seeded[r] /\ seeded[r] \in 0..NumPosts
        /\ seeded[r] + 1 \in 0..NumPosts /\ seeded[r] + 1 \in Nat
    BY <1>2, <1>4, <2>1, SeedConstants DEF SeedInv, Fill!TypeOK
  <2>3. Fill!TypeOK'
    BY <1>1, <1>2, <2>1, <2>2 DEF Fill!TypeOK
  <2>4. \A s \in Runs :
            /\ count'[s] = IF s = r THEN count[r] + 1 ELSE count[s]
            /\ seeded'[s] = IF s = r THEN seeded[r] + 1 ELSE seeded[s]
    BY <1>1, <1>2, <2>1 DEF Fill!TypeOK
  <2>5. remarks[r] = 0
    BY <1>4 DEF SeedInv
  <2> QED
    BY <1>1, <1>4, <2>1, <2>2, <2>3, <2>4, <2>5 DEF SeedInv
<1>5. CASE stage[r] = "comments"
  <2>1. /\ count[r] # NumComments
        /\ remarks' = [remarks EXCEPT ![r] = @ + 1]
        /\ name' = name /\ seeded' = seeded
    BY <1>5
  <2>2. /\ count[r] = remarks[r] /\ seeded[r] = NumPosts
        /\ remarks[r] + 1 \in 0..NumComments /\ remarks[r] + 1 \in Nat
    BY <1>2, <1>5, <2>1, SeedConstants DEF SeedInv, Fill!TypeOK
  <2>3. Fill!TypeOK'
    BY <1>1, <1>2, <2>1, <2>2 DEF Fill!TypeOK
  <2>4. \A s \in Runs :
            /\ count'[s] = IF s = r THEN count[r] + 1 ELSE count[s]
            /\ remarks'[s] = IF s = r THEN remarks[r] + 1 ELSE remarks[s]
    BY <1>1, <1>2, <2>1 DEF Fill!TypeOK
  <2> QED
    BY <1>1, <1>5, <2>1, <2>2, <2>3, <2>4 DEF SeedInv
<1> QED
  BY <1>3, <1>4, <1>5

\* Every step keeps the invariant.
LEMMA SeedNext == SeedInv /\ [Fill!Next]_rows => SeedInv'
<1> SUFFICES ASSUME SeedInv, [Fill!Next]_rows PROVE SeedInv'
  OBVIOUS
<1>1. ASSUME NEW i \in Fill!Names, Fill!Register(i) PROVE SeedInv'
  <2>1. /\ name[i] = Nobody /\ name' = [name EXCEPT ![i] = Visitor]
        /\ UNCHANGED <<committed, stage, count, seeded, remarks>>
    BY <1>1 DEF Fill!Register
  <2>2. Fill!TypeOK'
    BY <2>1 DEF SeedInv, Fill!TypeOK
  <2>3. ASSUME NEW r \in Runs, NEW j \in Fill!Names, name[j] = r
        PROVE  name'[j] = r
    BY <2>1, <2>3, SeedConstants DEF SeedInv, Fill!TypeOK
  <2> QED
    BY <2>1, <2>2, <2>3 DEF SeedInv
<1>2. ASSUME NEW r \in Runs, Fill!Begin(r) PROVE SeedInv'
  BY <1>2, SeedGoto DEF Fill!Begin
<1>3. ASSUME NEW r \in Runs, Fill!CreateUser(r) PROVE SeedInv'
  <2>1. /\ stage[r] = "users" /\ count[r] + 1 \in Fill!Names
        /\ name[count[r] + 1] = Nobody
        /\ name' = [name EXCEPT ![count[r] + 1] = r]
        /\ IF count[r] + 1 = NumUsers THEN Fill!Goto(r, "commit")
           ELSE Fill!Insert(r)
        /\ UNCHANGED <<committed, seeded, remarks>>
    BY <1>3 DEF Fill!CreateUser, Fill!Free
  <2>2. CASE count[r] + 1 = NumUsers
    BY <2>1, <2>2, SeedGoto
  <2>3. CASE count[r] + 1 # NumUsers
    BY <2>1, <2>3, SeedInsert
  <2> QED
    BY <2>2, <2>3
<1>4. ASSUME NEW r \in Runs, Fill!Commit(r) PROVE SeedInv'
  BY <1>4, SeedGoto DEF Fill!Commit
<1>5. ASSUME NEW r \in Runs, Fill!CreatePost(r) PROVE SeedInv'
  BY <1>5, SeedGoto, SeedInsert DEF Fill!CreatePost
<1>6. ASSUME NEW r \in Runs, Fill!CreateComment(r) PROVE SeedInv'
  BY <1>6, SeedGoto, SeedInsert DEF Fill!CreateComment
<1>7. ASSUME NEW r \in Runs, Fill!Stops(r) PROVE SeedInv'
  BY <1>7, SeedGoto DEF Fill!Stops
<1>8. CASE UNCHANGED rows
  BY <1>8 DEF rows, SeedInv, Fill!TypeOK
<1> QED
  BY <1>1, <1>2, <1>3, <1>4, <1>5, <1>6, <1>7, <1>8 DEF Fill!Next

\* Two runs that were committed have the first name both.
LEMMA SeedOnce == SeedInv => Fill!SeededOnce
<1> SUFFICES ASSUME SeedInv PROVE Fill!SeededOnce
  OBVIOUS
<1>1. 1 \in Fill!Names
  BY SeedConstants
<1>2. ASSUME NEW r \in Runs, NEW s \in Runs, seeded[r] > 0, seeded[s] > 0
      PROVE  r = s
  <2>1. name[1] = r /\ name[1] = s
    BY <1>1, <1>2 DEF SeedInv
  <2> QED
    BY <2>1
<1> QED
  BY <1>2 DEF SeedInv, Fill!SeededOnce

(***************************************************************************)
(* The feed of all, page by page.                                          *)
(*                                                                         *)
(* A post that shares its second with no other one is alone.  For one that *)
(* a reader has not seen, and that matched all the time, either enough     *)
(* posts are ahead of it that are not such posts themselves, or it is one  *)
(* of the few that slipped ahead of the offset when another one left.  For *)
(* one that was seen, the posts ahead of it, and the seen ones that are    *)
(* not, were all ahead of the offset, but for what came meanwhile.         *)
(*                                                                         *)
(* The order of the posts is that of a rank, which is the second of a post *)
(* or what is left of the time from there, by the order of the query.      *)
(***************************************************************************)
Rank(sort) == [p \in DOMAIN created |->
                  IF sort = "asc" THEN created[p] ELSE MaxTime - created[p]]

Alone(k, p) == \A r \in DOMAIN k : k[r] = k[p] => r = p

LoneIn(k, T) == {p \in T : Alone(k, p)}

Ahead(k, M, p) == {r \in M : k[r] < k[p]}

UpTo(k, U, p) == {r \in U : k[r] <= k[p]}

From(k, V, p) == {v \in V : k[v] >= k[p]}

\* M: what matches; U: what is not seen; g: how many left; n: the next offset.
FewMissed(k, M, U, g, n) ==
    \A p \in U : \/ Cardinality(Ahead(k, M, p) \ U) + g >= n
                 \/ Cardinality(UpTo(k, U, p)) <= g

\* V: what was seen; c: how many came and were not a reason to repeat yet.
FewRepeated(k, M, V, c, n) ==
    \A p \in V : Cardinality(Ahead(k, M, p)) + Cardinality(From(k, V, p))
                     <= n + c

\* The pages of All!Slices, by rank.
Cut(k, M, B, S, n, l) ==
    /\ B \subseteq M /\ S \subseteq M /\ B \cap S = {}
    /\ Cardinality(B) <= n /\ Cardinality(S) <= l
    /\ \A p \in S, r \in B : k[r] <= k[p]
    /\ \A p \in M \ (S \cup B), r \in S \cup B : k[r] <= k[p]
    /\ S # {} => Cardinality(B) = n
    /\ M \ (S \cup B) # {} => Cardinality(B) = n /\ Cardinality(S) = l

\* What is read, while there is another page.
Reading ==
    LET k == Rank(query.sort)
        M == All!Matching(query)
        n == query.offset + query.limit
    IN  /\ query.limit \in 1..MaxLimit /\ owed \subseteq M
        /\ FewMissed(k, M, LoneIn(k, owed \ seen), gone, n)
        /\ FewRepeated(k, M, LoneIn(k, seen), come - repeats, n)

PageInv ==
    /\ All!TypeOK /\ All!MissedBound /\ All!RepeatsBound
    /\ status \in {"idle", "bad"} =>
           /\ gone = 0 /\ come = 0 /\ repeats = 0
           /\ seen = {} /\ owed = {}
    /\ status = "reading" => Reading
-----------------------------------------------------------------------------
(* Sets of posts.                                                          *)

\* A set of numbers has a least one.
LEMMA Least ==
    ASSUME NEW T \in SUBSET Nat, T # {}
    PROVE  \E x \in T : \A y \in T : x <= y
<1>1. PICK x \in T : \A y \in T : <<y, x>> \notin OpToRel(<, Nat)
  BY NatLessThanWellFounded, WFMin
<1>2. \A y \in T : ~(y < x)
  BY <1>1 DEF OpToRel
<1> QED
  BY <1>2

\* Posts have a first one and a last one.
LEMMA FirstAndLast ==
    ASSUME NEW D, NEW m \in Nat, NEW k \in [D -> 0..m],
           NEW Q \in SUBSET D, Q # {}
    PROVE  /\ \E q \in Q : \A r \in Q : k[q] <= k[r]
           /\ \E q \in Q : \A r \in Q : k[r] <= k[q]
<1>1. PICK x \in {k[q] : q \in Q} : \A y \in {k[q] : q \in Q} : x <= y
  <2>1. {k[q] : q \in Q} \in SUBSET Nat /\ {k[q] : q \in Q} # {}
    OBVIOUS
  <2> QED
    BY <2>1, Least
<1>2. PICK z \in {m - k[q] : q \in Q} : \A y \in {m - k[q] : q \in Q} : z <= y
  <2>1. {m - k[q] : q \in Q} \in SUBSET Nat /\ {m - k[q] : q \in Q} # {}
    OBVIOUS
  <2> QED
    BY <2>1, Least
<1>3. \E q \in Q : \A r \in Q : k[q] <= k[r]
  BY <1>1
<1>4. \E q \in Q : \A r \in Q : k[r] <= k[q]
  <2>1. PICK q \in Q : z = m - k[q]
    BY <1>2
  <2>2. ASSUME NEW r \in Q PROVE k[r] <= k[q]
    <3>1. m - k[q] <= m - k[r]
      BY <1>2, <2>1
    <3> QED
      BY <3>1
  <2> QED
    BY <2>2
<1> QED
  BY <1>3, <1>4

\* A part of a set is no larger.
LEMMA PartSize ==
    ASSUME NEW T, IsFiniteSet(T), NEW P \in SUBSET T
    PROVE  /\ IsFiniteSet(P)
           /\ Cardinality(P) \in Nat /\ Cardinality(T) \in Nat
           /\ Cardinality(P) <= Cardinality(T)
  BY FS_Subset, FS_CardinalityType

\* The sizes of two sets of which neither has a member of the other one.
LEMMA SizeOfBoth ==
    ASSUME NEW P, NEW Q, IsFiniteSet(P), IsFiniteSet(Q), P \cap Q = {}
    PROVE  /\ IsFiniteSet(P \cup Q)
           /\ Cardinality(P) \in Nat /\ Cardinality(Q) \in Nat
           /\ Cardinality(P \cup Q) = Cardinality(P) + Cardinality(Q)
<1>1. Cardinality(P) \in Nat /\ Cardinality(Q) \in Nat
  BY FS_CardinalityType
<1>2. Cardinality(P \cap Q) = 0
  BY FS_EmptySet
<1>3. /\ IsFiniteSet(P \cup Q)
      /\ Cardinality(P \cup Q)
             = Cardinality(P) + Cardinality(Q) - Cardinality(P \cap Q)
  BY FS_Union
<1> QED
  BY <1>1, <1>2, <1>3

\* What is left of a set.
LEMMA SizeOfRest ==
    ASSUME NEW P, NEW Q, IsFiniteSet(P)
    PROVE  /\ Cardinality(P \ Q) \in Nat /\ Cardinality(P \cap Q) \in Nat
           /\ Cardinality(P) \in Nat
           /\ Cardinality(P \ Q) = Cardinality(P) - Cardinality(P \cap Q)
  BY FS_Difference, FS_Intersection, FS_CardinalityType

(* The turn of a page.                                                     *)

\* The posts that slipped ahead of the offset are no more than those that left.
LEMMA SlippedAhead ==
    ASSUME NEW D, NEW m \in Nat, NEW k \in [D -> 0..m], IsFiniteSet(D),
           NEW M \in SUBSET D, NEW B, NEW S, NEW n \in Nat, NEW l \in Nat,
           Cut(k, M, B, S, n, l), NEW g \in Nat,
           NEW U \in SUBSET M, \A p \in U : Alone(k, p),
           FewMissed(k, M, U, g, n)
    PROVE  Cardinality(U \cap B) \in Nat /\ Cardinality(U \cap B) <= g
<1> DEFINE Q == U \cap B
<1>1. B \subseteq D /\ IsFiniteSet(B) /\ IsFiniteSet(U)
  BY FS_Subset DEF Cut
<1>2. Q \in SUBSET B /\ Q \in SUBSET U /\ IsFiniteSet(Q)
      /\ Cardinality(Q) \in Nat
  BY <1>1, PartSize
<1>3. CASE Q = {}
  BY <1>3, FS_EmptySet
<1>4. CASE Q # {}
  <2>1. PICK q \in Q : \A r \in Q : k[r] <= k[q]
    BY <1>1, <1>2, <1>4, FirstAndLast
  <2>2. CASE Cardinality(UpTo(k, U, q)) <= g
    <3>1. Q \in SUBSET UpTo(k, U, q) /\ IsFiniteSet(UpTo(k, U, q))
      BY <1>1, <2>1, FS_Subset DEF UpTo
    <3> QED
      BY <2>2, <3>1, PartSize
  <2>3. CASE Cardinality(Ahead(k, M, q) \ U) + g >= n
    <3>1. ASSUME NEW r \in Ahead(k, M, q)
          PROVE  r \in B
      <4>1. r \in M /\ k[r] < k[q] /\ q \in B /\ r \in D /\ q \in D
        BY <1>1, <3>1 DEF Ahead
      <4>2. r \notin S /\ r \notin M \ (S \cup B)
        BY <4>1 DEF Cut
      <4> QED
        BY <4>1, <4>2
    <3>2. Ahead(k, M, q) \ U \in SUBSET (B \ Q)
      BY <3>1
    <3>3. /\ Cardinality(Ahead(k, M, q) \ U) \in Nat
          /\ Cardinality(Ahead(k, M, q) \ U) <= Cardinality(B \ Q)
      BY <1>1, <3>2, FS_Difference, PartSize
    <3>4. /\ Cardinality(B \ Q) = Cardinality(B) - Cardinality(Q)
          /\ Cardinality(B) \in Nat
      <4>1. B \cap Q = Q
        OBVIOUS
      <4> HIDE DEF Q
      <4> QED
        BY <1>1, <4>1, SizeOfRest
    <3>5. Cardinality(B) <= n
      BY DEF Cut
    <3>6. Cardinality(Q) <= g
      <4> HIDE DEF Q
      <4> QED
        BY <1>2, <2>3, <3>3, <3>4, <3>5
    <3> QED
      BY <1>2, <3>6
  <2> QED
    BY <2>2, <2>3 DEF FewMissed
<1> QED
  BY <1>2, <1>3, <1>4

\* What is not seen, after a page, and when it was the last one.
LEMMA TurnMissed ==
    ASSUME NEW D, NEW m \in Nat, NEW k \in [D -> 0..m], IsFiniteSet(D),
           NEW M \in SUBSET D, NEW B, NEW S, NEW n \in Nat, NEW l \in Nat,
           Cut(k, M, B, S, n, l), NEW g \in Nat,
           NEW U \in SUBSET M, \A p \in U : Alone(k, p),
           FewMissed(k, M, U, g, n)
    PROVE  /\ FewMissed(k, M, U \ S, g, n + l)
           /\ Cardinality(S) < l => Cardinality(U \ S) <= g
<1> DEFINE Q == U \cap B
<1>1. /\ B \subseteq M /\ S \subseteq M /\ B \cap S = {}
      /\ IsFiniteSet(B) /\ IsFiniteSet(S) /\ IsFiniteSet(M)
      /\ Cardinality(B) \in Nat /\ Cardinality(S) \in Nat
  BY PartSize, FS_Subset DEF Cut
<1>2. Q \in SUBSET B /\ IsFiniteSet(Q) /\ Cardinality(Q) \in Nat
      /\ Cardinality(Q) <= g
  BY <1>1, SlippedAhead, FS_Subset
<1>3. \A p \in U : \A r \in M : k[r] = k[p] => r = p
  BY DEF Alone
<1>4. ASSUME NEW p \in U \ S, p \in B
      PROVE  Cardinality(UpTo(k, U \ S, p)) <= g
  <2>1. ASSUME NEW r \in UpTo(k, U \ S, p)
        PROVE  r \in Q
    <3>1. r \in U \ S /\ k[r] <= k[p] /\ r \in D /\ p \in D
      BY <1>4, <2>1 DEF UpTo
    <3>2. CASE r \in M \ (S \cup B)
      <4>1. k[p] <= k[r]
        BY <1>4, <3>2 DEF Cut
      <4>2. k[r] = k[p]
        BY <3>1, <4>1
      <4> QED
        BY <1>3, <1>4, <3>2, <4>2
    <3> QED
      BY <3>1, <3>2
  <2>2. UpTo(k, U \ S, p) \in SUBSET Q
    BY <2>1
  <2> HIDE DEF Q
  <2>3. /\ Cardinality(UpTo(k, U \ S, p)) \in Nat
        /\ Cardinality(UpTo(k, U \ S, p)) <= Cardinality(Q)
    BY <1>2, <2>2, PartSize
  <2> QED
    BY <1>2, <2>3
<1>5. ASSUME NEW p \in U \ S, p \notin B
      PROVE  Cardinality(Ahead(k, M, p) \ (U \ S)) + g >= n + l
  <2>1. p \in M \ (S \cup B)
    BY <1>5
  <2>2. Cardinality(B) = n /\ Cardinality(S) = l
    BY <2>1 DEF Cut
  <2>3. ASSUME NEW r \in S \cup B
        PROVE  r \in Ahead(k, M, p)
    <3>1. k[r] <= k[p] /\ r \in M /\ r # p /\ r \in D /\ p \in D
      BY <1>1, <2>1, <2>3 DEF Cut
    <3>2. k[r] # k[p]
      BY <1>3, <1>5, <3>1
    <3> QED
      BY <3>1, <3>2 DEF Ahead
  <2>4. /\ S \cup (B \ Q) \in SUBSET (Ahead(k, M, p) \ (U \ S))
        /\ S \cap (B \ Q) = {}
    BY <1>1, <2>3
  <2>5. IsFiniteSet(Ahead(k, M, p) \ (U \ S)) /\ IsFiniteSet(B \ Q)
    BY <1>1, FS_Subset DEF Ahead
  <2> HIDE DEF Q
  <2>6. Cardinality(S \cup (B \ Q)) = Cardinality(S) + Cardinality(B \ Q)
    BY <1>1, <2>4, <2>5, SizeOfBoth
  <2>7. Cardinality(B \ Q) = Cardinality(B) - Cardinality(Q)
    <3>1. B \cap Q = Q
      BY <1>2
    <3> QED
      BY <1>1, <3>1, SizeOfRest
  <2>8. /\ Cardinality(Ahead(k, M, p) \ (U \ S)) \in Nat
        /\ Cardinality(S \cup (B \ Q))
               <= Cardinality(Ahead(k, M, p) \ (U \ S))
    BY <2>4, <2>5, PartSize
  <2>9. Cardinality(S \cup (B \ Q)) = l + (n - Cardinality(Q))
    BY <2>2, <2>6, <2>7
  <2>10. n + l <= Cardinality(S \cup (B \ Q)) + g
    BY <1>2, <2>9
  <2> QED
    BY <1>1, <1>2, <2>8, <2>9, <2>10
<1>6. ASSUME Cardinality(S) < l
      PROVE  Cardinality(U \ S) <= g
  <2>1. M \ (S \cup B) = {}
    BY <1>1, <1>6 DEF Cut
  <2>2. U \ S \in SUBSET Q
    BY <2>1
  <2> HIDE DEF Q
  <2>3. Cardinality(U \ S) \in Nat /\ Cardinality(U \ S) <= Cardinality(Q)
    BY <1>2, <2>2, PartSize
  <2> QED
    BY <1>2, <2>3
<1> QED
  BY <1>4, <1>5, <1>6 DEF FewMissed

\* What a page repeats is no more than what came.
LEMMA RepeatedHere ==
    ASSUME NEW D, NEW m \in Nat, NEW k \in [D -> 0..m], IsFiniteSet(D),
           NEW M \in SUBSET D, NEW B, NEW S, NEW n \in Nat, NEW l \in Nat,
           Cut(k, M, B, S, n, l), NEW c \in Nat,
           NEW V \in SUBSET D, \A p \in V : Alone(k, p),
           FewRepeated(k, M, V, c, n)
    PROVE  Cardinality(S \cap V) \in Nat /\ Cardinality(S \cap V) <= c
<1> DEFINE R == S \cap V
<1>1. /\ B \subseteq M /\ S \subseteq M /\ B \cap S = {} /\ IsFiniteSet(M)
      /\ IsFiniteSet(V) /\ IsFiniteSet(R) /\ R \in SUBSET D
      /\ Cardinality(R) \in Nat
  BY PartSize, FS_Subset DEF Cut
<1>2. CASE R = {}
  BY <1>2, FS_EmptySet
<1>3. CASE R # {}
  <2>1. PICK p \in R : \A r \in R : k[p] <= k[r]
    BY <1>1, <1>3, FirstAndLast
  <2>2. ASSUME NEW r \in B
        PROVE  r \in Ahead(k, M, p)
    <3>1. k[r] <= k[p] /\ r \in M /\ r # p /\ r \in D /\ p \in D
      BY <1>1, <2>2 DEF Cut
    <3>2. k[r] # k[p]
      BY <3>1 DEF Alone
    <3> QED
      BY <3>1, <3>2 DEF Ahead
  <2>3. B \in SUBSET Ahead(k, M, p) /\ IsFiniteSet(Ahead(k, M, p))
    BY <1>1, <2>2, FS_Subset DEF Ahead
  <2>4. R \in SUBSET From(k, V, p) /\ IsFiniteSet(From(k, V, p))
    BY <1>1, <2>1, FS_Subset DEF From
  <2> HIDE DEF R
  <2>5. /\ Cardinality(B) <= Cardinality(Ahead(k, M, p))
        /\ Cardinality(Ahead(k, M, p)) \in Nat
    BY <2>3, PartSize
  <2>6. /\ Cardinality(R) <= Cardinality(From(k, V, p))
        /\ Cardinality(From(k, V, p)) \in Nat
    BY <2>4, PartSize
  <2>7. Cardinality(B) = n
    BY DEF Cut, R
  <2>8. Cardinality(Ahead(k, M, p)) + Cardinality(From(k, V, p)) <= n + c
    BY DEF FewRepeated, R
  <2>9. Cardinality(R) <= c
    BY <1>1, <2>5, <2>6, <2>7, <2>8
  <2> QED
    BY <1>1, <2>9 DEF R
<1> QED
  BY <1>1, <1>2, <1>3

\* What was seen, after a page.
LEMMA TurnRepeated ==
    ASSUME NEW D, NEW m \in Nat, NEW k \in [D -> 0..m], IsFiniteSet(D),
           NEW M \in SUBSET D, NEW B, NEW S, NEW n \in Nat, NEW l \in Nat,
           Cut(k, M, B, S, n, l), NEW c \in Nat,
           NEW V \in SUBSET D, \A p \in V : Alone(k, p),
           FewRepeated(k, M, V, c, n)
    PROVE  FewRepeated(k, M, V \cup LoneIn(k, S),
                       c - Cardinality(S \cap V), n + l)
<1> DEFINE W == V \cup LoneIn(k, S)
           rep == Cardinality(S \cap V)
<1>1. /\ B \subseteq M /\ S \subseteq M /\ B \cap S = {} /\ IsFiniteSet(M)
      /\ IsFiniteSet(B) /\ IsFiniteSet(S) /\ IsFiniteSet(V)
      /\ W \in SUBSET D /\ IsFiniteSet(W)
  BY FS_Subset DEF Cut, LoneIn
<1>2. rep \in Nat /\ rep <= c
  BY RepeatedHere
<1>3. /\ Cardinality(S \ V) = Cardinality(S) - rep
      /\ Cardinality(S) \in Nat /\ Cardinality(S) <= l
      /\ Cardinality(S \ V) \in Nat /\ IsFiniteSet(S \ V)
  <2>1. Cardinality(S) <= l
    BY DEF Cut
  <2> QED
    BY <1>1, <2>1, SizeOfRest, FS_Subset
<1>4. \A p \in W : IsFiniteSet(From(k, W, p)) /\ IsFiniteSet(From(k, V, p))
                   /\ IsFiniteSet(Ahead(k, M, p))
  BY <1>1, FS_Subset DEF From, Ahead
\* A post that was seen has those of the page after it, or ahead.
<1>5. ASSUME NEW p \in W, NEW q \in V, From(k, V, p) \subseteq From(k, V, q),
             k[q] >= k[p]
      PROVE  Cardinality(Ahead(k, M, p)) + Cardinality(From(k, W, p))
                 <= n + l + (c - rep)
  <2>1. From(k, W, p) \in SUBSET (From(k, V, q) \cup (S \ V))
    BY <1>5 DEF From, LoneIn
  <2>2. Ahead(k, M, p) \in SUBSET Ahead(k, M, q)
    <3>1. ASSUME NEW r \in M, k[r] < k[p]
          PROVE  k[r] < k[q]
      <4>1. r \in D /\ p \in D /\ q \in D
        BY <1>1
      <4> QED
        BY <1>5, <3>1, <4>1
    <3> QED
      BY <3>1 DEF Ahead
  <2>3. IsFiniteSet(From(k, V, q)) /\ IsFiniteSet(Ahead(k, M, q))
    BY <1>4
  <2>4. From(k, V, q) \cap (S \ V) = {}
    BY DEF From
  <2>5. /\ IsFiniteSet(From(k, V, q) \cup (S \ V))
        /\ Cardinality(From(k, V, q)) \in Nat
        /\ Cardinality(From(k, V, q) \cup (S \ V))
               = Cardinality(From(k, V, q)) + Cardinality(S \ V)
    BY <1>3, <2>3, <2>4, SizeOfBoth
  <2>6. /\ Cardinality(From(k, W, p)) \in Nat
        /\ Cardinality(From(k, W, p))
               <= Cardinality(From(k, V, q) \cup (S \ V))
    BY <2>1, <2>5, PartSize
  <2>7. /\ Cardinality(Ahead(k, M, p)) \in Nat
        /\ Cardinality(Ahead(k, M, q)) \in Nat
        /\ Cardinality(Ahead(k, M, p)) <= Cardinality(Ahead(k, M, q))
    BY <2>2, <2>3, PartSize
  <2>8. Cardinality(Ahead(k, M, q)) + Cardinality(From(k, V, q)) <= n + c
    BY DEF FewRepeated
  <2> HIDE DEF W, rep
  <2> QED
    BY <1>2, <1>3, <2>5, <2>6, <2>7, <2>8
\* One with no seen post after it is among the last of the page.
<1>6. ASSUME NEW p \in S, p \in W, From(k, V, p) = {}
      PROVE  Cardinality(Ahead(k, M, p)) + Cardinality(From(k, W, p))
                 <= n + l + (c - rep)
  <2>1. From(k, W, p) \in SUBSET (S \ Ahead(k, S, p))
    <3>1. ASSUME NEW r \in W, k[r] >= k[p]
          PROVE  r \in S /\ ~(k[r] < k[p])
      <4>1. r \notin V
        BY <1>6, <3>1 DEF From
      <4>2. r \in D /\ p \in D
        BY <1>1
      <4> QED
        BY <3>1, <4>1, <4>2 DEF LoneIn
    <3> QED
      BY <3>1 DEF From, Ahead
  <2>2. Ahead(k, M, p) \in SUBSET (B \cup Ahead(k, S, p))
    <3>1. ASSUME NEW r \in M, k[r] < k[p]
          PROVE  r \in B \/ r \in S
      <4>1. r \in D /\ p \in D
        BY <1>1
      <4>2. r \in M \ (S \cup B) => k[p] <= k[r]
        BY DEF Cut
      <4> QED
        BY <3>1, <4>1, <4>2
    <3> QED
      BY <3>1 DEF Ahead
  <2>3. Ahead(k, S, p) \in SUBSET S /\ B \cap Ahead(k, S, p) = {}
    BY <1>1 DEF Ahead
  <2>4. IsFiniteSet(Ahead(k, S, p)) /\ S \cap Ahead(k, S, p) = Ahead(k, S, p)
    BY <1>1, <2>3, FS_Subset
  <2>5. /\ IsFiniteSet(B \cup Ahead(k, S, p))
        /\ Cardinality(B) \in Nat /\ Cardinality(Ahead(k, S, p)) \in Nat
        /\ Cardinality(B \cup Ahead(k, S, p))
               = Cardinality(B) + Cardinality(Ahead(k, S, p))
    BY <1>1, <2>3, <2>4, SizeOfBoth
  <2>6. /\ Cardinality(Ahead(k, M, p)) \in Nat
        /\ Cardinality(Ahead(k, M, p)) <= Cardinality(B \cup Ahead(k, S, p))
    BY <2>2, <2>5, PartSize
  <2>7. /\ IsFiniteSet(S \ Ahead(k, S, p))
        /\ Cardinality(S \ Ahead(k, S, p)) \in Nat
        /\ Cardinality(S \ Ahead(k, S, p))
               = Cardinality(S) - Cardinality(Ahead(k, S, p))
    <3>1. /\ IsFiniteSet(S \ Ahead(k, S, p))
          /\ Cardinality(S \ Ahead(k, S, p)) \in Nat
          /\ Cardinality(S \ Ahead(k, S, p))
                 = Cardinality(S) - Cardinality(S \cap Ahead(k, S, p))
      BY <1>1, SizeOfRest, FS_Difference
    <3> QED
      BY <2>4, <3>1
  <2>8. /\ Cardinality(From(k, W, p)) \in Nat
        /\ Cardinality(From(k, W, p)) <= Cardinality(S \ Ahead(k, S, p))
    BY <2>1, <2>7, PartSize
  <2>9. Cardinality(B) <= n
    BY DEF Cut
  <2> HIDE DEF W, rep
  <2> QED
    BY <1>2, <1>3, <2>5, <2>6, <2>7, <2>8, <2>9
<1>7. ASSUME NEW p \in W
      PROVE  Cardinality(Ahead(k, M, p)) + Cardinality(From(k, W, p))
                 <= n + l + (c - rep)
  <2>1. CASE p \in V
    <3>1. k[p] >= k[p]
      BY <1>1
    <3> QED
      BY <1>5, <2>1, <3>1
  <2>2. CASE p \notin V /\ From(k, V, p) # {}
    <3>1. From(k, V, p) \in SUBSET D
      BY DEF From
    <3>2. PICK q \in From(k, V, p) : \A r \in From(k, V, p) : k[q] <= k[r]
      BY <2>2, <3>1, FirstAndLast
    <3>3. q \in V /\ k[q] >= k[p]
      BY <3>2 DEF From
    <3>4. ASSUME NEW r \in From(k, V, p)
          PROVE  r \in From(k, V, q)
      <4>1. r \in V /\ k[q] <= k[r] /\ r \in D /\ q \in D
        BY <3>2, <3>3, <3>4 DEF From
      <4> QED
        BY <4>1 DEF From
    <3> QED
      BY <1>5, <3>3, <3>4
  <2>3. CASE p \notin V /\ From(k, V, p) = {}
    BY <1>6, <2>3 DEF LoneIn
  <2> QED
    BY <2>1, <2>2, <2>3
<1> QED
  BY <1>7 DEF FewRepeated
-----------------------------------------------------------------------------
(* What others do meanwhile: X matches from now on.                        *)

\* A post that leaves lets one slip ahead of the offset.
LEMMA ChangeMissed ==
    ASSUME NEW D, NEW m \in Nat, NEW k \in [D -> 0..m],
           NEW M \in SUBSET D, IsFiniteSet(D), NEW X, IsFiniteSet(X),
           NEW j, \A p \in D : j[p] = k[p], NEW n \in Nat, NEW g \in Nat,
           NEW U \in SUBSET M, NEW Y \in SUBSET (U \cap X),
           FewMissed(k, M, U, g, n)
    PROVE  FewMissed(j, X, Y, g + Cardinality(M \ X), n)
<1>1. /\ IsFiniteSet(M) /\ IsFiniteSet(M \ X) /\ IsFiniteSet(U)
      /\ Cardinality(M \ X) \in Nat
  BY PartSize, FS_Subset
<1>2. ASSUME NEW p \in Y, Cardinality(UpTo(k, U, p)) <= g
      PROVE  Cardinality(UpTo(j, Y, p)) <= g + Cardinality(M \ X)
  <2>1. UpTo(j, Y, p) \in SUBSET UpTo(k, U, p) /\ IsFiniteSet(UpTo(k, U, p))
    BY <1>1, FS_Subset DEF UpTo
  <2>2. /\ Cardinality(UpTo(j, Y, p)) <= Cardinality(UpTo(k, U, p))
        /\ Cardinality(UpTo(j, Y, p)) \in Nat
        /\ Cardinality(UpTo(k, U, p)) \in Nat
    BY <2>1, PartSize
  <2> QED
    BY <1>1, <1>2, <2>2
<1>3. ASSUME NEW p \in Y, Cardinality(Ahead(k, M, p) \ U) + g >= n
      PROVE  Cardinality(Ahead(j, X, p) \ Y) + (g + Cardinality(M \ X)) >= n
  <2> DEFINE A == Ahead(k, M, p) \ U
             Z == Ahead(j, X, p) \ Y
  <2>1. A \in SUBSET (Z \cup (M \ X))
    BY DEF Ahead
  <2>2. IsFiniteSet(Z)
    BY FS_Subset DEF Ahead
  <2> HIDE DEF A, Z
  <2>3. /\ IsFiniteSet(Z \cup (M \ X))
        /\ Cardinality(Z) \in Nat /\ Cardinality(Z \cap (M \ X)) \in Nat
        /\ Cardinality(Z \cup (M \ X)) = Cardinality(Z) + Cardinality(M \ X)
                                         - Cardinality(Z \cap (M \ X))
    BY <1>1, <2>2, FS_Union, FS_Intersection, FS_CardinalityType
  <2>4. /\ Cardinality(A) <= Cardinality(Z \cup (M \ X))
        /\ Cardinality(A) \in Nat
    BY <2>1, <2>3, PartSize
  <2>5. Cardinality(A) + g >= n
    BY <1>3 DEF A
  <2>6. Cardinality(Z) + (g + Cardinality(M \ X)) >= n
    BY <1>1, <2>3, <2>4, <2>5
  <2> QED
    BY <2>6 DEF Z
<1> QED
  BY <1>2, <1>3 DEF FewMissed

\* One that comes moves a post that was seen behind the offset.
LEMMA ChangeRepeated ==
    ASSUME NEW D, NEW m \in Nat, NEW k \in [D -> 0..m],
           NEW M \in SUBSET D, IsFiniteSet(D), NEW X, IsFiniteSet(X),
           NEW j, \A p \in D : j[p] = k[p], NEW n \in Nat, NEW c \in Nat,
           NEW V \in SUBSET D, NEW Y \in SUBSET V,
           FewRepeated(k, M, V, c, n)
    PROVE  FewRepeated(j, X, Y, c + Cardinality(X \ M), n)
<1>1. /\ IsFiniteSet(M) /\ IsFiniteSet(X \ M) /\ IsFiniteSet(V)
      /\ Cardinality(X \ M) \in Nat
  BY PartSize, FS_Subset
<1> SUFFICES ASSUME NEW p \in Y
             PROVE  Cardinality(Ahead(j, X, p)) + Cardinality(From(j, Y, p))
                        <= n + (c + Cardinality(X \ M))
  BY DEF FewRepeated
<1>2. /\ Ahead(j, X, p) \in SUBSET (Ahead(k, M, p) \cup (X \ M))
      /\ Ahead(k, M, p) \cap (X \ M) = {}
      /\ IsFiniteSet(Ahead(k, M, p))
  BY <1>1, FS_Subset DEF Ahead
<1>3. /\ IsFiniteSet(Ahead(k, M, p) \cup (X \ M))
      /\ Cardinality(Ahead(k, M, p)) \in Nat
      /\ Cardinality(Ahead(k, M, p) \cup (X \ M))
             = Cardinality(Ahead(k, M, p)) + Cardinality(X \ M)
  BY <1>1, <1>2, SizeOfBoth
<1>4. /\ Cardinality(Ahead(j, X, p))
             <= Cardinality(Ahead(k, M, p) \cup (X \ M))
      /\ Cardinality(Ahead(j, X, p)) \in Nat
  BY <1>2, <1>3, PartSize
<1>5. From(j, Y, p) \in SUBSET From(k, V, p) /\ IsFiniteSet(From(k, V, p))
  BY <1>1, FS_Subset DEF From
<1>6. /\ Cardinality(From(j, Y, p)) <= Cardinality(From(k, V, p))
      /\ Cardinality(From(j, Y, p)) \in Nat
      /\ Cardinality(From(k, V, p)) \in Nat
  BY <1>5, PartSize
<1>7. Cardinality(Ahead(k, M, p)) + Cardinality(From(k, V, p)) <= n + c
  BY DEF FewRepeated
<1> QED
  BY <1>1, <1>3, <1>4, <1>6, <1>7
-----------------------------------------------------------------------------
(* The steps.                                                              *)

LEMMA PageConstants ==
    /\ PagePosts \in Nat /\ MaxTime \in Nat /\ MaxChanges \in Nat
    /\ MaxLimit \in Nat /\ DefaultLimit \in 1..MaxLimit
    /\ Limits \subseteq Nat \cup {-1, -2}
  BY FeedsAssumption DEF All!Parameters, All!Absent, All!NotANumber

\* There are finitely many posts, and the rank is in their order.
LEMMA Posts ==
    ASSUME All!TypeOK, NEW sort
    PROVE  /\ IsFiniteSet(DOMAIN created)
           /\ \A p \in DOMAIN created : created[p] \in 0..MaxTime
           /\ Rank(sort) \in [DOMAIN created -> 0..MaxTime]
           /\ \A p, r \in DOMAIN created :
                  /\ All!Before(p, r, sort) <=> Rank(sort)[p] < Rank(sort)[r]
                  /\ Rank(sort)[p] = Rank(sort)[r] <=> created[p] = created[r]
           /\ \A q : All!Matching(q) \in SUBSET (DOMAIN created)
<1>1. PICK n \in 0..PagePosts : created \in [1..n -> 0..MaxTime]
  BY DEF All!TypeOK, All!Seconds
<1>2. DOMAIN created = 1..n /\ IsFiniteSet(1..n)
  BY <1>1, PageConstants, FS_Interval
<1>3. \A p \in 1..n : /\ created[p] \in 0..MaxTime
                      /\ Rank(sort)[p] = IF sort = "asc" THEN created[p]
                                         ELSE MaxTime - created[p]
  BY <1>1, <1>2 DEF Rank
<1>4. Rank(sort) \in [1..n -> 0..MaxTime]
  BY <1>1, <1>2, PageConstants DEF Rank
<1>5. \A p, r \in 1..n :
          /\ All!Before(p, r, sort) <=> Rank(sort)[p] < Rank(sort)[r]
          /\ Rank(sort)[p] = Rank(sort)[r] <=> created[p] = created[r]
  BY <1>3, PageConstants DEF All!Before
<1>6. \A q : All!Matching(q) \in SUBSET (DOMAIN created)
  BY DEF All!Matching, All!TypeOK
<1> QED
  BY <1>2, <1>3, <1>4, <1>5, <1>6

\* A post that is not tied is alone.
LEMMA Untied ==
    ASSUME All!TypeOK, NEW sort, NEW p \in DOMAIN created
    PROVE  All!Untied(p) <=> Alone(Rank(sort), p)
<1>1. DOMAIN Rank(sort) = DOMAIN created
  BY DEF Rank
<1> QED
  BY <1>1, Posts DEF All!Untied, Alone

\* FeedPages counts as this module does.
LEMMA SameCardinality == \A T : All!Cardinality(T) = Cardinality(T)
  BY DEF All!Cardinality, Cardinality

\* A slice has what is skipped before it.
LEMMA SliceOf ==
    ASSUME NEW q, NEW skip, NEW S \in All!Slices(q, skip)
    PROVE  \E B \in SUBSET (All!Matching(q) \ S) :
               /\ Cardinality(B) <= skip /\ Cardinality(S) <= q.limit
               /\ \A p \in S, r \in B : ~All!Before(p, r, q.sort)
               /\ \A p \in All!Matching(q) \ (S \cup B), r \in S \cup B :
                      ~All!Before(p, r, q.sort)
               /\ S # {} => Cardinality(B) = skip
               /\ All!Matching(q) \ (S \cup B) # {} =>
                      Cardinality(B) = skip /\ Cardinality(S) = q.limit
  BY SameCardinality, Zenon DEF All!Slices

\* A page is cut out of what matches.
LEMMA PageIsCut ==
    ASSUME All!TypeOK, NEW q, NEW S \in All!Pages(q)
    PROVE  \E B : Cut(Rank(q.sort), All!Matching(q), B, S, q.offset, q.limit)
<1> DEFINE M == All!Matching(q)
           k == Rank(q.sort)
<1> HIDE DEF M, k
<1>1. PICK B \in SUBSET (M \ S) :
          /\ Cardinality(B) <= q.offset /\ Cardinality(S) <= q.limit
          /\ \A p \in S, r \in B : ~All!Before(p, r, q.sort)
          /\ \A p \in M \ (S \cup B), r \in S \cup B :
                 ~All!Before(p, r, q.sort)
          /\ S # {} => Cardinality(B) = q.offset
          /\ M \ (S \cup B) # {} => /\ Cardinality(B) = q.offset
                                    /\ Cardinality(S) = q.limit
  BY SliceOf DEF All!Pages, M
<1>2. S \in SUBSET M
  BY DEF All!Pages, All!Slices, M
<1>3. M \in SUBSET (DOMAIN created)
  BY Posts DEF M
<1>4. \A p, r \in DOMAIN created :
          ~All!Before(p, r, q.sort) => k[r] <= k[p]
  <2> SUFFICES ASSUME NEW p \in DOMAIN created, NEW r \in DOMAIN created,
                      ~All!Before(p, r, q.sort)
               PROVE  k[r] <= k[p]
    OBVIOUS
  <2>1. k[p] \in 0..MaxTime /\ k[r] \in 0..MaxTime /\ ~(k[p] < k[r])
    BY Posts DEF k
  <2> QED
    BY <2>1
<1>5. \A p \in S, r \in B : k[r] <= k[p]
  BY <1>1, <1>2, <1>3, <1>4
<1>6. \A p \in M \ (S \cup B), r \in S \cup B : k[r] <= k[p]
  BY <1>1, <1>2, <1>3, <1>4
<1>7. Cut(k, M, B, S, q.offset, q.limit)
  BY <1>1, <1>2, <1>5, <1>6 DEF Cut
<1> QED
  BY <1>7 DEF M, k

\* A page, of a query q that owes the posts of O, keeps the bounds.
LEMMA Turn ==
    ASSUME All!TypeOK, All!RepeatsBound, NEW q \in All!Queries,
           q.limit \in 1..MaxLimit, query' = q,
           NEW S \in All!Pages(q), All!Show(S), UNCHANGED <<gone, come>>,
           UNCHANGED <<now, created, there, hit, changes>>,
           NEW O \in SUBSET All!Matching(q), owed' = O,
           FewMissed(Rank(q.sort), All!Matching(q),
                     LoneIn(Rank(q.sort), O \ seen), gone, q.offset),
           FewRepeated(Rank(q.sort), All!Matching(q),
                       LoneIn(Rank(q.sort), seen), come - repeats, q.offset)
    PROVE  PageInv'
<1> DEFINE D == DOMAIN created
           k == Rank(q.sort)
           M == All!Matching(q)
           U == LoneIn(k, O \ seen)
           V == LoneIn(k, seen)
           rep == Cardinality(S \cap V)
<1>1. /\ IsFiniteSet(D) /\ k \in [D -> 0..MaxTime] /\ M \in SUBSET D
      /\ MaxTime \in Nat /\ MaxLimit \in Nat
      /\ \A p \in D : All!Untied(p) <=> Alone(k, p)
  BY Posts, Untied, PageConstants
<1>2. /\ seen \in SUBSET D /\ V \in SUBSET D /\ U \in SUBSET M
      /\ \A p \in U : Alone(k, p)
      /\ \A p \in V : Alone(k, p)
      /\ gone \in Nat /\ come \in Nat /\ repeats \in Nat
      /\ come - repeats \in Nat
      /\ q.offset \in Nat /\ q.limit \in Nat
  <2>1. repeats <= come
    BY DEF All!RepeatsBound
  <2>2. gone \in Nat /\ come \in Nat /\ repeats \in Nat /\ seen \in SUBSET D
    BY DEF All!TypeOK
  <2>3. q.offset \in Nat
    BY DEF All!Queries
  <2>4. V \in SUBSET D /\ U \in SUBSET M /\ \A p \in U \cup V : Alone(k, p)
    BY <2>2 DEF LoneIn
  <2>5. q.limit \in Nat /\ come - repeats \in Nat
    BY <1>1, <2>1, <2>2
  <2> HIDE DEF D, k, M, U, V
  <2> QED
    BY <2>2, <2>3, <2>4, <2>5
<1>3. PICK B : Cut(k, M, B, S, q.offset, q.limit)
  BY PageIsCut
<1>4. S \in SUBSET M /\ IsFiniteSet(S) /\ Cardinality(S) <= q.limit
      /\ Cardinality(S) \in Nat
  <2>1. S \in SUBSET D
    BY <1>1, <1>3 DEF Cut
  <2> QED
    BY <1>1, <1>3, <2>1, PartSize DEF Cut
<1> HIDE DEF D, k, M, U, V, rep
<1>5. /\ FewMissed(k, M, U \ S, gone, q.offset + q.limit)
      /\ Cardinality(S) < q.limit => Cardinality(U \ S) <= gone
  BY <1>1, <1>2, <1>3, TurnMissed DEF k, M, U
<1>6. /\ rep \in Nat /\ rep <= come - repeats
      /\ FewRepeated(k, M, V \cup LoneIn(k, S), come - repeats - rep,
                     q.offset + q.limit)
  <2>1. FewRepeated(k, M, V, come - repeats, q.offset)
    BY DEF k, M, V
  <2> QED
    BY <1>1, <1>2, <1>3, <2>1, TurnRepeated, RepeatedHere DEF rep
<1>7. /\ page' = S /\ seen' = seen \cup S
      /\ status' = IF Cardinality(S) < q.limit THEN "end" ELSE "reading"
      /\ repeats' = repeats + rep
  <2>1. S \cap V = {p \in S \cap seen : All!Untied(p)}
    BY <1>1, <1>2 DEF V, LoneIn
  <2> QED
    BY <2>1, SameCardinality, Zenon DEF All!Show, rep
<1>8. Rank(query.sort)' = k /\ All!Matching(query)' = M
  BY DEF Rank, All!Matching, k, M
<1>9. /\ LoneIn(k, O \ (seen \cup S)) = U \ S
      /\ LoneIn(k, seen \cup S) = V \cup LoneIn(k, S)
  BY DEF U, V, LoneIn
<1>10. All!TypeOK'
  <2>1. /\ now' \in All!Seconds
        /\ \E n \in 0..PagePosts : created' \in [1..n -> All!Seconds]
        /\ there' \cup hit' \subseteq DOMAIN created'
        /\ changes' \in 0..MaxChanges /\ query' \in All!Queries
    BY DEF All!TypeOK
  <2>2. status' \in {"idle", "reading", "end", "bad"}
    BY <1>7
  <2>3. page' \subseteq seen' /\ seen' \subseteq DOMAIN created'
        /\ owed' \subseteq DOMAIN created'
    BY <1>1, <1>2, <1>4, <1>7 DEF D, M
  <2>4. All!Cardinality(page') <= MaxLimit
    BY <1>1, <1>2, <1>4, <1>7, SameCardinality
  <2>5. {gone', come', repeats'} \subseteq Nat
    BY <1>2, <1>6, <1>7
  <2> QED
    BY <2>1, <2>2, <2>3, <2>4, <2>5 DEF All!TypeOK, All!Seconds, All!Queries
<1>11. All!MissedBound'
  <2>1. {p \in owed' \ seen' : All!Untied(p)'} = U \ S
    <3>1. \A p \in D : All!Untied(p)' <=> Alone(k, p)
      BY <1>1 DEF All!Untied
    <3> QED
      BY <1>1, <1>7, <1>9, <3>1 DEF LoneIn, M
  <2> QED
    BY <1>5, <1>7, <2>1, SameCardinality DEF All!MissedBound
<1>12. All!RepeatsBound'
  BY <1>2, <1>6, <1>7 DEF All!RepeatsBound
<1>13. Reading'
  <2>1. come' - repeats' = come - repeats - rep
    BY <1>2, <1>6, <1>7
  <2> QED
    BY <1>1, <1>5, <1>6, <1>7, <1>8, <1>9, <2>1 DEF Reading, k, M
<1> QED
  BY <1>7, <1>10, <1>11, <1>12, <1>13 DEF PageInv

\* The first page owes all that matches; a query that is not valid owes none.
LEMMA OpenPages ==
    ASSUME PageInv, NEW q \in All!Queries, q.offset = 0, All!Open(q)
    PROVE  PageInv'
<1>1. /\ gone = 0 /\ come = 0 /\ repeats = 0 /\ seen = {} /\ owed = {}
      /\ status \in {"idle", "bad"}
  BY DEF All!Open, PageInv
<1>2. UNCHANGED <<now, created, there, hit, changes, gone, come>>
  BY DEF All!Open, All!table
<1>3. CASE All!Valid(q)
  <2>1. /\ query' = q /\ owed' = All!Matching(q)
        /\ q.limit \in 1..MaxLimit
    BY <1>3 DEF All!Open, All!Valid
  <2>2. PICK S \in All!Pages(q) : All!Show(S)
    BY <1>3 DEF All!Open
  <2>3. FewMissed(Rank(q.sort), All!Matching(q),
                  LoneIn(Rank(q.sort), All!Matching(q) \ seen), gone,
                  q.offset)
    <3> SUFFICES ASSUME NEW p \in LoneIn(Rank(q.sort),
                                         All!Matching(q) \ seen)
                 PROVE  Cardinality(Ahead(Rank(q.sort), All!Matching(q), p)
                                    \ LoneIn(Rank(q.sort),
                                             All!Matching(q) \ seen)) + gone
                            >= q.offset
      BY DEF FewMissed
    <3>1. IsFiniteSet(All!Matching(q))
      BY Posts, FS_Subset DEF PageInv
    <3>2. IsFiniteSet(Ahead(Rank(q.sort), All!Matching(q), p)
                      \ LoneIn(Rank(q.sort), All!Matching(q) \ seen))
      BY <3>1, FS_Subset DEF Ahead
    <3>3. Cardinality(Ahead(Rank(q.sort), All!Matching(q), p)
                      \ LoneIn(Rank(q.sort), All!Matching(q) \ seen)) \in Nat
      BY <3>2, FS_CardinalityType
    <3> QED
      BY <1>1, <3>3
  <2>4. FewRepeated(Rank(q.sort), All!Matching(q),
                    LoneIn(Rank(q.sort), seen), come - repeats, q.offset)
    BY <1>1 DEF FewRepeated, LoneIn
  <2> QED
    BY <1>2, <2>1, <2>2, <2>3, <2>4, Turn DEF PageInv
<1>4. CASE ~All!Valid(q)
  <2>1. status' = "bad" /\ UNCHANGED <<query, page, seen, repeats, owed>>
    BY <1>4 DEF All!Open
  <2>2. All!TypeOK'
    BY <1>2, <2>1 DEF PageInv, All!TypeOK, All!Seconds, All!Queries
  <2>3. All!MissedBound' /\ All!RepeatsBound'
    BY <1>1, <1>2, <2>1 DEF All!MissedBound, All!RepeatsBound
  <2> QED
    BY <1>1, <1>2, <2>1, <2>2, <2>3 DEF PageInv
<1> QED
  BY <1>3, <1>4

\* The next page has the offset that the last ones counted with.
LEMMA TurnPages ==
    ASSUME PageInv, All!NextPage
    PROVE  PageInv'
<1> DEFINE q == [query EXCEPT !.offset = @ + query.limit]
<1>1. /\ status = "reading" /\ query' = q
      /\ UNCHANGED <<now, created, there, hit, changes, owed, gone, come>>
  BY DEF All!NextPage, All!table
<1>2. /\ query \in All!Queries /\ query.limit \in 1..MaxLimit
      /\ query.offset \in Nat /\ query.limit \in Nat
      /\ All!TypeOK /\ All!RepeatsBound
  BY <1>1, PageConstants DEF PageInv, Reading, All!TypeOK, All!Queries
<1>3. /\ q \in All!Queries /\ q.limit = query.limit /\ q.sort = query.sort
      /\ q.offset = query.offset + query.limit /\ q.search = query.search
  BY <1>2 DEF All!Queries
<1> HIDE DEF q
<1>4. All!Matching(q) = All!Matching(query)
  BY <1>3 DEF All!Matching
<1>5. PICK S \in All!Pages(q) : All!Show(S)
  BY <1>1 DEF All!NextPage
<1>6. /\ owed \in SUBSET All!Matching(q) /\ q.limit \in 1..MaxLimit
      /\ FewMissed(Rank(q.sort), All!Matching(q),
                   LoneIn(Rank(q.sort), owed \ seen), gone, q.offset)
      /\ FewRepeated(Rank(q.sort), All!Matching(q),
                     LoneIn(Rank(q.sort), seen), come - repeats, q.offset)
  BY <1>1, <1>3, <1>4 DEF PageInv, Reading
<1> QED
  BY <1>1, <1>2, <1>3, <1>5, <1>6, Turn

\* What others do, as the history records it, keeps the bounds.
LEMMA ChangePages ==
    ASSUME PageInv, All!Changed,
           now' \in All!Seconds, changes' \in 0..MaxChanges,
           NEW i \in 0..PagePosts, created' \in [1..i -> All!Seconds],
           \A p \in DOMAIN created : p \in 1..i /\ created'[p] = created[p],
           there' \cup hit' \subseteq 1..i
    PROVE  PageInv'
<1> DEFINE D == DOMAIN created
           k == Rank(query.sort)
           j == Rank(query.sort)'
           M == All!Matching(query)
           X == All!Matching(query)'
           n == query.offset + query.limit
           U == LoneIn(k, owed \ seen)
           V == LoneIn(k, seen)
           left == Cardinality(M \ X)
           new == Cardinality(X \ M)
<1>1. /\ IsFiniteSet(D) /\ k \in [D -> 0..MaxTime] /\ M \in SUBSET D
      /\ MaxTime \in Nat /\ D \subseteq 1..i /\ DOMAIN created' = 1..i
  BY Posts, PageConstants DEF PageInv
<1>2. UNCHANGED <<query, status, page, seen, repeats>>
  BY DEF All!Changed
<1>3. X \in SUBSET (1..i) /\ IsFiniteSet(1..i) /\ IsFiniteSet(X)
  <2>1. X \in SUBSET (1..i)
    BY DEF All!Matching
  <2>2. IsFiniteSet(1..i)
    BY PageConstants, FS_Interval
  <2> QED
    BY <2>1, <2>2, FS_Subset
<1>4. /\ left \in Nat /\ new \in Nat
  BY <1>1, <1>3, FS_Subset, FS_Difference, FS_CardinalityType
<1>5. /\ seen \in SUBSET D /\ owed \in SUBSET D /\ page \subseteq seen
      /\ gone \in Nat /\ come \in Nat /\ repeats \in Nat
      /\ Cardinality(page) <= MaxLimit
      /\ repeats <= come
  BY SameCardinality DEF PageInv, All!TypeOK, All!RepeatsBound
<1>6. IF status = "reading"
      THEN owed' = owed \cap X /\ gone' = gone + left /\ come' = come + new
      ELSE UNCHANGED <<owed, gone, come>>
  <2>1. All!Record(M, X)
    BY <1>2 DEF All!Changed, All!Matching
  <2> HIDE DEF M, X
  <2> QED
    BY <2>1, SameCardinality, Zenon DEF All!Record
<1>7. /\ \A p \in D : j[p] = k[p]
      /\ DOMAIN j = 1..i /\ DOMAIN k = D
  BY <1>1, <1>2 DEF Rank
<1>8. \A p \in D : Alone(j, p) => Alone(k, p)
  <2> HIDE DEF D, j, k
  <2> QED
    BY <1>1, <1>7 DEF Alone
<1>9. \A p \in D : All!Untied(p)' => All!Untied(p)
  BY <1>1 DEF All!Untied
<1>10. LoneIn(j, owed' \ seen') \in SUBSET (U \cap owed')
       /\ owed' \subseteq owed
       /\ LoneIn(j, seen') \in SUBSET V
  <2> HIDE DEF D, j, k, X, left, new
  <2>1. owed' \subseteq owed /\ seen' = seen
    BY <1>2, <1>6
  <2> QED
    BY <1>5, <1>8, <2>1 DEF LoneIn
<1>11. gone' \in Nat /\ come' \in Nat /\ come' >= come
  <2> HIDE DEF left, new
  <2> QED
    BY <1>4, <1>5, <1>6
<1>12. All!TypeOK'
  <2>1. page' \subseteq seen' /\ seen' \subseteq DOMAIN created'
        /\ owed' \subseteq DOMAIN created'
        /\ All!Cardinality(page') <= MaxLimit
    BY <1>1, <1>2, <1>5, <1>10, SameCardinality
  <2>2. /\ query' \in All!Queries
        /\ status' \in {"idle", "reading", "end", "bad"}
    BY <1>2 DEF PageInv, All!TypeOK
  <2>3. \E m \in 0..PagePosts : created' \in [1..m -> All!Seconds]
    OBVIOUS
  <2>4. {gone', come', repeats'} \subseteq Nat
    BY <1>2, <1>5, <1>11
  <2> QED
    BY <1>1, <2>1, <2>2, <2>3, <2>4 DEF All!TypeOK, All!Seconds, All!Queries
<1>13. All!RepeatsBound'
  BY <1>2, <1>5, <1>11 DEF All!RepeatsBound
<1>14. All!MissedBound'
  <2> SUFFICES ASSUME status = "end"
               PROVE  Cardinality({p \in owed' \ seen' : All!Untied(p)'})
                          <= gone'
    BY <1>2, SameCardinality DEF All!MissedBound
  <2>1. owed' = owed /\ gone' = gone /\ seen' = seen
    BY <1>2, <1>6
  <2>2. {p \in owed' \ seen' : All!Untied(p)'}
            \in SUBSET {p \in owed \ seen : All!Untied(p)}
    BY <1>5, <1>9, <2>1
  <2>3. IsFiniteSet({p \in owed \ seen : All!Untied(p)})
    <3>1. {p \in owed \ seen : All!Untied(p)} \in SUBSET D
      BY <1>5
    <3> QED
      BY <1>1, <3>1, FS_Subset
  <2>4. Cardinality({p \in owed \ seen : All!Untied(p)}) <= gone
    BY SameCardinality DEF PageInv, All!MissedBound
  <2>5. /\ Cardinality({p \in owed' \ seen' : All!Untied(p)'}) \in Nat
        /\ Cardinality({p \in owed \ seen : All!Untied(p)}) \in Nat
        /\ Cardinality({p \in owed' \ seen' : All!Untied(p)'})
               <= Cardinality({p \in owed \ seen : All!Untied(p)})
    BY <2>2, <2>3, PartSize
  <2> QED
    BY <1>5, <2>1, <2>4, <2>5
<1>15. ASSUME status = "reading"
       PROVE  Reading'
  <2>1. /\ query.limit \in 1..MaxLimit /\ owed \subseteq M
        /\ FewMissed(k, M, U, gone, n)
        /\ FewRepeated(k, M, V, come - repeats, n)
    BY <1>15 DEF PageInv, Reading
  <2>2. n \in Nat
    BY <2>1, PageConstants DEF PageInv, All!TypeOK, All!Queries
  <2>3. U \in SUBSET M /\ V \in SUBSET D
    BY <1>5, <2>1 DEF LoneIn
  <2>4. /\ owed' = owed \cap X /\ gone' = gone + left /\ come' = come + new
        /\ query' = query /\ seen' = seen /\ repeats' = repeats
    BY <1>2, <1>6, <1>15
  <2>5. come - repeats \in Nat
    BY <1>5
  <2> HIDE DEF D, k, j, M, X, n, U, V
  <2>6. FewMissed(j, X, LoneIn(j, owed' \ seen'), gone', n)
    <3>1. LoneIn(j, owed' \ seen') \in SUBSET (U \cap X)
      BY <1>10, <2>4
    <3> QED
      BY <1>1, <1>3, <1>5, <1>7, <2>1, <2>2, <2>3, <2>4, <3>1,
         ChangeMissed
  <2>7. FewRepeated(j, X, LoneIn(j, seen'), come' - repeats', n)
    <3>1. FewRepeated(j, X, LoneIn(j, seen'), (come - repeats) + new, n)
      BY <1>1, <1>3, <1>7, <1>10, <2>1, <2>2, <2>3, <2>5, ChangeRepeated
    <3>2. come' - repeats' = (come - repeats) + new
      BY <1>4, <1>5, <2>4 DEF new
    <3> QED
      BY <3>1, <3>2
  <2>8. /\ query'.limit \in 1..MaxLimit /\ owed' \subseteq X
        /\ n = query'.offset + query'.limit
        /\ j = Rank(query.sort)' /\ X = All!Matching(query)'
    BY <2>1, <2>4 DEF n, j, X
  <2> QED
    BY <2>6, <2>7, <2>8 DEF Reading
<1> QED
  BY <1>2, <1>5, <1>6, <1>10, <1>12, <1>13, <1>14, <1>15 DEF PageInv

\* A new post has the next id.
LEMMA CreatePages ==
    ASSUME PageInv, NEW hits \in BOOLEAN, All!Create(hits)
    PROVE  PageInv'
<1>1. PICK n \in 0..PagePosts : created \in [1..n -> All!Seconds]
  BY DEF PageInv, All!TypeOK
<1>2. DOMAIN created = 1..n /\ All!Cardinality(DOMAIN created) = n
      /\ n \in Nat
  BY <1>1, SameCardinality, PageConstants, FS_Interval
<1>3. /\ n + 1 \in 0..PagePosts
      /\ created' = [r \in 1..n + 1 |-> IF r = n + 1 THEN now ELSE created[r]]
      /\ there' = there \cup {n + 1}
      /\ hit' = IF hits THEN hit \cup {n + 1} ELSE hit
      /\ UNCHANGED <<now, changes>> /\ All!Changed
  <2>1. All!Cardinality(DOMAIN created) + 1 \in 1..PagePosts
    BY DEF All!Create, All!PostIds
  <2>2. n + 1 \in 0..PagePosts
    BY <1>2, <2>1, PageConstants
  <2>3. created' = [r \in 1..n + 1 |-> IF r = n + 1 THEN now ELSE created[r]]
    BY <1>2 DEF All!Create
  <2>4. /\ there' = there \cup {n + 1}
        /\ hit' = IF hits THEN hit \cup {n + 1} ELSE hit
        /\ UNCHANGED <<now, changes>> /\ All!Changed
    BY <1>2 DEF All!Create
  <2> QED
    BY <2>2, <2>3, <2>4
<1>4. /\ now \in All!Seconds /\ changes \in 0..MaxChanges
      /\ there \cup hit \subseteq 1..n
  BY <1>2 DEF PageInv, All!TypeOK
<1>5. /\ created' \in [1..n + 1 -> All!Seconds]
      /\ \A p \in DOMAIN created :
             p \in 1..n + 1 /\ created'[p] = created[p]
      /\ there' \cup hit' \subseteq 1..n + 1
  BY <1>1, <1>2, <1>3, <1>4
<1> QED
  BY <1>3, <1>4, <1>5, ChangePages

\* Every step keeps the bounds.
LEMMA NextPages ==
    ASSUME PageInv, [All!Next]_pages
    PROVE  PageInv'
<1>1. ASSUME NEW l \in Limits, NEW o \in {"asc", "desc"}, NEW b \in BOOLEAN,
             All!Open(All!Parse(l, o, b))
      PROVE  PageInv'
  <2>1. /\ All!Parse(l, o, b) \in All!Queries
        /\ All!Parse(l, o, b).offset = 0
    BY DEF All!Parse, All!Queries
  <2> QED
    BY <1>1, <2>1, OpenPages
<1>2. PICK n \in 0..PagePosts : created \in [1..n -> All!Seconds]
  BY DEF PageInv, All!TypeOK
<1>3. /\ now \in All!Seconds /\ changes \in 0..MaxChanges
      /\ there \cup hit \subseteq 1..n /\ DOMAIN created = 1..n
  BY <1>2 DEF PageInv, All!TypeOK
<1>4. ASSUME NEW p \in there, All!Delete(p) \/ All!Edit(p)
      PROVE  PageInv'
  <2>1. /\ changes' \in 0..MaxChanges /\ created' = created /\ now' = now
        /\ there' \cup hit' \subseteq 1..n /\ All!Changed
    BY <1>3, <1>4, PageConstants DEF All!Delete, All!Edit
  <2> QED
    BY <1>2, <1>3, <2>1, ChangePages
<1>5. ASSUME UNCHANGED <<created, there, hit, changes, query, status, page,
                         seen, owed, gone, come, repeats>>,
             now' \in All!Seconds
      PROVE  PageInv'
  <2>1. /\ created' = created /\ there' = there /\ hit' = hit
        /\ changes' = changes /\ query' = query /\ status' = status
        /\ page' = page /\ seen' = seen /\ owed' = owed /\ gone' = gone
        /\ come' = come /\ repeats' = repeats
    BY <1>5
  <2>2. All!TypeOK'
    BY <1>5, <2>1 DEF PageInv, All!TypeOK, All!Seconds, All!Queries
  <2>3. All!MissedBound' /\ All!RepeatsBound'
    BY <2>1 DEF PageInv, All!MissedBound, All!RepeatsBound, All!Untied
  <2>4. Reading' <=> Reading
    BY <2>1 DEF Reading, Rank, All!Matching
  <2> QED
    BY <2>1, <2>2, <2>3, <2>4 DEF PageInv
<1>6. CASE All!Tick
  BY <1>5, <1>6, <1>3, PageConstants DEF All!Tick, All!reader, All!Seconds
<1>7. CASE UNCHANGED pages
  BY <1>3, <1>5, <1>7 DEF pages
<1> QED
  BY <1>1, <1>4, <1>6, <1>7, TurnPages, CreatePages DEF All!Next

LEMMA InitPages == All!Init => PageInv
<1> SUFFICES ASSUME All!Init PROVE PageInv
  OBVIOUS
<1>1. /\ status = "idle" /\ page = {} /\ seen = {} /\ owed = {}
      /\ gone = 0 /\ come = 0 /\ repeats = 0
  BY DEF All!Init
<1>2. 0 \in 0..PagePosts /\ created \in [1..0 -> All!Seconds]
  BY PageConstants DEF All!Init
<1>3. /\ now \in All!Seconds /\ changes \in 0..MaxChanges
      /\ there \cup hit \subseteq DOMAIN created /\ query \in All!Queries
  BY PageConstants DEF All!Init, All!Seconds, All!Queries
<1>4. All!Cardinality(page) <= MaxLimit
  BY <1>1, SameCardinality, FS_EmptySet, PageConstants
<1>5. All!TypeOK
  BY <1>1, <1>2, <1>3, <1>4 DEF All!TypeOK
<1>6. All!MissedBound /\ All!RepeatsBound
  BY <1>1 DEF All!MissedBound, All!RepeatsBound
<1> QED
  BY <1>1, <1>5, <1>6 DEF PageInv

(***************************************************************************)
(* The three of them.                                                      *)
(***************************************************************************)
AllInv == feed \in {"user", "all", "seed"} /\ IInv /\ PageInv /\ SeedInv

\* The feeds and the seed keep what each keeps.
THEOREM FeedsInvariance == FeedsSpec => []AllInv
<1>1. FeedsInit => AllInv
  BY InitIInv, InitPages, SeedInit DEF FeedsInit, AllInv
<1>2. AllInv /\ [FeedsNext]_<<feed, vars, pages, rows>> => AllInv'
  <2> SUFFICES ASSUME AllInv, [FeedsNext]_<<feed, vars, pages, rows>>
               PROVE  AllInv'
    OBVIOUS
  <2>1. feed' = feed /\ [Next]_vars /\ [All!Next]_pages /\ [Fill!Next]_rows
    BY DEF FeedsNext
  <2>2. IInv'
    BY <2>1, NextTypes, NextFinite DEF AllInv, IInv
  <2>3. PageInv'
    BY <2>1, NextPages DEF AllInv
  <2>4. SeedInv'
    BY <2>1, SeedNext DEF AllInv
  <2> QED
    BY <2>1, <2>2, <2>3, <2>4 DEF AllInv
<1> QED
  BY <1>1, <1>2, PTL DEF FeedsSpec

\* The feeds and the seed are of their types.
THEOREM AlwaysTypesOK == FeedsSpec => []TypesOK
<1>1. AllInv => TypesOK
  BY DEF AllInv, TypesOK, IInv, PageInv, SeedInv
<1> QED
  BY <1>1, FeedsInvariance, PTL

\* With any number of posts and any limits, whatever is posted, deleted and
\* edited between two pages, a reader who comes to the end has missed no more
\* of the posts that were there all the time than left meanwhile, those that
\* share their second aside, and has seen no more twice than came.
THEOREM PagesAreBounded == FeedsSpec => []PagingBound
<1>1. AllInv => PagingBound
  BY DEF AllInv, PagingBound, PageInv
<1> QED
  BY <1>1, FeedsInvariance, PTL

\* However many runs of the seed there are, on a database in use, one of them
\* at most adds posts, and comments come only after all of its posts.
THEOREM SeededAtMostOnce == FeedsSpec => []SeededOnce
<1>1. AllInv => SeededOnce
  BY SeedOnce DEF AllInv, SeededOnce
<1> QED
  BY <1>1, FeedsInvariance, PTL

\* The feed of a user is of his followers, beside the other feed too.
THEOREM UserFeedIsOfFollowers == FeedsSpec => []FeedIsOfFollowers
<1>1. AllInv => FeedIsOfFollowers
  BY FeedOfUser DEF AllInv
<1> QED
  BY <1>1, FeedsInvariance, PTL
=============================================================================
