-------------------------------- MODULE Feeds ---------------------------------
(***************************************************************************)
(* The two feeds: GetUserFeed over the tables it joins (Followers), and    *)
(* GetAllFeed read page by page (FeedPages); and the seed of the tables    *)
(* (Seed).  The modules share no state: each behaviour is one of one of    *)
(* them.                                                                   *)
(***************************************************************************)
EXTENDS Followers

CONSTANTS PagePosts,                         \* bound on the posts in pages
          MaxTime, MaxChanges, DefaultLimit, MaxLimit, Limits,  \* FeedPages
          Runs, NumUsers, NumPosts, NumComments, Nobody, Visitor  \* Seed

VARIABLES feed,
          now, created, there, hit, changes, query, status, page, seen, owed,
          gone, come, repeats,
          name, committed, stage, count, seeded, remarks

pages == <<now, created, there, hit, changes, query, status, page, seen, owed,
           gone, come, repeats>>
rows == <<name, committed, stage, count, seeded, remarks>>

All == INSTANCE FeedPages WITH live <- there, MaxPosts <- PagePosts

Fill == INSTANCE Seed WITH posts <- seeded, comments <- remarks

ASSUME FeedsAssumption == All!Parameters /\ Fill!Parameters

FeedsInit == feed \in {"user", "all", "seed"} /\ Init /\ All!Init /\ Fill!Init

FeedsNext ==
    /\ UNCHANGED feed
    /\ IF feed = "user" THEN Next ELSE UNCHANGED vars
    /\ IF feed = "all" THEN All!Next ELSE UNCHANGED pages
    /\ IF feed = "seed" THEN Fill!Next ELSE UNCHANGED rows

FeedsSpec == FeedsInit /\ [][FeedsNext]_<<feed, vars, pages, rows>>
-----------------------------------------------------------------------------
\* The type invariants of the three modules.
TypesOK == CASE feed = "user" -> TypeOK
             [] feed = "all" -> All!TypeOK
             [] feed = "seed" -> Fill!TypeOK

\* A reader of the feed of all misses no more than what left meanwhile, and
\* sees no more twice than what came.
PagingBound == feed = "all" => All!MissedBound /\ All!RepeatsBound

\* However often the tables are seeded, they are seeded once.
SeededOnce == Fill!SeededOnce
=============================================================================
