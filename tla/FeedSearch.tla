------------------------------ MODULE FeedSearch ------------------------------
(***************************************************************************)
(* Searching and paging on the feed page of web/src/pages.tsx: every       *)
(* change of the boxes and every page is a request, answered in any order; *)
(* what is shown is the last answer.  A follow on the tab of followed      *)
(* users ends in a request of its own, for what was asked when it began.   *)
(*                                                                         *)
(* The posts on the server stay as they are (FeedPages and FeedClient are  *)
(* about their changes); search and sort order together are a query, and   *)
(* an offset is counted in pages.                                          *)
(***************************************************************************)
EXTENDS Integers

CONSTANTS Total,       \* Total[q]: the number of posts query q has
          PageSize,    \* FEED_PAGE_SIZE
          MaxPage,     \* bound on the pages
          Loads        \* requests that may overlap

Queries == DOMAIN Total

\* What the constants are taken to be.
Parameters ==
    /\ PageSize \in Nat \ {0} /\ MaxPage \in Nat
    /\ \A q \in Queries : Total[q] \in Nat

VARIABLES asked,       \* the query in the boxes and the page: search, offset
          posts,       \* the request whose answer is shown
          isLoading,
          load,        \* load[l]: what the request l asked for
          follow,      \* what was asked when a follow began that is under way
          mixed,       \* history: there was no request yet, or the last one
                       \* overlapped with another, failed, or was stale
          strayed      \* history: one did so since the first page was asked

vars == <<asked, posts, isLoading, load, follow, mixed, strayed>>

Asks == [query : Queries, page : 0..MaxPage]
None == [query |-> "none"]

TypeOK ==
    /\ asked \in Asks /\ posts \in Asks \cup {None}
    /\ isLoading \in BOOLEAN /\ mixed \in BOOLEAN /\ strayed \in BOOLEAN
    /\ load \in [Loads -> Asks \cup {None}]
    /\ follow \in Asks \cup {None}

Flying == {l \in Loads : load[l] # None}

\* The first render, whose effect is a Refresh.
Init ==
    /\ asked \in [query : Queries, page : {0}] /\ posts = None
    /\ isLoading = FALSE
    /\ load = [l \in Loads |-> None] /\ follow = None
    /\ mixed = TRUE /\ strayed = FALSE

\* loadFeed, up to the request; stale if it is a follow's for another query.
LoadFeed(what, stale) ==
    /\ \E l \in Loads \ Flying : load' = [load EXCEPT ![l] = what]
    /\ isLoading' = TRUE
    /\ mixed' = (Flying # {} \/ stale)
    /\ strayed' = (mixed' \/ (strayed /\ what.page > 0))
    /\ UNCHANGED posts

\* The effect on search, tagFilter and sort; a tag is no part of the request.
Search(q) ==
    /\ asked' = [query |-> q, page |-> 0] /\ LoadFeed(asked', FALSE)
    /\ UNCHANGED follow

Refresh == UNCHANGED <<asked, follow>> /\ LoadFeed(asked, FALSE)

\* Faulty variant: the request uses the offset of the last render.
GoTo_LastRender(page) ==
    /\ asked' = [asked EXCEPT !.page = page] /\ LoadFeed(asked, FALSE)
    /\ UNCHANGED follow

GoTo(page) ==
    /\ asked' = [asked EXCEPT !.page = page] /\ LoadFeed(asked', FALSE)
    /\ UNCHANGED follow

Rows(what) ==
    LET left == Total[what.query] - what.page * PageSize IN
    IF left < 0 THEN 0 ELSE IF left > PageSize THEN PageSize ELSE left

\* Faulty variant: the button does not look at what is shown.
FullPage_Unchecked == TRUE

FullPage == posts # None /\ Rows(posts) = PageSize

\* Both buttons are there while any post is visible, one of the caches or one
\* of posts that passes the filter, which is left open.
GoToNextPage ==
    /\ ~isLoading /\ FullPage /\ asked.page < MaxPage
    /\ GoTo(asked.page + 1)

GoToPreviousPage == ~isLoading /\ asked.page > 0 /\ GoTo(asked.page - 1)

\* The rest of loadFeed.
ReceiveLoad(l) ==
    /\ l \in Flying
    /\ posts' = load[l] /\ isLoading' = FALSE
    /\ load' = [load EXCEPT ![l] = None]
    /\ UNCHANGED <<asked, follow, mixed, strayed>>

LoadFails(l) ==
    /\ l \in Flying
    /\ isLoading' = FALSE /\ mixed' = TRUE /\ strayed' = TRUE
    /\ load' = [load EXCEPT ![l] = None]
    /\ UNCHANGED <<asked, posts, follow>>

\* toggleFollow on the tab of followed users.
ToggleFollow ==
    /\ follow = None /\ follow' = asked
    /\ UNCHANGED <<asked, posts, isLoading, load, mixed, strayed>>

\* Its answer reloads with the values of the render in which it was clicked.
Followed ==
    /\ follow # None /\ follow' = None
    /\ UNCHANGED asked /\ LoadFeed(follow, follow # asked)

FollowFails ==
    /\ follow # None /\ follow' = None
    /\ UNCHANGED <<asked, posts, isLoading, load, mixed, strayed>>

Next ==
    \/ \E q \in Queries : Search(q)
    \/ Refresh \/ GoToNextPage \/ GoToPreviousPage
    \/ \E l \in Loads : ReceiveLoad(l) \/ LoadFails(l)
    \/ ToggleFollow \/ Followed \/ FollowFails

Spec == Init /\ [][Next]_vars
-----------------------------------------------------------------------------
(* Properties                                                              *)

\* The answer that the feed page keeps in posts is the one to what its boxes and
\* its page number say when nothing is under way (what it shows is that merged
\* with the posts of the caches and filtered, visiblePosts), unless the last
\* request overlapped with another one, failed, or was the reload of a follow for
\* what had been asked before.
ShownIsAsked == Flying = {} /\ ~mixed => posts = asked

\* Next leads past the last page by no more than one empty page, and there only
\* from a last page that is full, but for the same exceptions at any request
\* since the first page was asked.
WithinPages ==
    ~strayed => asked.page * PageSize <= Total[asked.query]
=============================================================================
