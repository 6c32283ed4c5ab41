------------------------------ MODULE FeedClient ------------------------------
(***************************************************************************)
(* The posts the web client keeps (web/src/pages.tsx): the state of the    *)
(* feed page, and two lists in local storage, the user's own posts and a   *)
(* cache of every post a feed showed.  Loads, deletions and the creation   *)
(* of posts are requests; what the page does when one is answered happens  *)
(* whatever was answered before it, and in part after the page is gone.    *)
(*                                                                         *)
(* One session in one window.  The bounds of the lists, 20 and 200 posts,  *)
(* are taken not to be reached.                                            *)
(***************************************************************************)
EXTENDS Integers, FiniteSets

CONSTANTS MaxPosts,    \* bound on the ids of posts
          Loads        \* loads that may overlap

ASSUME FeedClientAssumption == MaxPosts \in Nat

VARIABLES drawn,       \* ids of posts the server has given so far: 1..drawn
          live,        \* posts on the server
          own,         \* posts of the user
          localPosts,  \* in local storage
          feedCache,   \* in local storage
          mounted,     \* the feed page is on the screen
          posts,       \* its state: the posts of the last load
          local,       \* its state: localPosts
          load,        \* load[l]: a request for a page of the feed
          delete,      \* delete[p]: the request to delete p
          create,      \* the request of the create page
          acked,       \* history: posts whose deletion the user was told
          late         \* history: posts that deletion did not reach

server == <<drawn, live, own>>
storage == <<localPosts, feedCache>>
feedPage == <<mounted, posts, local>>
vars == <<drawn, live, own, localPosts, feedCache, mounted, posts, local,
          load, delete, create, acked, late>>

PostIds == 1..MaxPosts
Idle == [at |-> "idle"]
LoadRequests == [at : {"sent", "served"}, rows : SUBSET PostIds, here : BOOLEAN]
DeleteRequests ==
    [at : {"sent", "ok"}, from : {"feed", "post", "gone"}]
CreateRequests == [at : {"sent", "served"}, id : 0..MaxPosts]

\* A page that is not on the screen has no state, and the user is offered to
\* delete no posts but his own.
TypeOK ==
    /\ drawn \in 0..MaxPosts
    /\ live \cup own \subseteq 1..drawn
    /\ localPosts \subseteq own /\ feedCache \subseteq 1..drawn
    /\ mounted \in BOOLEAN
    /\ posts \cup local \subseteq IF mounted THEN 1..drawn ELSE {}
    /\ load \in [Loads -> LoadRequests \cup {Idle}]
    /\ delete \in [PostIds -> DeleteRequests \cup {Idle}]
    /\ create \in CreateRequests \cup {Idle}
    /\ acked \subseteq own /\ late \subseteq acked
    /\ {p \in PostIds : delete[p] # Idle} \subseteq own

Init ==
    /\ drawn = 0 /\ live = {} /\ own = {}
    /\ localPosts = {} /\ feedCache = {}
    /\ mounted = FALSE /\ posts = {} /\ local = {}
    /\ load = [l \in Loads |-> Idle]
    /\ delete = [p \in PostIds |-> Idle]
    /\ create = Idle
    /\ acked = {} /\ late = {}
-----------------------------------------------------------------------------
(* The server, and other users of it                                       *)

OthersPost ==
    /\ drawn < MaxPosts
    /\ drawn' = drawn + 1 /\ live' = live \cup {drawn + 1}
    /\ UNCHANGED <<own, storage, feedPage, load, delete, create, acked, late>>

\* An owner elsewhere, or an admin.
OthersDelete(p) ==
    /\ p \in live /\ live' = live \ {p}
    /\ UNCHANGED <<drawn, own, storage, feedPage, load, delete, create,
                   acked, late>>

\* Any page of any query, or an error.
ServeLoad(l) ==
    /\ load[l] # Idle /\ load[l].at = "sent"
    /\ \E rows \in SUBSET live :
           load' = [load EXCEPT ![l].at = "served", ![l].rows = rows]
    /\ UNCHANGED <<server, storage, feedPage, delete, create, acked, late>>

\* DeleteFails has the answers to a post that is not there.
ServeDelete(p) ==
    /\ delete[p] # Idle /\ delete[p].at = "sent"
    /\ p \in live /\ live' = live \ {p}
    /\ delete' = [delete EXCEPT ![p].at = "ok"]
    /\ UNCHANGED <<drawn, own, storage, feedPage, load, create, acked, late>>

ServeCreate ==
    /\ create # Idle /\ create.at = "sent" /\ drawn < MaxPosts
    /\ drawn' = drawn + 1
    /\ live' = live \cup {drawn + 1} /\ own' = own \cup {drawn + 1}
    /\ create' = [at |-> "served", id |-> drawn + 1]
    /\ UNCHANGED <<storage, feedPage, load, delete, acked, late>>
-----------------------------------------------------------------------------
(* The feed page                                                           *)

\* The effect of a first render and of every new query, and Refresh.
LoadFeed(l) ==
    /\ load[l] = Idle
    /\ load' = [load EXCEPT ![l] = [at |-> "sent", rows |-> {}, here |-> TRUE]]
    /\ local' = localPosts'

\* navigate("/app"), which does nothing to a feed page that is there.
Navigate ==
    IF mounted THEN UNCHANGED <<mounted, local, load>>
               ELSE mounted' = TRUE /\ \E l \in Loads : LoadFeed(l)

Open ==
    /\ UNCHANGED <<server, storage, posts, delete, create, acked, late>>
    /\ ~mounted /\ Navigate

Refresh(l) ==
    /\ UNCHANGED <<server, storage, mounted, posts, delete, create,
                   acked, late>>
    /\ mounted /\ LoadFeed(l)

\* Requests go on, their callbacks no longer reach a state.
Leave ==
    /\ mounted /\ mounted' = FALSE /\ posts' = {} /\ local' = {}
    /\ load' = [l \in Loads |-> IF load[l] = Idle THEN Idle
                                ELSE [load[l] EXCEPT !.here = FALSE]]
    /\ delete' = [p \in PostIds |->
           IF delete[p] # Idle /\ delete[p].from = "feed"
           THEN [delete[p] EXCEPT !.from = "gone"] ELSE delete[p]]
    /\ UNCHANGED <<server, storage, create, acked, late>>

\* The cache is merged and saved also when the page is gone.
ReceiveLoad(l) ==
    /\ load[l] # Idle /\ load[l].at = "served"
    /\ posts' = IF load[l].here THEN load[l].rows ELSE posts
    /\ feedCache' = feedCache \cup load[l].rows
    /\ load' = [load EXCEPT ![l] = Idle]
    /\ late' = late \cup (load[l].rows \cap acked)
    /\ UNCHANGED <<server, localPosts, mounted, local, delete, create, acked>>

\* An answer that is not ok, or none: only the status line changes.
LoadFails(l) ==
    /\ load[l] # Idle /\ load[l].at = "sent"
    /\ load' = [load EXCEPT ![l] = Idle]
    /\ UNCHANGED <<server, storage, feedPage, delete, create, acked, late>>

\* Faulty variant: the button is there for any post.
Offers_Any(p) == TRUE

Offers(p) == p \in own

\* handleDelete, on the feed page or on the page of the post.  A button that
\* waits for its answer is disabled.  (A page opened again has a button of its
\* own, and could send a second deletion while the first is under way; it would
\* be answered 404 or be the first to arrive.  Here a post has one at a time.)
ClickDelete(p) ==
    /\ Offers(p) /\ delete[p] = Idle
    /\ mounted => p \in posts \cup local
    /\ delete' = [delete EXCEPT ![p] =
           [at |-> "sent", from |-> IF mounted THEN "feed" ELSE "post"]]
    /\ UNCHANGED <<server, storage, feedPage, load, create, acked, late>>

\* Faulty variant: the cache of the feed keeps the post.
Purge_LocalOnly(p) ==
    localPosts' = localPosts \ {p} /\ UNCHANGED feedCache

\* removePostFromLocalCaches
Purge(p) == localPosts' = localPosts \ {p} /\ feedCache' = feedCache \ {p}

\* The post was deleted.  onDeleted of the feed page drops the post from its
\* state, that of the page of the post goes to the feed page.
ReceiveDelete(p) ==
    /\ delete[p] # Idle /\ delete[p].at = "ok"
    /\ delete' = [delete EXCEPT ![p] = Idle]
    /\ Purge(p)
    /\ CASE delete[p].from = "feed" -> /\ posts' = posts \ {p}
                                       /\ local' = local \ {p}
                                       /\ UNCHANGED <<mounted, load>>
         [] delete[p].from = "post" -> Navigate /\ UNCHANGED posts
         [] delete[p].from = "gone" -> UNCHANGED <<feedPage, load>>
    /\ acked' = acked \cup {p}
    /\ late' = late \cup ({p} \cap (posts' \cup local'))
    /\ UNCHANGED <<server, create>>

\* An answer that is not ok, or none, is an alert and nothing else.  A deletion
\* whose answer is lost is OthersDelete and this.
DeleteFails(p) ==
    /\ delete[p] # Idle /\ delete[p].at = "sent"
    /\ delete' = [delete EXCEPT ![p] = Idle]
    /\ UNCHANGED <<server, storage, feedPage, load, create, acked, late>>
-----------------------------------------------------------------------------
(* The create page                                                         *)

SubmitPost ==
    /\ ~mounted /\ create = Idle
    /\ create' = [at |-> "sent", id |-> 0]
    /\ UNCHANGED <<server, storage, feedPage, load, delete, acked, late>>

\* The post is saved in both lists, and the feed page is navigated to.
ReceiveCreate ==
    /\ create # Idle /\ create.at = "served"
    /\ create' = Idle
    /\ localPosts' = localPosts \cup {create.id}
    /\ feedCache' = feedCache \cup {create.id}
    /\ late' = late \cup ({create.id} \cap acked)
    /\ Navigate
    /\ UNCHANGED <<server, posts, delete, acked>>

CreateFails ==
    /\ create # Idle /\ create' = Idle
    /\ UNCHANGED <<server, storage, feedPage, load, delete, acked, late>>

Next ==
    \/ Open \/ Leave
    \/ \E l \in Loads :
           Refresh(l) \/ ServeLoad(l) \/ ReceiveLoad(l) \/ LoadFails(l)
    \/ \E p \in 1..drawn : \/ OthersDelete(p) \/ ServeDelete(p)
                           \/ ClickDelete(p) \/ ReceiveDelete(p)
                           \/ DeleteFails(p)
    \/ OthersPost \/ ServeCreate
    \/ SubmitPost \/ ReceiveCreate \/ CreateFails

Spec == Init /\ [][Next]_vars
-----------------------------------------------------------------------------
(* Properties                                                              *)

Kept == localPosts \cup feedCache \cup posts \cup local

\* removePostFromLocalCaches and the two filters of the feed page: a post whose
\* deletion the user was told is kept nowhere, unless an answer that was on its
\* way at that time brings it back (of a load, or of the very creation of the
\* post), or the feed page was opened between the click and its answer.
DeletedStaysAway == acked \cap Kept \subseteq late
=============================================================================
