-------------------------------- MODULE Client --------------------------------
(***************************************************************************)
(* The parts of the web client: the lists of posts (FeedClient), the list  *)
(* of followed users (FollowClient), the likes (Likes), the session        *)
(* (Session), searching and paging (FeedSearch), the pages of a post       *)
(* (PostPages), and its local comments (DetailPage).  They share no state: *)
(* each behaviour is one of one of them.                                   *)
(***************************************************************************)
EXTENDS FeedClient

CONSTANTS Authors, Me, Toggles, Faults,
          Items, Buttons, NoItem,
          Windows, Users, NoName, MaxTokens,
          Total, PageSize, MaxPage,
          Fields, MaxVersion,
          MaxComments

VARIABLES part,
          following, stored, followingIDs, toggle, before, tainted,
          liked, counts, item, likedPosts, likeCounts,
          token, username, header, event, login, feedLoad, owner, unnamed,
          doubted,
          asked, shown, isLoading, request, reload, mixed, strayed,
          texts, copy, page, post, get, form, save, saved, since,
          loaded, seen, reordered, overtaken, undone,
          remarks, drawnRemarks, address, detail, localComments, fetch, crossed,
          moved

follow == <<following, stored, followingIDs, toggle, before, tainted>>
like == <<liked, counts, item, likedPosts, likeCounts>>
session == <<token, username, header, event, login, feedLoad, owner, unnamed,
             doubted>>
search == <<asked, shown, isLoading, request, reload, mixed, strayed>>
pages == <<texts, copy, page, post, get, form, save, saved, since,
           loaded, seen, reordered, overtaken, undone>>
details == <<remarks, drawnRemarks, address, detail, localComments, fetch,
             crossed, moved>>

Follow == INSTANCE FollowClient WITH Users <- Authors, server <- following

Like == INSTANCE Likes

Session == INSTANCE Session WITH load <- feedLoad

Search == INSTANCE FeedSearch WITH
    posts <- shown, load <- request, follow <- reload

Pages == INSTANCE PostPages WITH feedCache <- copy

Detail == INSTANCE DetailPage WITH
    Posts <- Items, NoPost <- NoItem,
    stored <- remarks, drawn <- drawnRemarks, post <- detail, load <- fetch

ASSUME ClientAssumption ==
    /\ Follow!Parameters /\ Like!Parameters /\ Session!Parameters
    /\ Search!Parameters /\ Pages!Parameters /\ Detail!Parameters

ClientInit ==
    /\ part \in {"feed", "follow", "like", "session", "search", "pages",
                "details"}
    /\ Init /\ Follow!Init /\ Like!Init
    /\ Session!Init /\ Search!Init /\ Pages!Init /\ Detail!Init

Other(parts) == UNCHANGED part /\ UNCHANGED parts

ClientNext ==
    \/ /\ part = "feed"
       /\ Other(<<follow, like, session, search, pages, details>>) /\ Next
    \/ /\ part = "follow"
       /\ Other(<<vars, like, session, search, pages, details>>) /\ Follow!Next
    \/ /\ part = "like"
       /\ Other(<<vars, follow, session, search, pages, details>>) /\ Like!Next
    \/ /\ part = "session"
       /\ Other(<<vars, follow, like, search, pages, details>>) /\ Session!Next
    \/ /\ part = "search"
       /\ Other(<<vars, follow, like, session, pages, details>>) /\ Search!Next
    \/ /\ part = "pages"
       /\ Other(<<vars, follow, like, session, search, details>>) /\ Pages!Next
    \/ /\ part = "details"
       /\ Other(<<vars, follow, like, session, search, pages>>) /\ Detail!Next

ClientSpec ==
    /\ ClientInit
    /\ [][ClientNext]_<<part, vars, follow, like, session, search, pages,
                      details>>
-----------------------------------------------------------------------------
\* The type invariants of the seven modules.
TypesOK ==
    CASE part = "feed" -> TypeOK
      [] part = "follow" -> Follow!TypeOK
      [] part = "like" -> Like!TypeOK
      [] part = "session" -> Session!TypeOK
      [] part = "search" -> Search!TypeOK
      [] part = "pages" -> Pages!TypeOK
      [] part = "details" -> Detail!TypeOK

\* toggleFollow keeps the list of those the session followed, but for overlaps
\* and losses.
AgreesWhenIdle == Follow!AgreesWhenIdle

\* toggleLike keeps the list and the counts of likes in step.
StoredAgree == Like!StoredAgree

\* toggleFollow and toggleLike: the lists of the client are true.
CopiesAgree ==
    /\ part = "follow" => AgreesWhenIdle
    /\ part = "like" => StoredAgree

\* syncAuth: a window shows the session that is stored.
HeaderAgrees == Session!HeaderAgrees

\* setSession: the name that is stored is that of the token.
NameIsOfToken == Session!NameIsOfToken

\* syncAuth and setSession: every window shows one session, token and name.
SessionAgrees == part = "session" => HeaderAgrees /\ NameIsOfToken

\* loadFeed, Logout: nothing else ends a session.
SessionEndsForAReason == Session!SessionEndsForAReason

\* loadFeed: the page shows what its boxes say.
ShownIsAsked == Search!ShownIsAsked

\* goToNextPage: no further than the pages there are.
WithinPages == Search!WithinPages

\* FeedPage: the page is the one that was asked for, and there is one.
PageIsAsked == part = "search" => ShownIsAsked /\ WithinPages

\* handleUpdate: the page of a post shows an edit that was answered.
SavedIsShown == Pages!SavedIsShown

\* EditPostPage: an edit the user was shown is not undone, but for what the cache
\* of the feed misses.
SeenIsKept == Pages!SeenIsKept

\* EditPostPage and PostDetailPage: a save is shown, and what a load of the feed
\* has shown is not undone.
EditsSurvive == part = "pages" => SavedIsShown /\ SeenIsKept

\* loadPost: the page shows the post of its address.
DetailIsOfAddress == Detail!DetailIsOfAddress

\* PostDetailPage: the comments shown are of the post shown.
CommentsOfPost == Detail!CommentsOfPost

\* PostDetailPage: address, post and comments are of one post.
DetailsMatch == part = "details" => DetailIsOfAddress /\ CommentsOfPost

\* handleComment: no comment is lost.
CommentsKept == Detail!CommentsKept
=============================================================================
