------------------------------ MODULE PostPages -------------------------------
(***************************************************************************)
(* The page of a post and the page that edits it (web/src/pages.tsx), for  *)
(* one post in one window.  Both start from the copy in the cache of the   *)
(* feed, which only loads of the feed refresh; the one asks the server for *)
(* the post, the other sends title and content, whichever was edited.  A   *)
(* copy is known by the version it was made of.                            *)
(***************************************************************************)
EXTENDS Integers, Sequences

CONSTANTS Fields,      \* title and content
          MaxVersion   \* bound on the versions

\* What the constants are taken to be.
Parameters == MaxVersion \in Nat \ {0}

VARIABLES texts,       \* texts[v][f]: the version that wrote f as v has it
          feedCache,   \* version of the copy in local storage
          page,        \* what is on the screen
          post,        \* version the page of the post shows
          get,         \* the version when its request was sent
          form,        \* the form of the edit page
          save,        \* the PATCH of an edit page, which may have been left
          saved,       \* history: version of the last save that was answered
          since,       \* history: saved when the page of the post was opened,
                       \* 0 when it is not
          loaded,      \* history: newest version a load of the feed has brought
          seen,        \* history: newest version the user was shown, by a load
                       \* of the feed, the page of the post or an own save
          reordered,   \* history: a load of the feed has brought an older
                       \* version after a newer one
          overtaken,   \* history: a form was opened when the user had been
                       \* shown a version no load of the feed had brought
          undone       \* history: a save has written a field its user did not
                       \* edit otherwise than in the version seen

server == <<texts>>
feed == <<feedCache, loaded, reordered>>
screen == <<page, post, get, form, since, overtaken>>
vars == <<server, feed, screen, save, saved, seen, undone>>

Current == Len(texts)
Versions == 1..MaxVersion
Later(v, w) == IF v > w THEN v ELSE w
Nothing == 0                                          \* no copy
Sent == -1                                            \* no answer yet
Failed == -2
Idle == -3                                            \* no request
Replies == Versions \cup {Sent, Idle}

NoForm == [base |-> Idle, touched |-> {}, seen |-> 0]
Forms == [base : Versions \cup {Nothing}, touched : SUBSET Fields,
          seen : Versions \cup {0}]
NoSave == [form |-> NoForm, reply |-> Idle]

TypeOK ==
    /\ texts \in Seq([Fields -> Versions]) /\ Current \in Versions
    /\ feedCache \in 0..Current
    /\ page \in {"feed", "post", "edit"}
    /\ post \in 0..Current /\ get \in Versions \cup {Failed, Idle}
    /\ form \in Forms \cup {NoForm}
    /\ save.form \in Forms \cup {NoForm} /\ save.reply \in Replies
    /\ saved \in 0..Current /\ since \in 0..saved
    /\ loaded \in 0..Current /\ seen \in 0..Current
    /\ reordered \in BOOLEAN /\ overtaken \in BOOLEAN /\ undone \in BOOLEAN

Init ==
    /\ texts = <<[f \in Fields |-> 1]>>
    /\ feedCache = Nothing
    /\ page = "feed" /\ post = Nothing /\ get = Idle /\ form = NoForm
    /\ save = NoSave /\ saved = 0 /\ since = 0
    /\ loaded = 0 /\ seen = 0
    /\ reordered = FALSE /\ overtaken = FALSE /\ undone = FALSE
-----------------------------------------------------------------------------
(* The server                                                              *)

\* An edit from another window, or by a moderator.
OthersEdit(F) ==
    /\ Current < MaxVersion
    /\ texts' = Append(texts, [f \in Fields |->
           IF f \in F THEN Current + 1 ELSE texts[Current][f]])
    /\ UNCHANGED <<feed, screen, save, saved, seen, undone>>

\* The form's fields are written, edited or not.
ServeSave ==
    LET old == save.form
        kept == Fields \ old.touched
    IN  /\ save.reply = Sent /\ Current < MaxVersion
        /\ texts' = Append(texts, [f \in Fields |->
               IF f \in kept THEN texts[old.base][f] ELSE Current + 1])
        /\ save' = [save EXCEPT !.reply = Current + 1]
        /\ undone' = (undone \/ \E f \in kept :
                                  texts[old.base][f] # texts[old.seen][f])
        /\ UNCHANGED <<feed, screen, saved, seen>>
-----------------------------------------------------------------------------
(* The feed page                                                           *)

\* Faulty variant: what is in the cache wins.
Merged_CacheFirst(v) == IF feedCache = Nothing THEN v ELSE feedCache

\* mergePosts of the answer and the cache.
Merged(v) == v

\* Loads overlap, and an answer may be as old as its request; it is handled
\* also when the page is gone.
ReceiveLoad(v) ==
    /\ feedCache' = Merged(v)
    /\ loaded' = Later(v, loaded) /\ seen' = Later(v, seen)
    /\ reordered' = (reordered \/ v < loaded)
    /\ UNCHANGED <<server, screen, save, saved, undone>>

GoToFeed ==
    /\ page # "feed" /\ page' = "feed"
    /\ post' = Nothing /\ get' = Idle /\ form' = NoForm /\ since' = 0
    /\ UNCHANGED <<server, feed, save, saved, seen, overtaken, undone>>
-----------------------------------------------------------------------------
(* PostDetailPage                                                          *)

\* Faulty variant: a post that is in the cache is not loaded.
LoadPost_Uncached == IF feedCache = Nothing THEN Current ELSE Idle

LoadPost == Current

Mount(told) ==
    /\ page' = "post" /\ post' = feedCache /\ get' = LoadPost
    /\ form' = NoForm /\ since' = told /\ UNCHANGED overtaken

OpenPost ==
    /\ page # "post" /\ Mount(saved)
    /\ UNCHANGED <<server, feed, save, saved, seen, undone>>

\* An answer that is not ok leaves the copy of the cache, and a line of text.
ReceiveGet ==
    /\ get \in Versions
    /\ \/ post' \in get..Current /\ get' = Idle /\ seen' = Later(post', seen)
       \/ get' = Failed /\ UNCHANGED <<post, seen>>
    /\ UNCHANGED <<server, feed, page, form, since, overtaken, save, saved,
                   undone>>
-----------------------------------------------------------------------------
(* EditPostPage                                                            *)

OpenEdit ==
    /\ page = "feed" \/ (page = "post" /\ post # Nothing)
    /\ page' = "edit" /\ post' = Nothing /\ get' = Idle
    /\ form' = [base |-> feedCache, touched |-> {}, seen |-> seen]
    /\ since' = 0 /\ overtaken' = (overtaken \/ seen > loaded)
    /\ UNCHANGED <<server, feed, save, saved, seen, undone>>

Type(f) ==
    /\ page = "edit" /\ form' = [form EXCEPT !.touched = @ \cup {f}]
    /\ UNCHANGED <<server, feed, page, post, get, since, overtaken, save, saved,
                   seen, undone>>

\* Both fields are required, and empty when nothing was cached.  isSaving keeps a
\* page from a second PATCH; a page that was opened again could send one while
\* the first is under way, but here there is one at a time.
Submit ==
    /\ page = "edit" /\ save = NoSave
    /\ form.base # Nothing \/ form.touched = Fields
    /\ save' = [form |-> form, reply |-> Sent]
    /\ UNCHANGED <<server, feed, screen, saved, seen, undone>>

\* navigate opens the page of the post, unless it is there by now.
ReceiveSave ==
    /\ save.reply \in Versions /\ save' = NoSave /\ saved' = save.reply
    /\ seen' = Later(saved', seen)
    /\ IF page = "post" THEN UNCHANGED screen ELSE Mount(saved')
    /\ UNCHANGED <<server, feed, undone>>

SaveFails ==
    /\ save # NoSave /\ save' = NoSave
    /\ UNCHANGED <<server, feed, screen, saved, seen, undone>>

Next ==
    \/ \E F \in SUBSET Fields \ {{}} : OthersEdit(F)
    \/ ServeSave \/ \E v \in 1..Current : ReceiveLoad(v)
    \/ GoToFeed \/ OpenPost \/ ReceiveGet
    \/ OpenEdit \/ (\E f \in Fields : Type(f)) \/ Submit
    \/ ReceiveSave \/ SaveFails

Spec == Init /\ [][Next]_vars
-----------------------------------------------------------------------------
(* Properties                                                              *)

\* handleUpdate and loadPost: once the page of the post has loaded, it shows no
\* less than what the user had saved, and been told so, before it was opened.
SavedIsShown == page = "post" /\ get = Idle => post >= since

\* The edit page sends a field the user did not touch as it is in the cache, and
\* so undoes what was written since.  Nothing the user had been shown when the
\* form was opened is undone, with two exceptions: loads of the feed were answered
\* out of order, or what was shown came with the page of the post or an own save,
\* which leave the cache as it was, and no load of the feed had brought it.
SeenIsKept == undone => reordered \/ overtaken
=============================================================================
