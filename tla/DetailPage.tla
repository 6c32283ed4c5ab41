------------------------------ MODULE DetailPage ------------------------------
(***************************************************************************)
(* PostDetailPage of web/src/pages.tsx as its address changes, and the     *)
(* comments written on it.  They never reach the server: they are kept in  *)
(* a map in local storage, which all windows share, and the page has a     *)
(* copy of those of its post.  React keeps a page, with its state, when    *)
(* the history leads from it to the same page of another post.             *)
(***************************************************************************)
EXTENDS Integers

CONSTANTS Posts, Windows,
          Loads,       \* requests that may overlap
          NoPost,
          MaxComments  \* bound on the comments

\* What the constants are taken to be.
Parameters == NoPost \notin Posts /\ MaxComments \in Nat

VARIABLES stored,      \* stored[p]: comments in local storage for post p
          drawn,       \* comments so far: 1..drawn
          address,     \* address[w]: the post in the address, if the page is there
          post,        \* post[w]: the post it shows
          localComments,   \* localComments[w]: the comments it shows
          load,        \* load[l]: a request, of which window and for which post
          crossed,     \* history: windows whose last request overlapped with
                       \* another, or failed
          moved        \* history: windows whose address changed since the page
                       \* was there, or since a comment with no request under way

vars == <<stored, drawn, address, post, localComments, load, crossed, moved>>

Comments == 1..MaxComments
Idle == [post |-> NoPost]

TypeOK ==
    /\ drawn \in 0..MaxComments /\ stored \in [Posts -> SUBSET (1..drawn)]
    /\ address \in [Windows -> Posts \cup {NoPost}]
    /\ post \in [Windows -> Posts \cup {NoPost}]
    /\ localComments \in [Windows -> SUBSET (1..drawn)]
    /\ load \in [Loads -> [win : Windows, post : Posts] \cup {Idle}]
    /\ crossed \subseteq Windows /\ moved \subseteq Windows

Init ==
    /\ stored = [p \in Posts |-> {}] /\ drawn = 0
    /\ address = [w \in Windows |-> NoPost]
    /\ post = [w \in Windows |-> NoPost]
    /\ localComments = [w \in Windows |-> {}]
    /\ load = [l \in Loads |-> Idle] /\ crossed = {} /\ moved = {}
-----------------------------------------------------------------------------
Of(w) == {l \in Loads : load[l] # Idle /\ load[l].win = w}

\* W with w in it exactly if it is told so.
Marked(W, w, told) == IF told THEN W \cup {w} ELSE W \ {w}

\* Faulty variant: the effect does not depend on postID.
LoadPost_OnMount(w, p) ==
    IF address[w] = NoPost
    THEN /\ \E l \in Loads : /\ load[l] = Idle
                             /\ load' = [load EXCEPT ![l] =
                                              [win |-> w, post |-> p]]
         /\ crossed' = Marked(crossed, w, Of(w) # {})
    ELSE UNCHANGED <<load, crossed>>

\* The effect on token and postID.
LoadPost(w, p) ==
    /\ \E l \in Loads :
           load[l] = Idle /\ load' = [load EXCEPT ![l] = [win |-> w, post |-> p]]
    /\ crossed' = Marked(crossed, w, Of(w) # {})

\* A post is shown at once if one of the caches has it.
Open(w, p) ==
    /\ address[w] = NoPost /\ address' = [address EXCEPT ![w] = p]
    /\ \E cached \in {p, NoPost} : post' = [post EXCEPT ![w] = cached]
    /\ localComments' = [localComments EXCEPT ![w] = stored[p]]
    /\ LoadPost(w, p)
    /\ UNCHANGED <<stored, drawn, moved>>

\* Back or forward in the history by several entries: no state is initialised.
Move(w, p) ==
    /\ address[w] \notin {p, NoPost} /\ address' = [address EXCEPT ![w] = p]
    /\ LoadPost(w, p) /\ moved' = moved \cup {w}
    /\ UNCHANGED <<stored, drawn, post, localComments>>

\* What a request that is under way brings reaches no page.
Leave(w) ==
    /\ address[w] # NoPost /\ address' = [address EXCEPT ![w] = NoPost]
    /\ post' = [post EXCEPT ![w] = NoPost]
    /\ localComments' = [localComments EXCEPT ![w] = {}]
    /\ load' = [l \in Loads |-> IF l \in Of(w) THEN Idle ELSE load[l]]
    /\ crossed' = crossed \ {w} /\ moved' = moved \ {w}
    /\ UNCHANGED <<stored, drawn>>

ReceiveLoad(l) ==
    /\ load[l] # Idle /\ load' = [load EXCEPT ![l] = Idle]
    /\ post' = [post EXCEPT ![load[l].win] = load[l].post]
    /\ UNCHANGED <<stored, drawn, address, localComments, crossed, moved>>

\* An answer that is not ok, or none, is a line of text.
LoadFails(l) ==
    /\ load[l] # Idle /\ load' = [load EXCEPT ![l] = Idle]
    /\ crossed' = crossed \cup {load[l].win}
    /\ UNCHANGED <<stored, drawn, address, post, localComments, moved>>

\* Faulty variant: the comments of the page are taken for those of the post.
CommentsBefore_OfPage(w) == localComments[w]

CommentsBefore(w) == stored[post[w]]

\* Faulty variant: the page adds the comment to its own.
NextComments_OfPage(w, c) == localComments[w] \cup {c}

NextComments(w, c) == CommentsBefore(w) \cup {c}

\* handleComment, for the post that is shown: nothing happens in between.
Comment(w) ==
    LET c == drawn + 1 IN
    /\ post[w] # NoPost /\ c \in Comments /\ drawn' = c
    /\ stored' = [stored EXCEPT ![post[w]] = CommentsBefore(w) \cup {c}]
    /\ localComments' = [localComments EXCEPT ![w] = NextComments(w, c)]
    /\ moved' = Marked(moved, w, w \in moved /\ Of(w) # {})
    /\ UNCHANGED <<address, post, load, crossed>>

Next ==
    \/ \E w \in Windows : \/ \E p \in Posts : Open(w, p) \/ Move(w, p)
                          \/ Leave(w) \/ Comment(w)
    \/ \E l \in Loads : ReceiveLoad(l) \/ LoadFails(l)

Spec == Init /\ [][Next]_vars
-----------------------------------------------------------------------------
(* Properties                                                              *)

\* loadPost: with no request under way the page shows the post of its address,
\* unless the last request overlapped with another of the page, or failed.
DetailIsOfAddress ==
    \A w \in Windows \ crossed :
        address[w] # NoPost /\ Of(w) = {} => post[w] = address[w]

\* handleComment reads the storage again before it writes: no comment is lost,
\* whatever another window, or the same for another post, has stored.
CommentsKept == [][\A p \in Posts : stored[p] \subseteq stored'[p]]_vars

\* The comments on the page are comments on its post, unless its address has
\* changed under it.
CommentsOfPost ==
    \A w \in Windows \ moved :
        post[w] # NoPost => localComments[w] \subseteq stored[post[w]]
=============================================================================
