----------------------------- MODULE FollowClient -----------------------------
(***************************************************************************)
(* toggleFollow of the feed page, web/src/pages.tsx, against the followers *)
(* the server keeps.  The client has no way to ask the server whom it      *)
(* follows: it keeps a list of its own, in the state of the page and in    *)
(* local storage, and changes it when a request is answered.  The list a   *)
(* request changes is the one of the render in which it was clicked.       *)
(*                                                                         *)
(* The key of the stored list is made from the token, so that every login  *)
(* begins with an empty list, whatever the server keeps for the user.      *)
(***************************************************************************)
EXTENDS Integers, FiniteSets

CONSTANTS Users,       \* authors of posts
          Me,          \* the user of the session
          Toggles,     \* clicks that may overlap
          Faults       \* requests may fail, and answers may be lost

\* What the constants are taken to be.
Parameters == Me \in Users /\ Faults \in BOOLEAN

VARIABLES server,      \* users Me follows, for the server
          stored,      \* the list in local storage, under the token's key
          followingIDs,\* the list of the page
          toggle,      \* toggle[t]: the request of click t
          before,      \* history: server, when the session began
          tainted      \* history: something that explains a wrong list

vars == <<server, stored, followingIDs, toggle, before, tainted>>

Idle == [at |-> "idle"]
InFlight == [at : {"sent", "ok", "refused"}, of : Users, follow : BOOLEAN,
             base : SUBSET Users, for : {"page", "session", "past"}]

\* Me is in no list: the page offers no button for its own posts.
TypeOK ==
    /\ server \subseteq Users \ {Me}
    /\ stored \subseteq Users \ {Me}
    /\ followingIDs \subseteq Users \ {Me}
    /\ toggle \in [Toggles -> InFlight \cup {Idle}]
    /\ before \subseteq Users \ {Me}
    /\ tainted \in BOOLEAN

\* The page, after a login; earlier sessions may have followed anyone.
Init ==
    /\ server \in SUBSET (Users \ {Me}) /\ before = server
    /\ stored = {} /\ followingIDs = {}
    /\ toggle = [t \in Toggles |-> Idle]
    /\ tainted = FALSE
-----------------------------------------------------------------------------
Flying == {t \in Toggles : toggle[t] # Idle}

CanFollow(v) == v # Me

\* The click: what to do, and with which list, is settled now.
Click(t, v) ==
    /\ t \notin Flying /\ CanFollow(v)
    /\ toggle' = [toggle EXCEPT ![t] =
           [at |-> "sent", of |-> v, follow |-> v \notin followingIDs,
            base |-> followingIDs, for |-> "page"]]
    /\ tainted' = (tainted \/ Flying # {})
    /\ UNCHANGED <<server, stored, followingIDs, before>>

Answered(t, at) == toggle' = [toggle EXCEPT ![t].at = at]

\* The server: a second follow is a conflict, a second unfollow is not.
Serve(t) ==
    LET r == toggle[t] IN
    /\ r.at = "sent"
    /\ IF r.follow
       THEN IF r.of \in server
            THEN Answered(t, "refused") /\ UNCHANGED server
            ELSE Answered(t, "ok") /\ server' = server \cup {r.of}
       ELSE Answered(t, "ok") /\ server' = server \ {r.of}
    /\ UNCHANGED <<stored, followingIDs, before, tainted>>

\* The request is refused or fails without effect; a follow that fails in the
\* database is answered 204.
ServeFails(t) ==
    /\ Faults /\ toggle[t].at = "sent"
    /\ \/ Answered(t, "refused") /\ UNCHANGED tainted
       \/ toggle[t].follow /\ Answered(t, "ok") /\ tainted' = TRUE
    /\ UNCHANGED <<server, stored, followingIDs, before>>

\* fetch throws: the server may have done what it was asked, or will not.
AnswerLost(t) ==
    /\ Faults /\ t \in Flying
    /\ toggle' = [toggle EXCEPT ![t] = Idle]
    /\ tainted' = (tainted \/ toggle[t].at = "ok")
    /\ UNCHANGED <<server, stored, followingIDs, before>>

Changed(r) == IF r.follow THEN r.base \cup {r.of} ELSE r.base \ {r.of}

\* Faulty variant: the status of the answer is not looked at.
Succeeds_Always(r) == r.at \in {"ok", "refused"}

Succeeds(r) == r.at = "ok"

\* The rest of toggleFollow.  A page that is gone no longer has a state, and
\* the list of an earlier session is no longer read; an answer that is not ok
\* only sets the status line.
Receive(t) ==
    LET r == toggle[t] IN
    /\ r.at \in {"ok", "refused"}
    /\ toggle' = [toggle EXCEPT ![t] = Idle]
    /\ stored' = IF Succeeds(r) /\ r.for # "past" THEN Changed(r) ELSE stored
    /\ followingIDs' = IF Succeeds(r) /\ r.for = "page" THEN Changed(r)
                       ELSE followingIDs
    /\ UNCHANGED <<server, before, tainted>>

\* loadFeed, for Refresh or a new search, takes the list from the storage.
LoadFeed ==
    /\ followingIDs' = stored
    /\ UNCHANGED <<server, stored, toggle, before, tainted>>

\* Requests go on when the page is gone, or the session.
Abandon(for) ==
    toggle' = [t \in Toggles |-> IF t \in Flying /\ toggle[t].for # "past"
                 THEN [toggle[t] EXCEPT !.for = for] ELSE toggle[t]]

\* The user leaves the page and opens it again.
Remount ==
    /\ followingIDs' = stored /\ Abandon("session")
    /\ tainted' = (tainted \/ Flying # {})
    /\ UNCHANGED <<server, stored, before>>

\* The session ends, and the user logs in again and opens the page.
Login ==
    /\ stored' = {} /\ followingIDs' = {} /\ Abandon("past")
    /\ before' = server /\ tainted' = (Flying # {})
    /\ UNCHANGED server

Next ==
    \/ \E t \in Toggles :
          \/ Serve(t) \/ ServeFails(t) \/ AnswerLost(t) \/ Receive(t)
          \/ \E v \in Users : Click(t, v)
    \/ LoadFeed \/ Remount \/ Login

Spec == Init /\ [][Next]_vars
-----------------------------------------------------------------------------
(* Properties                                                              *)

\* When no request is under way, the lists of the client are what the session
\* has changed: the user follows, for the server, exactly those in the list and
\* all whom earlier sessions followed, who are in no list, and so can neither be
\* unfollowed nor followed anew.  Excepted are sessions in which clicks
\* overlapped, a request outlived its page or session, or the answer to one did
\* not tell its effect.  A request that was refused is no such excuse.
AgreesWhenIdle ==
    Flying = {} /\ ~tainted =>
        /\ before \subseteq server
        /\ stored = server \ before /\ followingIDs = stored
=============================================================================
