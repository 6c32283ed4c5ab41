-------------------------------- MODULE Session -------------------------------
(***************************************************************************)
(* The session of the web client: token and username in local storage,     *)
(* which all windows share, and what the header of each window shows of    *)
(* them (web/src/App.tsx, and the pages of web/src/pages.tsx that log in,  *)
(* register and load the feed).  Tokens are numbered as they are issued.   *)
(***************************************************************************)
EXTENDS Integers, Sequences

CONSTANTS Windows, Users,
          NoName,      \* no username
          MaxTokens    \* bound on the tokens issued

\* What the constants are taken to be.
Parameters == NoName \notin Users /\ MaxTokens \in Nat

VARIABLES token,       \* in local storage, 0 for none
          username,    \* in local storage
          header,      \* header[w]: isLoggedIn and username of App
          event,       \* event[w]: a storage event w has not handled
          login,       \* login[w]: the form of the login or register page
          load,        \* load[w]: the token of a request for the feed, 0 if none
          owner,       \* owner[t]: the user of token t, for those issued
          unnamed,     \* history: tokens whose login did not learn the name
          doubted      \* history: tokens that were answered 401, or stored
                       \* while a request of another one was under way

stored == <<token, username>>
vars == <<token, username, header, event, login, load, owner, unnamed, doubted>>

Tokens == 1..MaxTokens
Issued == 1..Len(owner)
Idle == [user |-> NoName]
Forms == [user : Users, new : BOOLEAN, token : 0..MaxTokens]
Names == Users \cup {NoName}

TypeOK ==
    /\ token \in Issued \cup {0} /\ username \in Names
    /\ header \in [Windows -> [in : BOOLEAN, name : Names]]
    /\ event \in [Windows -> BOOLEAN]
    /\ login \in [Windows -> Forms \cup {Idle}]
    /\ load \in [Windows -> Issued \cup {0}]
    /\ owner \in Seq(Users) /\ Len(owner) <= MaxTokens
    /\ unnamed \subseteq Issued /\ doubted \subseteq Issued

Init ==
    /\ token = 0 /\ username = NoName
    /\ header = [w \in Windows |-> [in |-> FALSE, name |-> NoName]]
    /\ event = [w \in Windows |-> FALSE]
    /\ login = [w \in Windows |-> Idle] /\ load = [w \in Windows |-> 0]
    /\ owner = <<>>
    /\ unnamed = {} /\ doubted = {}
-----------------------------------------------------------------------------
(* App                                                                     *)

Seen(t, n) == [in |-> t # 0, name |-> n]

\* A writer of the storage tells its own window by auth-changed; the browser
\* tells the others, when they get to it.
Store(w, t, n) ==
    /\ token' = t /\ username' = n
    /\ header' = [header EXCEPT ![w] = Seen(t, n)]
    /\ event' = [v \in Windows |->
           IF v # w /\ stored' # stored THEN TRUE ELSE event[v]]

\* Faulty variant: auth-changed is not dispatched.
StoreOnExpiry_Silent(w, t, n) ==
    /\ token' = t /\ username' = n /\ UNCHANGED header
    /\ event' = [v \in Windows |->
           IF v # w /\ stored' # stored THEN TRUE ELSE event[v]]

StoreOnExpiry(w, t, n) == Store(w, t, n)

\* syncAuth, on a storage event.
SyncAuth(w) ==
    /\ event[w] /\ event' = [event EXCEPT ![w] = FALSE]
    /\ header' = [header EXCEPT ![w] = Seen(token, username)]
    /\ UNCHANGED <<stored, login, load, owner, unnamed, doubted>>

Logout(w) ==
    /\ header[w].in /\ Store(w, 0, NoName)
    /\ UNCHANGED <<login, load, owner, unnamed, doubted>>
-----------------------------------------------------------------------------
(* The pages that log in and register                                      *)

Form(w, form) ==
    /\ login' = [login EXCEPT ![w] = form]
    /\ UNCHANGED <<stored, header, event, load, unnamed, doubted>>

Submit(w, u, new) ==
    /\ login[w] = Idle /\ UNCHANGED owner
    /\ Form(w, [user |-> u, new |-> new, token |-> 0])

\* To register is three requests, of which this is the last.
Issue(w) ==
    LET t == Len(owner) + 1 IN
    /\ login[w] # Idle /\ login[w].token = 0 /\ t \in Tokens
    /\ owner' = Append(owner, login[w].user)
    /\ Form(w, [login[w] EXCEPT !.token = t])

\* An answer that is not ok, or none: the form tells so, what was done stays.
Refused(w) ==
    /\ login[w] # Idle /\ login[w].token = 0 /\ UNCHANGED owner
    /\ Form(w, Idle)

\* Faulty variant: a name that is there is not replaced.
NewName_Kept(n) == IF username = NoName THEN n ELSE username

NewName(n) == IF n = NoName THEN username ELSE n

\* setSession, with the name of the form that registered, or the one
\* loadCurrentUsername returns, none if its request fails.
SetSession(w, n) ==
    LET t == login[w].token IN
    /\ login[w] # Idle /\ t # 0
    /\ n \in {login[w].user} \cup IF login[w].new THEN {} ELSE {NoName}
    /\ Store(w, t, NewName(n))
    /\ login' = [login EXCEPT ![w] = Idle]
    /\ unnamed' = IF n = NoName THEN unnamed \cup {t} ELSE unnamed
    /\ doubted' = IF \E v \in Windows : load[v] \notin {0, t}
                  THEN doubted \cup {t} ELSE doubted
    /\ UNCHANGED <<load, owner>>
-----------------------------------------------------------------------------
(* The feed page                                                           *)

LoadFeed(w) ==
    /\ load[w] = 0 /\ token # 0 /\ load' = [load EXCEPT ![w] = token]
    /\ UNCHANGED <<stored, header, event, login, owner, unnamed, doubted>>

\* Faulty variant: any answer that is not ok ends the session.
Expired_AnyError(status) == status # "ok"

Expired(status) == status = "unauthorized"

\* A 401, which AuthTokenMiddleware answers also when it fails to read the
\* user, removes the token that is stored by now, and no username.
ReceiveLoad(w, status) ==
    /\ load[w] # 0 /\ load' = [load EXCEPT ![w] = 0]
    /\ IF Expired(status) THEN StoreOnExpiry(w, 0, username)
       ELSE UNCHANGED <<stored, header, event>>
    /\ doubted' = IF status = "unauthorized"
                  THEN doubted \cup {load[w]} ELSE doubted
    /\ UNCHANGED <<login, owner, unnamed>>

Next ==
    \E w \in Windows :
        \/ SyncAuth(w) \/ Logout(w)
        \/ \E u \in Users, new \in BOOLEAN : Submit(w, u, new)
        \/ Issue(w) \/ Refused(w)
        \/ \E n \in Names : SetSession(w, n)
        \/ LoadFeed(w)
        \/ \E status \in {"ok", "error", "unauthorized"} : ReceiveLoad(w, status)

Spec == Init /\ [][Next]_vars
-----------------------------------------------------------------------------
(* Properties                                                              *)

\* syncAuth and those who write the session: a window with no event to handle
\* shows what is stored, whichever window changed it.
HeaderAgrees ==
    \A w \in Windows : ~event[w] => header[w] = Seen(token, username)

\* setSession stores two items, loadFeed removes one of them: the name is that
\* of another user only if the login of this session did not learn its own.
NameIsOfToken ==
    token # 0 /\ username \notin {owner[token], NoName} => token \in unnamed

\* A session ends by a logout, or for a 401, the answer to one of its requests
\* or to one of an earlier session that was under way when it began.
SessionEndsForAReason ==
    [][token # 0 /\ token' = 0 =>
           token \in doubted' \/ \E w \in Windows : Logout(w)]_vars
=============================================================================
