---------------------------- MODULE Client_proofs -----------------------------
(***************************************************************************)
(* The web client, for any number of windows, users, posts, requests that  *)
(* overlap, and versions.                                                  *)
(***************************************************************************)
EXTENDS Client, Sequences, TLAPS

(***************************************************************************)
(* The session.                                                            *)
(***************************************************************************)
\* A form that has a token has one of its own user's.
FormsOwnTokens ==
    \A w \in Windows : login[w] # Session!Idle /\ login[w].token # 0
        => /\ login[w].token \in 1..Len(owner)
           /\ owner[login[w].token] = login[w].user

\* While a request of another session is under way, a token is doubted.
OthersDoubt ==
    \A w \in Windows : token # 0 /\ feedLoad[w] \notin {0, token}
        => token \in doubted

SessionInv ==
    /\ Session!TypeOK /\ FormsOwnTokens /\ OthersDoubt
    /\ HeaderAgrees /\ NameIsOfToken
-----------------------------------------------------------------------------
USE DEF Session!stored, Session!Tokens, Session!Issued, Session!Idle,
        Session!Forms, Session!Names, Session!Seen

\* What is assumed of the constants of Session.
LEMMA SessionConstants == NoName \notin Users /\ MaxTokens \in Nat
  BY ClientAssumption DEF Session!Parameters

\* Initially nobody is logged in.
LEMMA SessionInit == Session!Init => SessionInv
<1> SUFFICES ASSUME Session!Init PROVE SessionInv
  OBVIOUS
<1>1. owner \in Seq(Users) /\ Len(owner) = 0
  BY DEF Session!Init
<1>2. Session!TypeOK
  BY <1>1, SessionConstants DEF Session!Init, Session!TypeOK
<1> QED
  BY <1>2
     DEF Session!Init, SessionInv, FormsOwnTokens, OthersDoubt, HeaderAgrees,
         Session!HeaderAgrees, NameIsOfToken, Session!NameIsOfToken

\* Who writes the session tells every window of it.
LEMMA StoreTells ==
    ASSUME Session!TypeOK, HeaderAgrees, NEW w \in Windows,
           NEW t \in 0..Len(owner), NEW n \in Session!Names,
           Session!Store(w, t, n), Len(owner)' = Len(owner)
    PROVE  /\ token' \in 0..Len(owner)' /\ username' \in Session!Names
           /\ header' \in [Windows -> [in : BOOLEAN, name : Session!Names]]
           /\ event' \in [Windows -> BOOLEAN]
           /\ HeaderAgrees'
<1>1. /\ header' = [header EXCEPT ![w] = [in |-> t # 0, name |-> n]]
      /\ token' = t /\ username' = n
      /\ event' = [v \in Windows |->
             IF v # w /\ <<t, n>> # <<token, username>> THEN TRUE ELSE event[v]]
  BY DEF Session!Store
<1>2. /\ token' \in 0..Len(owner)' /\ username' \in Session!Names
      /\ header' \in [Windows -> [in : BOOLEAN, name : Session!Names]]
      /\ event' \in [Windows -> BOOLEAN]
  BY <1>1 DEF Session!TypeOK
<1>3. HeaderAgrees'
  BY <1>1 DEF Session!TypeOK, HeaderAgrees, Session!HeaderAgrees
<1> QED
  BY <1>2, <1>3

\* What SessionInv says of the tokens and forms.
LEMMA SessionForms ==
    ASSUME SessionInv, NEW w \in Windows, login[w] # Session!Idle
    PROVE  /\ login[w] \in Session!Forms
           /\ login[w].token # 0 => /\ login[w].token \in 1..Len(owner)
                                    /\ owner[login[w].token] = login[w].user
  BY DEF SessionInv, Session!TypeOK, FormsOwnTokens

\* The tokens are those issued so far.
LEMMA SessionRanges ==
    ASSUME SessionInv
    PROVE  /\ Len(owner) \in Nat /\ 0 \in 0..Len(owner)
           /\ feedLoad \in [Windows -> 0..Len(owner)]
           /\ token \in 0..Len(owner) /\ doubted \subseteq 1..Len(owner)
           /\ username \in Session!Names
<1>1. Len(owner) \in Nat
  BY DEF SessionInv, Session!TypeOK
<1>2. 1..Len(owner) \cup {0} = 0..Len(owner)
  BY <1>1
<1> QED
  BY <1>1, <1>2 DEF SessionInv, Session!TypeOK

\* A form begins or ends without a token.
LEMMA FormPreserves ==
    ASSUME SessionInv, NEW w \in Windows, NEW f, Session!Form(w, f),
           UNCHANGED owner,
           f = Session!Idle \/ (f \in Session!Forms /\ f.token = 0)
    PROVE  SessionInv'
<1>1. Session!TypeOK'
  BY DEF SessionInv, Session!TypeOK, Session!Form
<1>2. FormsOwnTokens'
  BY DEF SessionInv, Session!TypeOK, FormsOwnTokens, Session!Form
<1> QED
  BY <1>1, <1>2
     DEF SessionInv, Session!Form, OthersDoubt, HeaderAgrees,
         Session!HeaderAgrees, NameIsOfToken, Session!NameIsOfToken

\* A new token is of the user of its form; the tokens before it stay.
LEMMA IssuePreserves ==
    ASSUME SessionInv, NEW w \in Windows, Session!Issue(w)
    PROVE  SessionInv'
<1> DEFINE t == Len(owner) + 1
<1>1. /\ login[w] \in Session!Forms /\ login[w].user \in Users
      /\ t \in Session!Tokens /\ owner \in Seq(Users)
      /\ owner' = Append(owner, login[w].user)
      /\ login' = [login EXCEPT ![w] = [login[w] EXCEPT !.token = t]]
      /\ UNCHANGED <<token, username, header, event, feedLoad, unnamed,
                       doubted>>
  BY SessionForms DEF Session!Issue, Session!Form, SessionInv, Session!TypeOK
<1>2. /\ owner' \in Seq(Users) /\ Len(owner') = t /\ Len(owner) \in Nat
      /\ owner'[t] = login[w].user
      /\ \A k \in 1..Len(owner) : owner'[k] = owner[k]
  BY <1>1
<1>3. [login[w] EXCEPT !.token = t] \in Session!Forms
  BY <1>1
<1>4. Session!TypeOK'
  BY <1>1, <1>2, <1>3 DEF SessionInv, Session!TypeOK
<1>5. FormsOwnTokens'
  <2> SUFFICES ASSUME NEW v \in Windows, login'[v] # Session!Idle,
                      login'[v].token # 0
               PROVE  /\ login'[v].token \in 1..Len(owner')
                      /\ owner'[login'[v].token] = login'[v].user
    BY DEF FormsOwnTokens
  <2>1. CASE v = w
    BY <1>1, <1>2, <2>1 DEF SessionInv, Session!TypeOK
  <2>2. CASE v # w
    BY <1>1, <1>2, <2>2, SessionForms DEF SessionInv, Session!TypeOK
  <2> QED
    BY <2>1, <2>2
<1>6. NameIsOfToken'
  BY <1>1, <1>2
     DEF SessionInv, Session!TypeOK, NameIsOfToken, Session!NameIsOfToken
<1> QED
  BY <1>1, <1>4, <1>5, <1>6
     DEF SessionInv, OthersDoubt, HeaderAgrees, Session!HeaderAgrees

\* A session is stored with the name of its user, or its token is unnamed.
LEMMA SetSessionPreserves ==
    ASSUME SessionInv, NEW w \in Windows, NEW n \in Session!Names,
           Session!SetSession(w, n)
    PROVE  SessionInv'
<1> DEFINE t == login[w].token
           name == Session!NewName(n)
<1>1. /\ login[w] \in Session!Forms /\ t \in 1..Len(owner) /\ t # 0
      /\ owner[t] = login[w].user /\ owner[t] \in Users
  BY SessionForms DEF Session!SetSession, SessionInv, Session!TypeOK
<1>2. /\ name \in Session!Names /\ n \in {owner[t], NoName}
      /\ n # NoName => name = owner[t]
  BY <1>1 DEF Session!SetSession, Session!NewName, SessionInv, Session!TypeOK
<1>3. /\ Session!Store(w, t, name) /\ token' = t /\ username' = name
      /\ login' = [login EXCEPT ![w] = Session!Idle]
      /\ unnamed' = IF n = NoName THEN unnamed \cup {t} ELSE unnamed
      /\ doubted' = IF \E v \in Windows : feedLoad[v] \notin {0, t}
                    THEN doubted \cup {t} ELSE doubted
      /\ UNCHANGED <<feedLoad, owner>>
  BY DEF Session!SetSession, Session!Store
<1>4. /\ token' \in 0..Len(owner)' /\ username' \in Session!Names
      /\ header' \in [Windows -> [in : BOOLEAN, name : Session!Names]]
      /\ event' \in [Windows -> BOOLEAN] /\ HeaderAgrees'
  BY <1>1, <1>2, <1>3, StoreTells DEF SessionInv
<1>5. Session!TypeOK'
  BY <1>1, <1>3, <1>4 DEF SessionInv, Session!TypeOK
<1>6. FormsOwnTokens'
  BY <1>3 DEF SessionInv, Session!TypeOK, FormsOwnTokens
<1>7. OthersDoubt'
  BY <1>3 DEF OthersDoubt
<1>8. NameIsOfToken'
  BY <1>1, <1>2, <1>3 DEF NameIsOfToken, Session!NameIsOfToken
<1> QED
  BY <1>4, <1>5, <1>6, <1>7, <1>8 DEF SessionInv

\* A session ends; the name may stay.
LEMMA EndPreserves ==
    ASSUME SessionInv, NEW w \in Windows, NEW n \in Session!Names,
           Session!Store(w, 0, n), UNCHANGED <<login, owner, unnamed>>,
           feedLoad' \in [Windows -> 0..Len(owner)],
           doubted' \subseteq 1..Len(owner)
    PROVE  SessionInv'
<1>1. /\ token' \in 0..Len(owner)' /\ username' \in Session!Names
      /\ header' \in [Windows -> [in : BOOLEAN, name : Session!Names]]
      /\ event' \in [Windows -> BOOLEAN] /\ HeaderAgrees'
  <2>1. 0 \in 0..Len(owner)
    BY SessionRanges
  <2> QED
    BY <2>1, StoreTells DEF SessionInv
<1>2. token' = 0
  BY DEF Session!Store
<1>3. Session!TypeOK'
  BY <1>1 DEF SessionInv, Session!TypeOK
<1> QED
  BY <1>1, <1>2, <1>3
     DEF SessionInv, FormsOwnTokens, OthersDoubt, NameIsOfToken,
         Session!NameIsOfToken

\* A request has the token that is stored; only a 401 ends the session.
LEMMA LoadPreserves ==
    ASSUME SessionInv, NEW w \in Windows,
           NEW status \in {"ok", "error", "unauthorized"},
           Session!LoadFeed(w) \/ Session!ReceiveLoad(w, status)
    PROVE  SessionInv'
<1>1. CASE Session!LoadFeed(w)
  <2>1. Session!TypeOK'
    BY <1>1 DEF SessionInv, Session!TypeOK, Session!LoadFeed
  <2>2. OthersDoubt'
    BY <1>1 DEF SessionInv, Session!TypeOK, Session!LoadFeed, OthersDoubt
  <2> QED
    BY <1>1, <2>1, <2>2
       DEF SessionInv, Session!LoadFeed, FormsOwnTokens, HeaderAgrees,
           Session!HeaderAgrees, NameIsOfToken, Session!NameIsOfToken
<1>2. CASE Session!ReceiveLoad(w, status)
  <2>1. /\ feedLoad' = [feedLoad EXCEPT ![w] = 0]
        /\ feedLoad' \in [Windows -> 0..Len(owner)]
        /\ doubted \subseteq doubted' /\ doubted' \subseteq 1..Len(owner)
        /\ UNCHANGED <<login, owner, unnamed>>
    <3>1. /\ feedLoad' = [feedLoad EXCEPT ![w] = 0] /\ feedLoad[w] # 0
          /\ doubted' \in {doubted, doubted \cup {feedLoad[w]}}
          /\ UNCHANGED <<login, owner, unnamed>>
      BY <1>2 DEF Session!ReceiveLoad
    <3> QED
      BY <3>1, SessionRanges
  <2>2. CASE Session!Expired(status)
    BY <1>2, <2>1, <2>2, SessionRanges, EndPreserves
       DEF Session!ReceiveLoad, Session!StoreOnExpiry
  <2>3. CASE ~Session!Expired(status)
    <3>1. UNCHANGED <<token, username, header, event>>
      BY <1>2, <2>3 DEF Session!ReceiveLoad
    <3>2. Session!TypeOK'
      BY <2>1, <3>1 DEF SessionInv, Session!TypeOK
    <3>3. OthersDoubt'
      BY <2>1, <3>1 DEF SessionInv, Session!TypeOK, OthersDoubt
    <3> QED
      BY <2>1, <3>1, <3>2, <3>3
         DEF SessionInv, FormsOwnTokens, HeaderAgrees, Session!HeaderAgrees,
             NameIsOfToken, Session!NameIsOfToken
  <2> QED
    BY <2>2, <2>3
<1> QED
  BY <1>1, <1>2

\* Every step keeps the invariant.
LEMMA SessionNext == SessionInv /\ [Session!Next]_(Session!vars) => SessionInv'
<1> SUFFICES ASSUME SessionInv, [Session!Next]_(Session!vars)
             PROVE  SessionInv'
  OBVIOUS
<1>1. ASSUME NEW w \in Windows, Session!SyncAuth(w) PROVE SessionInv'
  <2>1. Session!TypeOK'
    BY <1>1 DEF SessionInv, Session!TypeOK, Session!SyncAuth
  <2>2. HeaderAgrees'
    BY <1>1 DEF SessionInv, Session!TypeOK, Session!SyncAuth, HeaderAgrees,
                Session!HeaderAgrees
  <2> QED
    BY <1>1, <2>1, <2>2
       DEF SessionInv, Session!SyncAuth, FormsOwnTokens, OthersDoubt,
           NameIsOfToken, Session!NameIsOfToken
<1>2. ASSUME NEW w \in Windows, Session!Logout(w) PROVE SessionInv'
  BY <1>2, SessionRanges, EndPreserves DEF Session!Logout
<1>3. ASSUME NEW w \in Windows, NEW u \in Users, NEW new \in BOOLEAN,
             Session!Submit(w, u, new)
      PROVE  SessionInv'
  BY <1>3, FormPreserves, SessionConstants DEF Session!Submit
<1>4. ASSUME NEW w \in Windows, Session!Refused(w) PROVE SessionInv'
  BY <1>4, FormPreserves DEF Session!Refused
<1>5. CASE UNCHANGED Session!vars
  BY <1>5
     DEF Session!vars, SessionInv, Session!TypeOK, FormsOwnTokens, OthersDoubt,
         HeaderAgrees, Session!HeaderAgrees, NameIsOfToken,
         Session!NameIsOfToken
<1> QED
  BY <1>1, <1>2, <1>3, <1>4, <1>5, IssuePreserves, SetSessionPreserves,
     LoadPreserves DEF Session!Next

\* The invariant holds in every reachable state.
THEOREM SessionInvariance == Session!Spec => []SessionInv
  BY SessionInit, SessionNext, PTL DEF Session!Spec

-----------------------------------------------------------------------------
(***************************************************************************)
(* The pages of a post.                                                    *)
(***************************************************************************)
\* What has been saved, or is asked for, was written.
VersionsInOrder ==
    /\ Len(texts) \in Nat
    /\ saved \in 0..Len(texts) /\ save.reply \in Int /\ save.reply <= Len(texts)

\* The answer to the page's request is no older than what was saved before.
AnswersAreNew ==
    /\ since \in Int
    /\ page = "post" => /\ get > 0 => get >= since /\ get \in Nat
                        /\ get = Pages!Idle => post >= since

\* The base of the form of an edit page is the newest text the user has seen.
FormsAreNew ==
    /\ copy \in Nat /\ loaded \in Nat /\ seen \in Nat /\ loaded <= seen
    /\ form \in [base : Int, touched : SUBSET Fields, seen : Int]
    /\ page = "edit" => form.base # Pages!Idle
    /\ save.reply = Pages!Sent => save.form.base # Pages!Idle
    /\ ~reordered => copy = loaded
    /\ ~reordered /\ ~overtaken =>
           \A f \in {form, save.form} : f.base # Pages!Idle => f.base = f.seen

PagesInv == VersionsInOrder /\ AnswersAreNew /\ FormsAreNew /\ SeenIsKept

USE DEF Pages!server, Pages!feed, Pages!screen, Pages!Current, Pages!Versions,
        Pages!Nothing, Pages!Sent, Pages!Failed, Pages!Idle, Pages!NoForm,
        Pages!NoSave, Pages!Merged, Pages!LoadPost, Pages!Later

\* Initially nothing was saved, and no copy was made.
LEMMA PagesInit == Pages!Init => PagesInv
  BY DEF Pages!Init, PagesInv, VersionsInOrder, AnswersAreNew, FormsAreNew,
         SeenIsKept, Pages!SeenIsKept

\* The page of the post asks for the version that is there by now, or a later.
LEMMA MountPreserves ==
    ASSUME PagesInv, NEW told \in Nat, Pages!Mount(told), told <= Len(texts),
           told = saved', UNCHANGED <<texts, copy, loaded, reordered, undone>>,
           seen' \in Nat, seen' >= seen,
           save' = save \/ save' = Pages!NoSave
    PROVE  PagesInv'
<1>1. /\ page' = "post" /\ post' = copy /\ get' = Len(texts)
      /\ form' = Pages!NoForm /\ since' = told /\ UNCHANGED overtaken
  BY DEF Pages!Mount
<1>2. VersionsInOrder'
  BY <1>1 DEF PagesInv, VersionsInOrder
<1>3. AnswersAreNew'
  BY <1>1 DEF PagesInv, VersionsInOrder, AnswersAreNew
<1>4. FormsAreNew'
  <2>1. CASE save' = save
    BY <1>1, <2>1 DEF PagesInv, FormsAreNew
  <2>2. CASE save' = Pages!NoSave
    BY <1>1, <2>2 DEF PagesInv, FormsAreNew
  <2> QED
    BY <2>1, <2>2
<1> QED
  BY <1>1, <1>2, <1>3, <1>4 DEF PagesInv, SeenIsKept, Pages!SeenIsKept

\* Every step keeps the invariant.
LEMMA PagesNext == PagesInv /\ [Pages!Next]_(Pages!vars) => PagesInv'
<1> SUFFICES ASSUME PagesInv, [Pages!Next]_(Pages!vars)
             PROVE  PagesInv'
  OBVIOUS
<1> USE DEF PagesInv, SeenIsKept, Pages!SeenIsKept
<1>1. ASSUME NEW F \in SUBSET Fields, Pages!OthersEdit(F) PROVE PagesInv'
  <2>1. Len(texts') >= Len(texts) /\ Len(texts') \in Nat
    BY <1>1 DEF Pages!OthersEdit, VersionsInOrder
  <2> QED
    BY <1>1, <2>1
       DEF Pages!OthersEdit, VersionsInOrder, AnswersAreNew, FormsAreNew
<1>2. CASE Pages!ServeSave
  <2>1. Len(texts') = Len(texts) + 1
    BY <1>2 DEF Pages!ServeSave, VersionsInOrder
  <2>2. save'.form = save.form /\ save'.reply = Len(texts) + 1
    BY <1>2 DEF Pages!ServeSave
  <2>3. SeenIsKept'
    BY <1>2 DEF Pages!ServeSave, FormsAreNew
  <2> QED
    BY <1>2, <2>1, <2>2, <2>3
       DEF Pages!ServeSave, VersionsInOrder, AnswersAreNew, FormsAreNew
<1>3. ASSUME NEW v \in 1..Len(texts), Pages!ReceiveLoad(v) PROVE PagesInv'
  <2>1. v \in Nat /\ copy' = v
    BY <1>3 DEF Pages!ReceiveLoad, VersionsInOrder
  <2>2. ~reordered' => ~(v < loaded)
    BY <1>3 DEF Pages!ReceiveLoad
  <2>3. /\ loaded' \in Nat /\ seen' \in Nat /\ loaded' <= seen'
        /\ ~reordered' => loaded' = v
    BY <1>3, <2>1, <2>2 DEF Pages!ReceiveLoad, FormsAreNew
  <2>4. UNCHANGED <<texts, page, post, get, form, since, overtaken, save, saved,
                    undone>>
    BY <1>3 DEF Pages!ReceiveLoad
  <2>5. ~reordered' => ~reordered
    BY <1>3 DEF Pages!ReceiveLoad
  <2>6. FormsAreNew'
    BY <2>1, <2>3, <2>4, <2>5 DEF FormsAreNew
  <2> QED
    BY <2>4, <2>5, <2>6 DEF VersionsInOrder, AnswersAreNew
<1>4. CASE Pages!GoToFeed
  BY <1>4 DEF Pages!GoToFeed, VersionsInOrder, AnswersAreNew, FormsAreNew
<1>5. CASE Pages!OpenPost
  BY <1>5, MountPreserves DEF Pages!OpenPost, VersionsInOrder, FormsAreNew
<1>6. CASE Pages!ReceiveGet
  BY <1>6 DEF Pages!ReceiveGet, VersionsInOrder, AnswersAreNew, FormsAreNew
<1>7. CASE Pages!OpenEdit
  <2>1. /\ form' = [base |-> copy, touched |-> {}, seen |-> seen]
        /\ page' = "edit"
        /\ UNCHANGED <<texts, copy, loaded, reordered, save, saved, seen, undone>>
    BY <1>7 DEF Pages!OpenEdit
  <2>2. ~overtaken' => ~overtaken /\ ~(seen > loaded)
    BY <1>7 DEF Pages!OpenEdit
  <2>3. ~overtaken' => seen = loaded
    BY <2>2 DEF FormsAreNew
  <2>4. FormsAreNew'
    BY <2>1, <2>2, <2>3 DEF FormsAreNew
  <2>5. SeenIsKept'
    BY <2>1, <2>2
  <2> QED
    BY <1>7, <2>1, <2>4, <2>5 DEF Pages!OpenEdit, VersionsInOrder, AnswersAreNew
<1>8. ASSUME NEW f \in Fields, Pages!Type(f) PROVE PagesInv'
  BY <1>8 DEF Pages!Type, VersionsInOrder, AnswersAreNew, FormsAreNew
<1>9. CASE Pages!Submit
  BY <1>9 DEF Pages!Submit, VersionsInOrder, AnswersAreNew, FormsAreNew
<1>10. CASE Pages!ReceiveSave
  <2>1. CASE page = "post"
    BY <1>10, <2>1
       DEF Pages!ReceiveSave, VersionsInOrder, AnswersAreNew, FormsAreNew
  <2>2. CASE page # "post"
    <3>1. saved' \in Nat /\ saved' <= Len(texts) /\ save' = Pages!NoSave
      BY <1>10 DEF Pages!ReceiveSave, VersionsInOrder
    <3>2. seen' \in Nat /\ seen' >= seen
      BY <1>10, <3>1 DEF Pages!ReceiveSave, FormsAreNew
    <3> QED
      BY <1>10, <2>2, <3>1, <3>2, MountPreserves DEF Pages!ReceiveSave
  <2> QED
    BY <2>1, <2>2
<1>11. CASE Pages!SaveFails
  BY <1>11 DEF Pages!SaveFails, VersionsInOrder, AnswersAreNew, FormsAreNew
<1>12. CASE UNCHANGED Pages!vars
  BY <1>12 DEF Pages!vars, VersionsInOrder, AnswersAreNew, FormsAreNew
<1> QED
  BY <1>1, <1>2, <1>3, <1>4, <1>5, <1>6, <1>7, <1>8, <1>9, <1>10, <1>11, <1>12
     DEF Pages!Next

\* The invariant holds in every reachable state.
THEOREM PagesInvariance == Pages!Spec => []PagesInv
  BY PagesInit, PagesNext, PTL DEF Pages!Spec

-----------------------------------------------------------------------------
(***************************************************************************)
(* Searching and paging.                                                   *)
(***************************************************************************)
SearchTypes ==
    /\ asked \in Search!Asks /\ reload \in Search!Asks \cup {Search!None}
    /\ request \in [Loads -> Search!Asks \cup {Search!None}]

\* What is shown, or the only request that is under way, is what was asked for.
AskedOrShown ==
    ~mixed => \/ Search!Flying = {} /\ shown = asked
              \/ \E l \in Loads : Search!Flying = {l} /\ request[l] = asked

\* There is a page, and no mixed request unless the first page shows nothing.
StraysAreMixed ==
    ~strayed => ~mixed \/ (Search!Flying = {} /\ shown = Search!None)

SearchInv == SearchTypes /\ AskedOrShown /\ StraysAreMixed /\ WithinPages

\* What the constants are taken to be.
LEMMA SearchConstants ==
    /\ PageSize \in Nat /\ \A q \in Search!Queries : Total[q] \in Nat
    /\ MaxPage \in Nat
  BY ClientAssumption DEF Search!Parameters

\* No request asks for nothing.
LEMMA NoneIsNoAsk == Search!None \notin Search!Asks
<1>1. DOMAIN Search!None = {"query"}
  BY DEF Search!None
<1>2. \A a \in Search!Asks : DOMAIN a = {"query", "page"}
  BY DEF Search!Asks
<1> QED
  BY <1>1, <1>2

\* A page that is full is followed by one that starts within the posts.
LEMMA FullPageHasNext ==
    ASSUME NEW what \in Search!Asks, Search!Rows(what) = PageSize
    PROVE  (what.page + 1) * PageSize <= Total[what.query]
<1> DEFINE start == what.page * PageSize
           total == Total[what.query]
<1>1. what.page \in Nat /\ start \in Nat /\ total \in Nat
  BY SearchConstants DEF Search!Asks
<1>2. (what.page + 1) * PageSize = start + PageSize
  BY <1>1, SearchConstants
<1>3. Search!Rows(what) = IF total - start < 0 THEN 0
                          ELSE IF total - start > PageSize THEN PageSize
                          ELSE total - start
  BY DEF Search!Rows
<1>4. PageSize # 0
  BY ClientAssumption DEF Search!Parameters
<1>5. start + PageSize <= total
  <2> HIDE DEF start, total
  <2> QED
    BY <1>1, <1>3, <1>4, SearchConstants
<1> QED
  BY <1>2, <1>5

\* The page before one that starts within the posts does so, too.
LEMMA PreviousIsWithin ==
    ASSUME NEW page0 \in Nat, NEW total \in Nat, page0 > 0,
           page0 * PageSize <= total
    PROVE  (page0 - 1) * PageSize <= total
<1>1. (page0 - 1) * PageSize = page0 * PageSize - PageSize
  BY SearchConstants
<1>2. page0 * PageSize \in Nat
  BY SearchConstants
<1> QED
  BY <1>1, <1>2, SearchConstants

\* Initially there was no request.
LEMMA SearchInit == Search!Init => SearchInv
<1> SUFFICES ASSUME Search!Init PROVE SearchInv
  OBVIOUS
<1>1. SearchTypes
  BY SearchConstants DEF Search!Init, SearchTypes, Search!Asks
<1>2. asked.page * PageSize = 0 /\ Total[asked.query] \in Nat
  BY SearchConstants DEF Search!Init
<1> QED
  BY <1>1, <1>2 DEF Search!Init, SearchInv, AskedOrShown, StraysAreMixed,
     Search!Flying, WithinPages, Search!WithinPages

\* A request that does not mix is the only one.
LEMMA LoadFeedPreserves ==
    ASSUME SearchTypes, NEW what \in Search!Asks, NEW stale,
           Search!LoadFeed(what, stale)
    PROVE  /\ request' \in [Loads -> Search!Asks \cup {Search!None}]
           /\ ~mixed' => /\ Search!Flying = {} /\ ~stale
                         /\ \E l \in Loads : /\ Search!Flying' = {l}
                                             /\ request'[l] = what
           /\ ~strayed' => ~mixed' /\ (~strayed \/ what.page = 0)
<1>1. PICK l \in Loads \ Search!Flying :
          request' = [request EXCEPT ![l] = what]
  BY DEF Search!LoadFeed
<1>2. request' \in [Loads -> Search!Asks \cup {Search!None}]
  BY <1>1 DEF SearchTypes
<1>3. ~mixed' => Search!Flying = {} /\ ~stale
  BY DEF Search!LoadFeed
<1>4. Search!Flying = {} => Search!Flying' = {l} /\ request'[l] = what
  BY <1>1, NoneIsNoAsk DEF Search!Flying, SearchTypes
<1>5. ~strayed' => ~mixed' /\ (~strayed \/ ~(what.page > 0))
  BY DEF Search!LoadFeed
<1>6. what.page \in Nat
  BY SearchConstants DEF Search!Asks
<1> QED
  BY <1>1, <1>2, <1>3, <1>4, <1>5, <1>6

\* Every step keeps the invariant.
LEMMA SearchNext == SearchInv /\ [Search!Next]_(Search!vars) => SearchInv'
<1> SUFFICES ASSUME SearchInv, [Search!Next]_(Search!vars)
             PROVE  SearchInv'
  OBVIOUS
<1> USE DEF SearchInv, WithinPages, Search!WithinPages
<1>0. asked.page \in Nat /\ asked.query \in Search!Queries
  BY SearchConstants DEF SearchTypes, Search!Asks
<1>1. ASSUME NEW what \in Search!Asks, NEW stale, Search!LoadFeed(what, stale),
             asked' \in Search!Asks, ~stale => what = asked',
             reload' \in {reload, Search!None},
             ~strayed' => asked'.page * PageSize <= Total[asked'.query]
      PROVE  SearchInv'
  <2>1. SearchTypes'
    BY <1>1, LoadFeedPreserves DEF SearchTypes
  <2>2. AskedOrShown'
    BY <1>1, LoadFeedPreserves DEF AskedOrShown
  <2> QED
    BY <1>1, <2>1, <2>2, LoadFeedPreserves DEF StraysAreMixed
<1>2. ASSUME NEW q \in Search!Queries, Search!Search(q) PROVE SearchInv'
  <2>1. asked' = [query |-> q, page |-> 0] /\ asked' \in Search!Asks
    BY <1>2, SearchConstants DEF Search!Search, Search!Asks
  <2>2. asked'.page * PageSize <= Total[asked'.query]
    BY <2>1, SearchConstants
  <2>3. Search!LoadFeed(asked', FALSE) /\ reload' = reload
    BY <1>2 DEF Search!Search
  <2> QED
    BY <1>1, <2>1, <2>2, <2>3
<1>3. CASE Search!Refresh
  <2>1. ~strayed' => ~strayed \/ asked.page = 0
    BY <1>3, LoadFeedPreserves DEF Search!Refresh, SearchTypes
  <2>2. ~strayed' => asked'.page * PageSize <= Total[asked'.query]
    BY <1>3, <2>1, <1>0, SearchConstants DEF Search!Refresh
  <2> QED
    BY <1>1, <1>3, <2>2 DEF Search!Refresh, SearchTypes
<1>4. CASE Search!GoToNextPage
  <2>1. /\ asked' = [asked EXCEPT !.page = asked.page + 1]
        /\ Search!LoadFeed(asked', FALSE) /\ reload' = reload
    BY <1>4 DEF Search!GoToNextPage, Search!GoTo
  <2>2. /\ asked' \in Search!Asks /\ asked'.page = asked.page + 1
        /\ asked'.query = asked.query
    BY <1>4, <2>1, <1>0, SearchConstants
       DEF Search!GoToNextPage, SearchTypes, Search!Asks
  <2>3. ~strayed' => Search!Flying = {} /\ (~strayed \/ asked'.page = 0)
    BY <2>1, <2>2, LoadFeedPreserves
  <2>4. ~strayed' => Search!Flying = {} /\ ~strayed
    BY <2>2, <2>3, <1>0
  <2>5. shown # Search!None /\ Search!Rows(shown) = PageSize
    BY <1>4 DEF Search!GoToNextPage, Search!FullPage
  <2>6. ~strayed' => shown = asked
    BY <2>4, <2>5 DEF StraysAreMixed, AskedOrShown
  <2>7. ~strayed' => asked'.page * PageSize <= Total[asked'.query]
    BY <2>2, <2>5, <2>6, FullPageHasNext DEF SearchTypes
  <2> QED
    BY <1>1, <2>1, <2>2, <2>7
<1>5. CASE Search!GoToPreviousPage
  <2>1. /\ asked' = [asked EXCEPT !.page = asked.page - 1] /\ asked.page > 0
        /\ Search!LoadFeed(asked', FALSE) /\ reload' = reload
    BY <1>5 DEF Search!GoToPreviousPage, Search!GoTo
  <2>2. /\ asked' \in Search!Asks /\ asked'.page = asked.page - 1
        /\ asked'.query = asked.query
    BY <2>1, <1>0, SearchConstants DEF SearchTypes, Search!Asks
  <2>3. ~strayed' => ~strayed \/ asked'.page = 0
    BY <2>1, <2>2, LoadFeedPreserves
  <2>4. ~strayed' => asked'.page * PageSize <= Total[asked'.query]
    BY <2>1, <2>2, <2>3, <1>0, PreviousIsWithin, SearchConstants
  <2> QED
    BY <1>1, <2>1, <2>2, <2>4
<1>6. ASSUME NEW l \in Loads, Search!ReceiveLoad(l) PROVE SearchInv'
  <2>1. /\ shown' = request[l] /\ request' = [request EXCEPT ![l] = Search!None]
        /\ l \in Search!Flying /\ UNCHANGED <<asked, reload, mixed, strayed>>
    BY <1>6 DEF Search!ReceiveLoad
  <2>2. Search!Flying' = Search!Flying \ {l} /\ SearchTypes'
    BY <2>1 DEF SearchTypes, Search!Flying
  <2> QED
    BY <2>1, <2>2 DEF AskedOrShown, StraysAreMixed
<1>7. ASSUME NEW l \in Loads, Search!LoadFails(l) PROVE SearchInv'
  BY <1>7 DEF Search!LoadFails, SearchTypes, AskedOrShown, StraysAreMixed
<1>8. CASE Search!ToggleFollow
  BY <1>8 DEF Search!ToggleFollow, SearchTypes, AskedOrShown, StraysAreMixed,
              Search!Flying
<1>9. CASE Search!Followed
  <2>1. /\ reload \in Search!Asks /\ reload' = Search!None /\ asked' = asked
        /\ Search!LoadFeed(reload, reload # asked)
    BY <1>9 DEF Search!Followed, SearchTypes
  <2>2. ~strayed' => reload = asked /\ (~strayed \/ asked.page = 0)
    BY <2>1, LoadFeedPreserves
  <2>3. ~strayed' => asked'.page * PageSize <= Total[asked'.query]
    BY <2>1, <2>2, <1>0, SearchConstants
  <2> QED
    BY <1>1, <2>1, <2>3 DEF SearchTypes
<1>10. CASE Search!FollowFails
  BY <1>10 DEF Search!FollowFails, SearchTypes, AskedOrShown, StraysAreMixed,
               Search!Flying
<1>11. CASE UNCHANGED Search!vars
  BY <1>11 DEF Search!vars, SearchTypes, AskedOrShown, StraysAreMixed,
               Search!Flying
<1> QED
  BY <1>2, <1>3, <1>4, <1>5, <1>6, <1>7, <1>8, <1>9, <1>10, <1>11
     DEF Search!Next

\* The invariant holds in every reachable state.
THEOREM SearchInvariance == Search!Spec => []SearchInv
  BY SearchInit, SearchNext, PTL DEF Search!Spec

-----------------------------------------------------------------------------
(***************************************************************************)
(* The lists of posts, of followed users, and of likes.                    *)
(***************************************************************************)
DeleteTypes ==
    drawn \in 0..MaxPosts /\ delete \in [PostIds -> DeleteRequests \cup {Idle}]

\* No step keeps, or brings back, a post that is not counted as late.
LEMMA DeletedNext ==
    DeleteTypes /\ DeletedStaysAway /\ [Next]_vars => DeletedStaysAway'
<1> SUFFICES ASSUME DeleteTypes, DeletedStaysAway, [Next]_vars
             PROVE  DeletedStaysAway'
  OBVIOUS
<1> USE DEF DeletedStaysAway, Kept, server, storage, feedPage
<1>1. CASE Open
  BY <1>1 DEF Open, Navigate, LoadFeed
<1>2. CASE Leave
  BY <1>2 DEF Leave
<1>3. ASSUME NEW l \in Loads, Refresh(l) PROVE DeletedStaysAway'
  BY <1>3 DEF Refresh, LoadFeed
<1>4. ASSUME NEW l \in Loads, ReceiveLoad(l) PROVE DeletedStaysAway'
  <2>1. posts' \subseteq posts \cup load[l].rows
    BY <1>4 DEF ReceiveLoad
  <2> QED
    BY <1>4, <2>1 DEF ReceiveLoad
<1>5. ASSUME NEW p \in 1..drawn, ReceiveDelete(p) PROVE DeletedStaysAway'
  <2>1. /\ localPosts' = localPosts \ {p} /\ feedCache' = feedCache \ {p}
        /\ acked' = acked \cup {p}
        /\ late' = late \cup ({p} \cap (posts' \cup local'))
    BY <1>5 DEF ReceiveDelete, Purge
  <2>2. delete[p].from \in {"feed", "post", "gone"}
    BY <1>5, FeedClientAssumption
       DEF DeleteTypes, DeleteRequests, PostIds, ReceiveDelete
  <2>3. posts' \subseteq posts /\ local' \subseteq local \cup localPosts'
    BY <1>5, <2>2 DEF ReceiveDelete, Navigate, LoadFeed
  <2> QED
    BY <2>1, <2>3
<1>6. CASE ReceiveCreate
  <2>1. local' \in {local, localPosts'}
    BY <1>6 DEF ReceiveCreate, Navigate, LoadFeed
  <2> QED
    BY <1>6, <2>1 DEF ReceiveCreate
<1>7. CASE OthersPost \/ ServeCreate \/ SubmitPost \/ CreateFails
  BY <1>7 DEF OthersPost, ServeCreate, SubmitPost, CreateFails
<1>8. ASSUME NEW l \in Loads, ServeLoad(l) \/ LoadFails(l)
      PROVE  DeletedStaysAway'
  BY <1>8 DEF ServeLoad, LoadFails
<1>9. ASSUME NEW p \in 1..drawn,
             \/ OthersDelete(p) \/ ServeDelete(p) \/ ClickDelete(p)
             \/ DeleteFails(p)
      PROVE  DeletedStaysAway'
  BY <1>9 DEF OthersDelete, ServeDelete, ClickDelete, DeleteFails
<1>10. CASE UNCHANGED vars
  BY <1>10 DEF vars
<1> QED
  BY <1>1, <1>2, <1>3, <1>4, <1>5, <1>6, <1>7, <1>8, <1>9, <1>10 DEF Next

\* The user follows those in the list S and those of earlier sessions.
FollowsBeside(S) == S \cap before = {} /\ following = S \cup before

\* A request that is under way alone knows the list it will change.
Pending(r) ==
    /\ r.for = "page" /\ stored = r.base /\ followingIDs = r.base
    /\ r.follow <=> r.of \notin r.base
    /\ r.at \in {"sent", "refused"} => FollowsBeside(r.base)
    /\ r.at = "ok" => FollowsBeside(Follow!Changed(r))

FollowInv ==
    /\ stored \in SUBSET Authors /\ followingIDs \in SUBSET Authors
    /\ toggle \in [Toggles -> Follow!InFlight \cup {Follow!Idle}]
    /\ ~tainted =>
           \/ /\ Follow!Flying = {}
              /\ followingIDs = stored /\ FollowsBeside(stored)
           \/ \E t \in Toggles : Follow!Flying = {t} /\ Pending(toggle[t])

\* Initially all lists are empty.
LEMMA FollowInit == Follow!Init => FollowInv
  BY DEF Follow!Init, FollowInv, Follow!Flying, FollowsBeside

\* A request that ends leaves no other behind, if there was none.
LEMMA FollowEnds ==
    ASSUME FollowInv, NEW t \in Toggles, t \in Follow!Flying,
           toggle' = [toggle EXCEPT ![t] = Follow!Idle]
    PROVE  /\ toggle' \in [Toggles -> Follow!InFlight \cup {Follow!Idle}]
           /\ ~tainted => Follow!Flying' = {} /\ Pending(toggle[t])
<1>1. toggle' \in [Toggles -> Follow!InFlight \cup {Follow!Idle}]
  BY DEF FollowInv
<1>2. Follow!Flying' = Follow!Flying \ {t}
  BY DEF Follow!Flying, FollowInv
<1>3. ~tainted => Follow!Flying = {t} /\ Pending(toggle[t])
  BY DEF FollowInv
<1> QED
  BY <1>1, <1>2, <1>3

\* A request that is served stays the only one, and so do the others.
LEMMA FollowServed ==
    ASSUME FollowInv, NEW t \in Toggles, toggle[t].at = "sent",
           NEW at \in {"ok", "refused"}, Follow!Answered(t, at)
    PROVE  /\ toggle' \in [Toggles -> Follow!InFlight \cup {Follow!Idle}]
           /\ toggle'[t] = [toggle[t] EXCEPT !.at = at]
           /\ toggle[t] \in Follow!InFlight
           /\ ~tainted => Follow!Flying' = {t} /\ Pending(toggle[t])
<1>1. toggle[t] # Follow!Idle /\ toggle[t] \in Follow!InFlight
  BY DEF FollowInv, Follow!Idle
<1>2. /\ toggle'[t] = [toggle[t] EXCEPT !.at = at]
      /\ toggle'[t] \in Follow!InFlight
      /\ \A s \in Toggles \ {t} : toggle'[s] = toggle[s]
      /\ toggle' \in [Toggles -> Follow!InFlight \cup {Follow!Idle}]
  BY <1>1 DEF FollowInv, Follow!Answered, Follow!InFlight
<1>3. toggle'[t] # Follow!Idle
  BY <1>2 DEF Follow!InFlight, Follow!Idle
<1>4. Follow!Flying' = Follow!Flying
  BY <1>1, <1>2, <1>3 DEF Follow!Flying
<1>5. ~tainted => Follow!Flying = {t} /\ Pending(toggle[t])
  BY <1>1 DEF FollowInv, Follow!Flying
<1> QED
  BY <1>1, <1>2, <1>4, <1>5

\* Every step keeps the invariant.
LEMMA FollowNext == FollowInv /\ [Follow!Next]_(Follow!vars) => FollowInv'
<1> SUFFICES ASSUME FollowInv, [Follow!Next]_(Follow!vars)
             PROVE  FollowInv'
  OBVIOUS
<1> USE DEF FollowInv
<1>1. ASSUME NEW t \in Toggles, NEW v \in Authors, Follow!Click(t, v)
      PROVE  FollowInv'
  <2>1. /\ toggle' = [toggle EXCEPT ![t] =
               [at |-> "sent", of |-> v, follow |-> v \notin followingIDs,
                base |-> followingIDs, for |-> "page"]]
        /\ UNCHANGED <<following, stored, followingIDs, before>>
    BY <1>1 DEF Follow!Click
  <2>2. ~tainted' => ~tainted /\ Follow!Flying = {}
    BY <1>1 DEF Follow!Click
  <2>3. toggle'[t] # Follow!Idle
    BY <2>1 DEF Follow!Idle
  <2>4. Follow!Flying = {} => Follow!Flying' = {t}
    BY <2>1, <2>3 DEF Follow!Flying
  <2>5. ~tainted' => Pending(toggle[t])'
    BY <2>1, <2>2 DEF Pending, FollowsBeside
  <2>6. toggle' \in [Toggles -> Follow!InFlight \cup {Follow!Idle}]
    BY <2>1 DEF Follow!InFlight
  <2> QED
    BY <2>1, <2>2, <2>4, <2>5, <2>6
<1>2. ASSUME NEW t \in Toggles, Follow!Serve(t) PROVE FollowInv'
  <2> DEFINE r == toggle[t]
  <2>1. PICK at \in {"ok", "refused"} : Follow!Answered(t, at)
    BY <1>2 DEF Follow!Serve
  <2>2. r.at = "sent" /\ UNCHANGED <<stored, followingIDs, before, tainted>>
    BY <1>2 DEF Follow!Serve
  <2>3. ~tainted => Pending(r) /\ r \in Follow!InFlight
    BY <2>1, <2>2, FollowServed
  <2>4. toggle'[t] = [r EXCEPT !.at = at] /\ r \in Follow!InFlight
    BY <2>1, <2>2, FollowServed
  <2>5. ~tainted => \/ at = "ok" /\ FollowsBeside(Follow!Changed(r))'
                    \/ at = "refused" /\ following' = following
    <3>1. \/ at = "refused" /\ following' = following
          \/ /\ at = "ok" /\ r.follow /\ r.of \notin following
             /\ following' = following \cup {r.of}
          \/ at = "ok" /\ ~r.follow /\ following' = following \ {r.of}
      BY <1>2, <2>1, <2>2, <2>4 DEF Follow!Serve, Follow!Answered,
         Follow!InFlight
    <3>2. toggle'[t].follow = r.follow /\ toggle'[t].of = r.of
          /\ toggle'[t].base = r.base
      BY <2>4 DEF Follow!InFlight
    <3> QED
      BY <2>2, <2>3, <3>1, <3>2 DEF FollowsBeside, Follow!Changed, Pending
  <2>6. ~tainted' => Pending(toggle[t])'
    BY <2>2, <2>3, <2>4, <2>5
       DEF Pending, Follow!InFlight, Follow!Changed, FollowsBeside
  <2> QED
    BY <2>1, <2>2, <2>6, FollowServed
<1>3. ASSUME NEW t \in Toggles, Follow!ServeFails(t) PROVE FollowInv'
  <2> DEFINE r == toggle[t]
  <2>1. r.at = "sent" /\ UNCHANGED <<following, stored, followingIDs, before>>
    BY <1>3 DEF Follow!ServeFails
  <2>2. CASE Follow!Answered(t, "refused") /\ UNCHANGED tainted
    <3>1. toggle'[t] = [r EXCEPT !.at = "refused"] /\ r \in Follow!InFlight
      BY <2>1, <2>2, FollowServed
    <3>2. ~tainted => Pending(r)
      BY <2>1, <2>2, FollowServed
    <3>3. ~tainted' => Pending(toggle[t])'
      BY <2>1, <2>2, <3>1, <3>2 DEF Pending, Follow!InFlight, FollowsBeside
    <3> QED
      BY <2>1, <2>2, <3>3, FollowServed
  <2>3. CASE Follow!Answered(t, "ok") /\ tainted'
    BY <2>1, <2>3, FollowServed
  <2> QED
    BY <1>3, <2>2, <2>3 DEF Follow!ServeFails
<1>4. ASSUME NEW t \in Toggles, Follow!AnswerLost(t) PROVE FollowInv'
  <2>1. /\ t \in Follow!Flying
        /\ UNCHANGED <<following, stored, followingIDs, before>>
        /\ toggle' = [toggle EXCEPT ![t] = Follow!Idle]
        /\ ~tainted' => ~tainted /\ toggle[t].at # "ok"
    BY <1>4 DEF Follow!AnswerLost
  <2>2. toggle[t] \in Follow!InFlight
    BY <2>1 DEF Follow!Flying
  <2>3. ~tainted' => Follow!Flying' = {} /\ Pending(toggle[t])
    BY <2>1, FollowEnds
  <2>4. ~tainted' => followingIDs = stored /\ FollowsBeside(stored)
    BY <2>1, <2>2, <2>3 DEF Pending, Follow!InFlight
  <2> QED
    BY <2>1, <2>3, <2>4, FollowEnds DEF FollowsBeside
<1>5. ASSUME NEW t \in Toggles, Follow!Receive(t) PROVE FollowInv'
  <2> DEFINE r == toggle[t]
  <2>1. /\ r.at \in {"ok", "refused"}
        /\ UNCHANGED <<following, before, tainted>>
        /\ toggle' = [toggle EXCEPT ![t] = Follow!Idle]
    BY <1>5 DEF Follow!Receive
  <2>2. t \in Follow!Flying /\ r \in Follow!InFlight
    BY <2>1 DEF Follow!Flying, Follow!Idle
  <2>3. ~tainted' => Follow!Flying' = {} /\ Pending(r)
    BY <2>1, <2>2, FollowEnds
  <2>4. Follow!Changed(r) \in SUBSET Authors
    BY <2>2 DEF Follow!Changed, Follow!InFlight
  <2>5. stored' \in SUBSET Authors /\ followingIDs' \in SUBSET Authors
    BY <1>5, <2>4 DEF Follow!Receive
  <2>6. ~tainted' => followingIDs' = stored' /\ FollowsBeside(stored)'
    BY <1>5, <2>1, <2>3
       DEF Follow!Receive, Follow!Succeeds, Pending, FollowsBeside
  <2> QED
    BY <2>1, <2>2, <2>3, <2>5, <2>6, FollowEnds
<1>6. CASE Follow!LoadFeed
  BY <1>6 DEF Follow!LoadFeed, Follow!Flying, Pending, FollowsBeside
<1>7. ASSUME NEW for \in {"session", "past"}, Follow!Abandon(for)
      PROVE  /\ toggle' \in [Toggles -> Follow!InFlight \cup {Follow!Idle}]
             /\ Follow!Flying = {} => Follow!Flying' = {}
  <2>1. ASSUME NEW t \in Follow!Flying
        PROVE  [toggle[t] EXCEPT !.for = for] \in Follow!InFlight
    <3>1. toggle[t] \in Follow!InFlight
      BY DEF Follow!Flying
    <3> QED
      BY <3>1 DEF Follow!InFlight
  <2> QED
    BY <1>7, <2>1 DEF Follow!Flying, Follow!Abandon
<1>8. CASE Follow!Remount
  <2>1. UNCHANGED <<following, stored, before>> /\ followingIDs' = stored
    BY <1>8 DEF Follow!Remount
  <2>2. ~tainted' => ~tainted /\ Follow!Flying = {}
    BY <1>8 DEF Follow!Remount
  <2> QED
    BY <1>7, <1>8, <2>1, <2>2 DEF Follow!Remount, FollowsBeside
<1>9. CASE Follow!Login
  <2>1. FollowsBeside(stored)' /\ followingIDs' = {} /\ stored' = {}
    BY <1>9 DEF Follow!Login, FollowsBeside
  <2> QED
    BY <1>7, <1>9, <2>1 DEF Follow!Login
<1>10. CASE UNCHANGED Follow!vars
  BY <1>10 DEF Follow!vars, Follow!Flying, Pending, FollowsBeside
<1> QED
  BY <1>1, <1>2, <1>3, <1>4, <1>5, <1>6, <1>8, <1>9, <1>10 DEF Follow!Next

\* A list of likes and a map of counts that tell the same.
InStep(S, count) ==
    count \in [Items -> 0..1] /\ \A i \in Items : count[i] = 1 <=> i \in S

LikeInv ==
    /\ InStep(liked, counts)
    /\ item \in [Buttons -> Items \cup {NoItem}]
    /\ likedPosts \in [Buttons -> SUBSET Items]
    /\ likeCounts \in [Buttons -> [Items -> 0..1]]
    /\ liked \in SUBSET Items
    /\ \A b \in Buttons : InStep(likedPosts[b], likeCounts[b])

\* Every step keeps all copies in step: each writes both entries from one pair.
LEMMA LikeNext == LikeInv /\ [Like!Next]_(Like!vars) => LikeInv'
<1> SUFFICES ASSUME LikeInv, [Like!Next]_(Like!vars)
             PROVE  LikeInv'
  OBVIOUS
<1> USE DEF LikeInv, InStep
<1>1. ASSUME NEW b \in Buttons, NEW i \in Items, Like!Mount(b, i)
      PROVE  LikeInv'
  BY <1>1 DEF Like!Mount
<1>2. ASSUME NEW b \in Buttons, Like!Unmount(b) PROVE LikeInv'
  BY <1>2 DEF Like!Unmount
<1>3. ASSUME NEW b \in Buttons, Like!ToggleLike(b) PROVE LikeInv'
  <2> DEFINE i == item[b]
  <2>1. i \in Items
    BY <1>3 DEF Like!ToggleLike
  <2>2. Like!NextCounts(b) =
            [likeCounts[b] EXCEPT ![i] = IF i \in likedPosts[b] THEN 0 ELSE 1]
    <3>1. likeCounts[b][i] = IF i \in likedPosts[b] THEN 1 ELSE 0
      BY <2>1
    <3> DEFINE n == likeCounts[b][i]
                        + (IF i \in likedPosts[b] THEN -1 ELSE 1)
    <3>2. (IF n > 0 THEN n ELSE 0) = IF i \in likedPosts[b] THEN 0 ELSE 1
      BY <3>1
    <3>3. Like!NextCounts(b) =
              [likeCounts[b] EXCEPT ![i] = IF n > 0 THEN n ELSE 0]
      BY DEF Like!NextCounts
    <3> HIDE DEF n
    <3> QED
      BY <3>2, <3>3
  <2>3. InStep(Like!Flipped(likedPosts[b], i), Like!NextCounts(b))
    BY <2>1, <2>2 DEF Like!Flipped
  <2>4. Like!Flipped(likedPosts[b], i) \in SUBSET Items
    BY <2>1 DEF Like!Flipped
  <2> QED
    BY <1>3, <2>3, <2>4 DEF Like!ToggleLike
<1>4. CASE UNCHANGED Like!vars
  BY <1>4 DEF Like!vars
<1> QED
  BY <1>1, <1>2, <1>3, <1>4 DEF Like!Next

-----------------------------------------------------------------------------
(***************************************************************************)
(* The comments of a post.                                                 *)
(***************************************************************************)
DetailTypes ==
    /\ remarks \in [Items -> SUBSET (1..drawnRemarks)]
    /\ drawnRemarks \in 0..MaxComments
    /\ address \in [Windows -> Items \cup {NoItem}]
    /\ detail \in [Windows -> Items \cup {NoItem}]
    /\ localComments \in [Windows -> SUBSET (1..drawnRemarks)]
    /\ fetch \in [Loads -> [win : Windows, post : Items] \cup {Detail!Idle}]
    /\ crossed \subseteq Windows /\ moved \subseteq Windows

\* Only a page that is there has requests under way.
RequestsAreOfPages == \A w \in Windows : Detail!Of(w) # {} => address[w] # NoItem

\* The only request under way is for the post of the address.
RequestsAreOfAddress ==
    \A w \in Windows \ crossed, l \in Loads :
        l \in Detail!Of(w)
            => Detail!Of(w) = {l} /\ fetch[l].post = address[w]

\* What a page that did not move shows, and may yet show, is of one post, the
\* one its comments are of.
PageIsOfOnePost ==
    \A w \in Windows \ moved, l \in Loads :
        l \in Detail!Of(w) => /\ detail[w] \in {NoItem, address[w]}
                              /\ fetch[l].post = address[w]
                              /\ localComments[w] \subseteq remarks[address[w]]

DetailInv ==
    /\ DetailTypes /\ RequestsAreOfPages /\ RequestsAreOfAddress
    /\ PageIsOfOnePost /\ DetailIsOfAddress /\ CommentsOfPost

USE DEF Detail!Idle, Detail!Comments

\* What the constants are taken to be.
LEMMA DetailConstants == NoItem \notin Items /\ MaxComments \in Nat
  BY ClientAssumption DEF Detail!Parameters

\* A request that is under way is one of a window, for a post.
LEMMA FetchRanges ==
    ASSUME DetailTypes, NEW l \in Loads, fetch[l] # Detail!Idle
    PROVE  /\ fetch[l].win \in Windows /\ fetch[l].post \in Items
           /\ l \in Detail!Of(fetch[l].win)
  BY DEF DetailTypes, Detail!Of

\* A request of a page is under way.
LEMMA FetchOf ==
    ASSUME NEW w, NEW l \in Detail!Of(w)
    PROVE  l \in Loads /\ fetch[l] # Detail!Idle /\ fetch[l].win = w
  BY DEF Detail!Of

\* Initially no page is there.
LEMMA DetailInit == Detail!Init => DetailInv
<1> SUFFICES ASSUME Detail!Init PROVE DetailInv
  OBVIOUS
<1>1. DetailTypes
  BY DetailConstants DEF Detail!Init, DetailTypes
<1>2. \A w \in Windows : Detail!Of(w) = {}
  BY DEF Detail!Init, Detail!Of
<1> QED
  BY <1>1, <1>2
     DEF Detail!Init, DetailInv, RequestsAreOfPages, RequestsAreOfAddress,
         PageIsOfOnePost, DetailIsOfAddress, Detail!DetailIsOfAddress,
         CommentsOfPost, Detail!CommentsOfPost

\* A request adds itself to those of its window, and to no other's.
LEMMA LoadPostAdds ==
    ASSUME DetailTypes, NEW w \in Windows, NEW p \in Items,
           Detail!LoadPost(w, p)
    PROVE  \E l \in Loads :
               /\ fetch[l] = Detail!Idle
               /\ fetch' = [fetch EXCEPT ![l] = [win |-> w, post |-> p]]
               /\ fetch' \in [Loads ->
                      [win : Windows, post : Items] \cup {Detail!Idle}]
               /\ Detail!Of(w)' = Detail!Of(w) \cup {l}
               /\ \A v \in Windows \ {w} : Detail!Of(v)' = Detail!Of(v)
               /\ \A k \in Loads \ {l} : fetch'[k] = fetch[k]
               /\ crossed' = IF Detail!Of(w) # {} THEN crossed \cup {w}
                                                  ELSE crossed \ {w}
<1>1. PICK l \in Loads :
          /\ fetch[l] = Detail!Idle
          /\ fetch' = [fetch EXCEPT ![l] = [win |-> w, post |-> p]]
  BY DEF Detail!LoadPost
<1>2. /\ fetch'[l] = [win |-> w, post |-> p] /\ fetch'[l] # Detail!Idle
      /\ fetch'[l].win = w
      /\ \A k \in Loads \ {l} : fetch'[k] = fetch[k]
  <2>1. fetch'[l] = [win |-> w, post |-> p]
    BY <1>1 DEF DetailTypes
  <2>2. [win |-> w, post |-> p] # [post |-> NoItem]
    <3>1. DOMAIN [win |-> w, post |-> p] # DOMAIN [post |-> NoItem]
      OBVIOUS
    <3> QED
      BY <3>1
  <2> QED
    BY <1>1, <2>1, <2>2 DEF DetailTypes
<1>3. Detail!Of(w)' = Detail!Of(w) \cup {l}
  BY <1>1, <1>2 DEF Detail!Of
<1>4. \A v \in Windows \ {w} : Detail!Of(v)' = Detail!Of(v)
  BY <1>1, <1>2 DEF Detail!Of
<1>5. fetch' \in [Loads -> [win : Windows, post : Items] \cup {Detail!Idle}]
  BY <1>1 DEF DetailTypes
<1> QED
  BY <1>1, <1>2, <1>3, <1>4, <1>5 DEF Detail!LoadPost, Detail!Marked

\* Opening a page keeps the invariant.
LEMMA OpenPreserves ==
    ASSUME DetailInv, NEW w \in Windows, NEW p \in Items, Detail!Open(w, p)
    PROVE  DetailInv'
<1> USE DetailConstants DEF DetailInv
<1>1. PICK l \in Loads :
          /\ fetch[l] = Detail!Idle
          /\ fetch' = [fetch EXCEPT ![l] = [win |-> w, post |-> p]]
          /\ fetch' \in [Loads ->
                 [win : Windows, post : Items] \cup {Detail!Idle}]
          /\ Detail!Of(w)' = Detail!Of(w) \cup {l}
          /\ \A v \in Windows \ {w} : Detail!Of(v)' = Detail!Of(v)
          /\ \A k \in Loads \ {l} : fetch'[k] = fetch[k]
          /\ crossed' = IF Detail!Of(w) # {} THEN crossed \cup {w}
                                             ELSE crossed \ {w}
  BY LoadPostAdds DEF Detail!Open
<1>2. fetch'[l].post = p
  BY <1>1 DEF DetailTypes
<1>3. Detail!Of(w) = {} /\ Detail!Of(w)' = {l} /\ crossed' = crossed \ {w}
  BY <1>1 DEF RequestsAreOfPages, Detail!Open
<1>4. PICK cached \in {p, NoItem} :
          /\ detail' = [detail EXCEPT ![w] = cached]
          /\ address' = [address EXCEPT ![w] = p]
          /\ localComments' = [localComments EXCEPT ![w] = remarks[p]]
          /\ UNCHANGED <<remarks, drawnRemarks, moved>>
  BY DEF Detail!Open
<1>5. DetailTypes'
  BY <1>1, <1>3, <1>4 DEF DetailTypes
<1>6. /\ address'[w] = p /\ detail'[w] = cached
      /\ localComments'[w] = remarks[p]
      /\ \A v \in Windows \ {w} :
             /\ address'[v] = address[v] /\ detail'[v] = detail[v]
             /\ localComments'[v] = localComments[v]
  BY <1>4 DEF DetailTypes
<1>7. RequestsAreOfPages'
  BY <1>1, <1>6 DEF RequestsAreOfPages
<1>8. \A v \in Windows \ {w}, k \in Loads :
          k \in Detail!Of(v) => k # l /\ fetch'[k] = fetch[k]
  BY <1>1, FetchOf
<1>9. RequestsAreOfAddress'
  BY <1>1, <1>2, <1>3, <1>6, <1>8 DEF RequestsAreOfAddress
<1>10. PageIsOfOnePost'
  BY <1>1, <1>2, <1>3, <1>4, <1>6, <1>8 DEF PageIsOfOnePost
<1>11. DetailIsOfAddress'
  BY <1>1, <1>3, <1>6 DEF DetailIsOfAddress, Detail!DetailIsOfAddress
<1>12. CommentsOfPost'
  BY <1>4, <1>6 DEF CommentsOfPost, Detail!CommentsOfPost
<1> QED
  BY <1>5, <1>7, <1>9, <1>10, <1>11, <1>12

\* So does a change of its address.
LEMMA MovePreserves ==
    ASSUME DetailInv, NEW w \in Windows, NEW p \in Items, Detail!Move(w, p)
    PROVE  DetailInv'
<1> USE DetailConstants DEF DetailInv
<1>1. PICK l \in Loads :
          /\ fetch[l] = Detail!Idle
          /\ fetch' = [fetch EXCEPT ![l] = [win |-> w, post |-> p]]
          /\ fetch' \in [Loads ->
                 [win : Windows, post : Items] \cup {Detail!Idle}]
          /\ Detail!Of(w)' = Detail!Of(w) \cup {l}
          /\ \A v \in Windows \ {w} : Detail!Of(v)' = Detail!Of(v)
          /\ \A k \in Loads \ {l} : fetch'[k] = fetch[k]
          /\ crossed' = IF Detail!Of(w) # {} THEN crossed \cup {w}
                                             ELSE crossed \ {w}
  BY LoadPostAdds DEF Detail!Move
<1>2. fetch'[l].post = p
  BY <1>1 DEF DetailTypes
<1>3. /\ address' = [address EXCEPT ![w] = p] /\ moved' = moved \cup {w}
      /\ UNCHANGED <<remarks, drawnRemarks, detail, localComments>>
  BY DEF Detail!Move
<1>4. DetailTypes'
  BY <1>1, <1>3 DEF DetailTypes
<1>5. /\ address'[w] = p
      /\ \A v \in Windows \ {w} : address'[v] = address[v]
  BY <1>3 DEF DetailTypes
<1>6. RequestsAreOfPages'
  BY <1>1, <1>5 DEF RequestsAreOfPages
<1>7. \A v \in Windows \ {w}, k \in Loads :
          k \in Detail!Of(v) => k # l /\ fetch'[k] = fetch[k]
  BY <1>1, FetchOf
<1>8. RequestsAreOfAddress'
  BY <1>1, <1>2, <1>5, <1>7 DEF RequestsAreOfAddress
<1>9. PageIsOfOnePost'
  BY <1>1, <1>3, <1>5, <1>7 DEF PageIsOfOnePost
<1>10. DetailIsOfAddress'
  BY <1>1, <1>3, <1>5 DEF DetailIsOfAddress, Detail!DetailIsOfAddress
<1>11. CommentsOfPost'
  BY <1>3 DEF CommentsOfPost, Detail!CommentsOfPost
<1> QED
  BY <1>4, <1>6, <1>8, <1>9, <1>10, <1>11

\* So does a request that ends.
LEMMA FetchEnds ==
    ASSUME DetailInv, NEW l \in Loads, fetch[l] # Detail!Idle,
           fetch' = [fetch EXCEPT ![l] = Detail!Idle],
           Detail!ReceiveLoad(l) \/ Detail!LoadFails(l)
    PROVE  DetailInv'
<1> USE DetailConstants DEF DetailInv
<1> DEFINE w == fetch[l].win
<1>1. w \in Windows /\ fetch[l].post \in Items /\ l \in Detail!Of(w)
  BY FetchRanges
<1>2. /\ \A k \in Loads \ {l} : fetch'[k] = fetch[k]
      /\ fetch'[l] = Detail!Idle
      /\ fetch' \in [Loads -> [win : Windows, post : Items] \cup {Detail!Idle}]
  BY DEF DetailTypes
<1>3. \A v \in Windows : Detail!Of(v)' = Detail!Of(v) \ {l}
  BY <1>2 DEF Detail!Of
<1>4. /\ UNCHANGED <<remarks, drawnRemarks, address, localComments, moved>>
      /\ \/ /\ UNCHANGED crossed
            /\ detail' = [detail EXCEPT ![w] = fetch[l].post]
         \/ /\ UNCHANGED detail /\ crossed' = crossed \cup {w}
  BY DEF Detail!ReceiveLoad, Detail!LoadFails
<1>5. DetailTypes'
  BY <1>1, <1>2, <1>4 DEF DetailTypes
<1>6. \A v \in Windows \ {w} : /\ Detail!Of(v)' = Detail!Of(v)
                               /\ detail'[v] = detail[v]
  <2>1. \A v \in Windows \ {w} : l \notin Detail!Of(v)
    BY FetchOf
  <2>2. \A v \in Windows \ {w} : Detail!Of(v)' = Detail!Of(v)
    BY <1>3, <2>1
  <2>3. \A v \in Windows \ {w} : detail'[v] = detail[v]
    BY <1>4 DEF DetailTypes
  <2> QED
    BY <2>2, <2>3
<1>7. \/ UNCHANGED crossed /\ detail'[w] = fetch[l].post
      \/ detail'[w] = detail[w] /\ w \in crossed' /\ crossed \subseteq crossed'
  BY <1>1, <1>4 DEF DetailTypes
<1>8. RequestsAreOfPages'
  BY <1>3, <1>4 DEF RequestsAreOfPages
<1>9. RequestsAreOfAddress'
  BY <1>2, <1>3, <1>4 DEF RequestsAreOfAddress
<1>10. PageIsOfOnePost'
  BY <1>1, <1>2, <1>3, <1>4, <1>6, <1>7 DEF PageIsOfOnePost
<1>11. DetailIsOfAddress'
  BY <1>1, <1>4, <1>6, <1>7
     DEF DetailIsOfAddress, Detail!DetailIsOfAddress, RequestsAreOfAddress
<1>12. CommentsOfPost'
  BY <1>1, <1>4, <1>6, <1>7
     DEF CommentsOfPost, Detail!CommentsOfPost, PageIsOfOnePost
<1> QED
  BY <1>5, <1>8, <1>9, <1>10, <1>11, <1>12

\* So does a page that goes.
LEMMA LeavePreserves ==
    ASSUME DetailInv, NEW w \in Windows, Detail!Leave(w)
    PROVE  DetailInv'
<1> USE DetailConstants DEF DetailInv
<1>1. /\ fetch' = [l \in Loads |-> IF l \in Detail!Of(w) THEN Detail!Idle
                                                         ELSE fetch[l]]
      /\ UNCHANGED <<remarks, drawnRemarks>>
      /\ crossed' = crossed \ {w} /\ moved' = moved \ {w}
  BY DEF Detail!Leave
<1>2. /\ address'[w] = NoItem /\ detail'[w] = NoItem
      /\ \A v \in Windows \ {w} :
             /\ address'[v] = address[v] /\ detail'[v] = detail[v]
             /\ localComments'[v] = localComments[v]
  BY DEF DetailTypes, Detail!Leave
<1>3. Detail!Of(w)' = {}
  BY <1>1 DEF Detail!Of
<1>4. \A v \in Windows \ {w} :
          /\ Detail!Of(v)' = Detail!Of(v)
          /\ \A l \in Detail!Of(v) : fetch'[l] = fetch[l]
  BY <1>1 DEF Detail!Of
<1>5. DetailTypes'
  BY <1>1 DEF DetailTypes, Detail!Leave
<1>6. RequestsAreOfPages'
  BY <1>2, <1>3, <1>4 DEF RequestsAreOfPages
<1>7. RequestsAreOfAddress'
  BY <1>1, <1>2, <1>3, <1>4 DEF RequestsAreOfAddress
<1>8. PageIsOfOnePost'
  BY <1>1, <1>2, <1>3, <1>4 DEF PageIsOfOnePost
<1>9. DetailIsOfAddress'
  BY <1>1, <1>2, <1>4 DEF DetailIsOfAddress, Detail!DetailIsOfAddress
<1>10. CommentsOfPost'
  BY <1>1, <1>2 DEF CommentsOfPost, Detail!CommentsOfPost
<1> QED
  BY <1>5, <1>6, <1>7, <1>8, <1>9, <1>10

\* So does a comment, which adds to the comments of one post.
LEMMA CommentPreserves ==
    ASSUME DetailInv, NEW w \in Windows, Detail!Comment(w)
    PROVE  DetailInv' /\ \A p \in Items : remarks[p] \subseteq remarks'[p]
<1> USE DetailConstants DEF DetailInv
<1> DEFINE c == drawnRemarks + 1
<1>1. /\ detail[w] # NoItem /\ drawnRemarks' = c /\ c \in 1..MaxComments
      /\ remarks' = [remarks EXCEPT ![detail[w]] = remarks[detail[w]] \cup {c}]
      /\ localComments' =
             [localComments EXCEPT ![w] = remarks[detail[w]] \cup {c}]
      /\ moved' = IF w \in moved /\ Detail!Of(w) # {}
                  THEN moved \cup {w} ELSE moved \ {w}
      /\ UNCHANGED <<address, detail, fetch, crossed>>
  BY DEF Detail!Comment, Detail!CommentsBefore, Detail!NextComments,
         Detail!Marked
<1>2. detail[w] \in Items /\ drawnRemarks \in Nat
  BY <1>1 DEF DetailTypes
<1>3. /\ remarks'[detail[w]] = remarks[detail[w]] \cup {c}
      /\ \A p \in Items : remarks[p] \subseteq remarks'[p]
      /\ localComments'[w] = remarks[detail[w]] \cup {c}
      /\ \A v \in Windows \ {w} : localComments'[v] = localComments[v]
  BY <1>1, <1>2 DEF DetailTypes
<1>4. DetailTypes'
  <2>1. 1..drawnRemarks \subseteq 1..c /\ c \in 1..c /\ c \in Nat
    BY <1>2
  <2>2. remarks[detail[w]] \cup {c} \in SUBSET (1..c)
    BY <1>2, <2>1 DEF DetailTypes
  <2>3. /\ remarks \in [Items -> SUBSET (1..c)]
        /\ localComments \in [Windows -> SUBSET (1..c)]
    BY <2>1 DEF DetailTypes
  <2>4. remarks' \in [Items -> SUBSET (1..c)]
    BY <1>1, <2>2, <2>3
  <2>5. localComments' \in [Windows -> SUBSET (1..c)]
    BY <1>1, <2>2, <2>3
  <2>6. moved' \subseteq Windows
    BY <1>1 DEF DetailTypes
  <2> HIDE DEF c
  <2> QED
    BY <1>1, <2>1, <2>4, <2>5, <2>6 DEF DetailTypes
<1>5. \A v \in Windows : Detail!Of(v)' = Detail!Of(v)
  BY <1>1 DEF Detail!Of
<1>6. RequestsAreOfPages'
  BY <1>1, <1>5 DEF RequestsAreOfPages
<1>7. RequestsAreOfAddress'
  BY <1>1, <1>5 DEF RequestsAreOfAddress
<1>8. PageIsOfOnePost'
  <2> SUFFICES ASSUME NEW v \in Windows, v \notin moved', NEW l \in Loads,
                      l \in Detail!Of(v)
               PROVE  /\ detail[v] \in {NoItem, address[v]}
                      /\ fetch[l].post = address[v]
                      /\ localComments'[v] \subseteq remarks'[address[v]]
    BY <1>1, <1>5 DEF PageIsOfOnePost
  <2>1. v \notin moved
    BY <1>1
  <2>2. /\ detail[v] \in {NoItem, address[v]} /\ fetch[l].post = address[v]
        /\ localComments[v] \subseteq remarks[address[v]]
    BY <2>1 DEF PageIsOfOnePost
  <2>3. address[v] \in Items
    BY DEF RequestsAreOfPages, DetailTypes
  <2> QED
    BY <1>1, <1>3, <2>2, <2>3
<1>9. DetailIsOfAddress'
  BY <1>1, <1>5 DEF DetailIsOfAddress, Detail!DetailIsOfAddress
<1>10. CommentsOfPost'
  <2> SUFFICES ASSUME NEW v \in Windows, v \notin moved', detail[v] # NoItem
               PROVE  localComments'[v] \subseteq remarks'[detail[v]]
    BY <1>1 DEF CommentsOfPost, Detail!CommentsOfPost
  <2>1. detail[v] \in Items
    BY DEF DetailTypes
  <2>2. CASE v = w
    BY <1>3, <2>2
  <2>3. CASE v # w
    BY <1>1, <1>3, <2>1, <2>3 DEF CommentsOfPost, Detail!CommentsOfPost
  <2> QED
    BY <2>2, <2>3
<1> QED
  BY <1>3, <1>4, <1>6, <1>7, <1>8, <1>9, <1>10

\* Every step keeps the invariant, and every comment.
LEMMA DetailNext ==
    DetailInv /\ [Detail!Next]_(Detail!vars)
        => DetailInv' /\ \A p \in Items : remarks[p] \subseteq remarks'[p]
<1> SUFFICES ASSUME DetailInv, [Detail!Next]_(Detail!vars)
             PROVE  /\ DetailInv'
                    /\ \A p \in Items : remarks[p] \subseteq remarks'[p]
  OBVIOUS
<1>1. ASSUME NEW w \in Windows, NEW p \in Items, Detail!Open(w, p)
      PROVE  DetailInv' /\ UNCHANGED remarks
  BY <1>1, OpenPreserves DEF Detail!Open
<1>2. ASSUME NEW w \in Windows, NEW p \in Items, Detail!Move(w, p)
      PROVE  DetailInv' /\ UNCHANGED remarks
  BY <1>2, MovePreserves DEF Detail!Move
<1>3. ASSUME NEW w \in Windows, Detail!Leave(w)
      PROVE  DetailInv' /\ UNCHANGED remarks
  BY <1>3, LeavePreserves DEF Detail!Leave
<1>4. ASSUME NEW w \in Windows, Detail!Comment(w)
      PROVE  DetailInv' /\ \A p \in Items : remarks[p] \subseteq remarks'[p]
  BY <1>4, CommentPreserves
<1>5. ASSUME NEW l \in Loads, Detail!ReceiveLoad(l) \/ Detail!LoadFails(l)
      PROVE  DetailInv' /\ UNCHANGED remarks
  BY <1>5, FetchEnds DEF Detail!ReceiveLoad, Detail!LoadFails
<1>6. CASE UNCHANGED Detail!vars
  <2>1. \A w \in Windows : Detail!Of(w)' = Detail!Of(w)
    BY <1>6 DEF Detail!vars, Detail!Of
  <2>2. /\ DetailTypes' /\ RequestsAreOfPages' /\ RequestsAreOfAddress'
    BY <1>6, <2>1
       DEF Detail!vars, DetailInv, DetailTypes, RequestsAreOfPages,
           RequestsAreOfAddress
  <2>3. PageIsOfOnePost' /\ DetailIsOfAddress' /\ CommentsOfPost'
    BY <1>6, <2>1
       DEF Detail!vars, DetailInv, PageIsOfOnePost, DetailIsOfAddress,
           Detail!DetailIsOfAddress, CommentsOfPost, Detail!CommentsOfPost
  <2> QED
    BY <1>6, <2>2, <2>3 DEF DetailInv, Detail!vars
<1> QED
  BY <1>1, <1>2, <1>3, <1>4, <1>5, <1>6 DEF Detail!Next

\* The invariant holds in every reachable state.
THEOREM DetailInvariance == Detail!Spec => []DetailInv
<1>1. DetailInv /\ [Detail!Next]_(Detail!vars) => DetailInv'
  BY DetailNext
<1> QED
  BY <1>1, DetailInit, PTL DEF Detail!Spec

-----------------------------------------------------------------------------
(***************************************************************************)
(* The types of the parts, as far as the invariants above do not say them. *)
(***************************************************************************)
\* The rows of a load are posts, and its page is there, if it says so; the post
\* that a creation has made is the user's.
FeedRequests ==
    /\ \A l \in Loads : load[l] # Idle =>
           load[l].rows \subseteq 1..drawn /\ (load[l].here => mounted)
    /\ create # Idle /\ create.at = "served" => create.id \in own

FeedTypes == TypeOK /\ FeedRequests

\* A request for a page of the feed, by a page that is there.
LEMMA LoadTypes ==
    ASSUME FeedTypes, NEW l \in Loads, LoadFeed(l), mounted',
           mounted' \in BOOLEAN, UNCHANGED drawn
    PROVE  /\ load' \in [Loads -> LoadRequests \cup {Idle}]
           /\ \A k \in Loads : load'[k] # Idle =>
                  load'[k].rows \subseteq 1..drawn /\ (load'[k].here => mounted')
<1>1. load' = [load EXCEPT ![l] = [at |-> "sent", rows |-> {}, here |-> TRUE]]
  BY DEF LoadFeed
<1>2. [at |-> "sent", rows |-> {}, here |-> TRUE] \in LoadRequests
  BY DEF LoadRequests
<1>3. load' \in [Loads -> LoadRequests \cup {Idle}]
  BY <1>1, <1>2 DEF FeedTypes, TypeOK
<1>4. ASSUME NEW k \in Loads, load'[k] # Idle
      PROVE  load'[k].rows \subseteq 1..drawn /\ (load'[k].here => mounted')
  <2>1. CASE k = l
    BY <1>1, <2>1 DEF FeedTypes, TypeOK
  <2>2. CASE k # l
    <3>1. load'[k] = load[k]
      BY <1>1, <2>2 DEF FeedTypes, TypeOK
    <3> QED
      BY <1>4, <3>1 DEF FeedTypes, FeedRequests
  <2> QED
    BY <2>1, <2>2
<1> QED
  BY <1>3, <1>4

\* The feed page is navigated to, when the posts of the user are saved.
LEMMA NavigateTypes ==
    ASSUME FeedTypes, Navigate, UNCHANGED <<drawn, posts>>,
           localPosts' \subseteq 1..drawn
    PROVE  /\ mounted' \in BOOLEAN
           /\ posts' \cup local' \subseteq IF mounted' THEN 1..drawn ELSE {}
           /\ load' \in [Loads -> LoadRequests \cup {Idle}]
           /\ \A k \in Loads : load'[k] # Idle =>
                  load'[k].rows \subseteq 1..drawn /\ (load'[k].here => mounted')
<1>1. CASE mounted
  BY <1>1 DEF FeedTypes, TypeOK, FeedRequests, Navigate
<1>2. CASE ~mounted
  <2>1. PICK l \in Loads : LoadFeed(l)
    BY <1>2 DEF Navigate
  <2>2. mounted' = TRUE /\ posts = {} /\ local' = localPosts'
    BY <1>2, <2>1 DEF Navigate, LoadFeed, FeedTypes, TypeOK
  <2> QED
    BY <2>1, <2>2, LoadTypes
<1> QED
  BY <1>1, <1>2

\* A post of another user, or of this one, is the next.
LEMMA NewPostTypes ==
    ASSUME FeedTypes, OthersPost \/ ServeCreate
    PROVE  FeedTypes'
<1>1. /\ drawn \in Nat /\ drawn + 1 \in 0..MaxPosts /\ drawn' = drawn + 1
      /\ live' = live \cup {drawn + 1}
      /\ own \subseteq own' /\ own' \subseteq own \cup {drawn + 1}
      /\ UNCHANGED <<localPosts, feedCache, mounted, posts, local, load,
                     delete, acked, late>>
  BY FeedClientAssumption
     DEF FeedTypes, TypeOK, OthersPost, ServeCreate, storage, feedPage
<1>2. 1..drawn \subseteq 1..drawn' /\ drawn + 1 \in 1..drawn'
  BY <1>1
<1>3. /\ create' \in CreateRequests \cup {Idle}
      /\ create' # Idle /\ create'.at = "served" => create'.id \in own'
  <2>1. CASE OthersPost
    BY <1>1, <2>1 DEF OthersPost, FeedTypes, TypeOK, FeedRequests
  <2>2. CASE ServeCreate
    BY <1>1, <2>2 DEF ServeCreate, CreateRequests
  <2> QED
    BY <2>1, <2>2
<1>4. /\ drawn' \in 0..MaxPosts /\ live' \cup own' \subseteq 1..drawn'
      /\ localPosts' \subseteq own' /\ feedCache' \subseteq 1..drawn'
      /\ posts' \cup local' \subseteq IF mounted' THEN 1..drawn' ELSE {}
      /\ acked' \subseteq own' /\ late' \subseteq acked'
      /\ {p \in PostIds : delete'[p] # Idle} \subseteq own'
  BY <1>1, <1>2 DEF FeedTypes, TypeOK
<1>5. /\ mounted' \in BOOLEAN /\ load' \in [Loads -> LoadRequests \cup {Idle}]
      /\ delete' \in [PostIds -> DeleteRequests \cup {Idle}]
  BY <1>1 DEF FeedTypes, TypeOK
<1>6. \A l \in Loads : load'[l] # Idle =>
          load'[l].rows \subseteq 1..drawn' /\ (load'[l].here => mounted')
  BY <1>1, <1>2 DEF FeedTypes, FeedRequests
<1> QED
  BY <1>3, <1>4, <1>5, <1>6 DEF FeedTypes, TypeOK, FeedRequests

\* Every step keeps the types of the feed page.
LEMMA FeedTypesNext == FeedTypes /\ [Next]_vars => FeedTypes'
<1> SUFFICES ASSUME FeedTypes, [Next]_vars PROVE FeedTypes'
  OBVIOUS
<1> USE DEF server, storage, feedPage
<1>0. /\ drawn \in 0..MaxPosts /\ drawn \in Nat /\ 1..drawn \subseteq PostIds
      /\ own \subseteq 1..drawn /\ localPosts \subseteq 1..drawn
  BY FeedClientAssumption DEF FeedTypes, TypeOK, PostIds
<1>1. CASE Open
  <2>1. /\ UNCHANGED <<drawn, live, own, localPosts, feedCache, posts, delete,
                       create, acked, late>>
        /\ Navigate
    BY <1>1 DEF Open
  <2>2. /\ mounted' \in BOOLEAN
        /\ posts' \cup local' \subseteq IF mounted' THEN 1..drawn ELSE {}
        /\ load' \in [Loads -> LoadRequests \cup {Idle}]
        /\ \A k \in Loads : load'[k] # Idle =>
               load'[k].rows \subseteq 1..drawn /\ (load'[k].here => mounted')
    BY <1>0, <2>1, NavigateTypes
  <2> QED
    BY <2>1, <2>2 DEF FeedTypes, TypeOK, FeedRequests
<1>2. CASE Leave
  <2>1. \A l \in Loads : /\ load'[l] \in LoadRequests \cup {Idle}
                         /\ load'[l] # Idle => /\ load[l] # Idle
                                               /\ load'[l].rows = load[l].rows
                                               /\ load'[l].here = FALSE
    BY <1>2 DEF Leave, FeedTypes, TypeOK, LoadRequests, Idle
  <2>2. \A p \in PostIds : /\ delete'[p] \in DeleteRequests \cup {Idle}
                           /\ delete'[p] # Idle => delete[p] # Idle
    BY <1>2 DEF Leave, FeedTypes, TypeOK, DeleteRequests
  <2>3. /\ load' \in [Loads -> LoadRequests \cup {Idle}]
        /\ delete' \in [PostIds -> DeleteRequests \cup {Idle}]
    <3>1. /\ load' = [l \in Loads |-> load'[l]]
          /\ delete' = [p \in PostIds |-> delete'[p]]
      BY <1>2 DEF Leave
    <3> QED
      BY <2>1, <2>2, <3>1
  <2> QED
    BY <1>2, <2>1, <2>2, <2>3 DEF Leave, FeedTypes, TypeOK, FeedRequests
<1>3. ASSUME NEW l \in Loads, Refresh(l) PROVE FeedTypes'
  <2>1. /\ UNCHANGED <<drawn, live, own, localPosts, feedCache, mounted, posts,
                       delete, create, acked, late>>
        /\ mounted /\ LoadFeed(l) /\ local' = localPosts
    BY <1>3 DEF Refresh, LoadFeed
  <2>2. /\ load' \in [Loads -> LoadRequests \cup {Idle}]
        /\ \A k \in Loads : load'[k] # Idle =>
               load'[k].rows \subseteq 1..drawn /\ (load'[k].here => mounted')
    BY <2>1, LoadTypes DEF FeedTypes, TypeOK
  <2> QED
    BY <1>0, <2>1, <2>2 DEF FeedTypes, TypeOK, FeedRequests
<1>4. ASSUME NEW l \in Loads, ServeLoad(l) PROVE FeedTypes'
  <2>1. PICK rows \in SUBSET live :
            load' = [load EXCEPT ![l].at = "served", ![l].rows = rows]
    BY <1>4 DEF ServeLoad
  <2>2. load[l] \in LoadRequests /\ rows \in SUBSET PostIds
        /\ rows \subseteq 1..drawn
    BY <1>0, <1>4 DEF ServeLoad, FeedTypes, TypeOK
  <2>3. /\ load'[l] = [load[l] EXCEPT !.at = "served", !.rows = rows]
        /\ \A k \in Loads : k # l => load'[k] = load[k]
        /\ load' \in [Loads -> LoadRequests \cup {Idle}]
    BY <2>1, <2>2 DEF FeedTypes, TypeOK, LoadRequests
  <2>4. load'[l].rows = rows /\ load'[l].here = load[l].here
    BY <2>2, <2>3 DEF LoadRequests
  <2> QED
    BY <1>4, <2>2, <2>3, <2>4
       DEF ServeLoad, FeedTypes, TypeOK, FeedRequests
<1>5. ASSUME NEW l \in Loads, ReceiveLoad(l) PROVE FeedTypes'
  <2>1. /\ load[l] \in LoadRequests /\ load[l].rows \subseteq 1..drawn
        /\ load[l].here => mounted
    BY <1>5 DEF ReceiveLoad, FeedTypes, TypeOK, FeedRequests
  <2>2. load' = [load EXCEPT ![l] = Idle]
    BY <1>5 DEF ReceiveLoad
  <2>3. /\ load' \in [Loads -> LoadRequests \cup {Idle}]
        /\ \A k \in Loads : load'[k] # Idle => load'[k] = load[k]
    BY <2>2 DEF FeedTypes, TypeOK
  <2>4. posts' \subseteq IF mounted THEN 1..drawn ELSE {}
    BY <1>5, <2>1 DEF ReceiveLoad, FeedTypes, TypeOK
  <2> QED
    BY <1>5, <2>1, <2>3, <2>4 DEF ReceiveLoad, FeedTypes, TypeOK, FeedRequests
<1>6. ASSUME NEW l \in Loads, LoadFails(l) PROVE FeedTypes'
  <2>1. load' = [load EXCEPT ![l] = Idle]
    BY <1>6 DEF LoadFails
  <2>2. /\ load' \in [Loads -> LoadRequests \cup {Idle}]
        /\ \A k \in Loads : load'[k] # Idle => load'[k] = load[k]
    BY <2>1 DEF FeedTypes, TypeOK
  <2> QED
    BY <1>6, <2>2 DEF LoadFails, FeedTypes, TypeOK, FeedRequests
<1>7. ASSUME NEW p \in 1..drawn, OthersDelete(p) PROVE FeedTypes'
  BY <1>7 DEF OthersDelete, FeedTypes, TypeOK, FeedRequests
<1>8. ASSUME NEW p \in 1..drawn,
             \/ ServeDelete(p) \/ ClickDelete(p) \/ DeleteFails(p)
      PROVE  FeedTypes'
  <2>1. /\ delete' \in [PostIds -> DeleteRequests \cup {Idle}]
        /\ {q \in PostIds : delete'[q] # Idle} \subseteq own
    BY <1>0, <1>8 DEF ServeDelete, ClickDelete, Offers, DeleteFails, FeedTypes,
                      TypeOK, DeleteRequests
  <2>2. /\ live' \subseteq live
        /\ UNCHANGED <<drawn, own, localPosts, feedCache, mounted, posts,
                       local, load, create, acked, late>>
    BY <1>8 DEF ServeDelete, ClickDelete, DeleteFails
  <2> QED
    BY <2>1, <2>2 DEF FeedTypes, TypeOK, FeedRequests
<1>9. ASSUME NEW p \in 1..drawn, ReceiveDelete(p) PROVE FeedTypes'
  <2>1. /\ delete[p] # Idle /\ delete' = [delete EXCEPT ![p] = Idle]
        /\ localPosts' = localPosts \ {p} /\ feedCache' = feedCache \ {p}
        /\ acked' = acked \cup {p}
        /\ late' = late \cup ({p} \cap (posts' \cup local'))
        /\ UNCHANGED <<drawn, live, own, create>>
    BY <1>9 DEF ReceiveDelete, Purge
  <2>2. p \in own /\ delete[p].from \in {"feed", "post", "gone"}
    BY <1>0, <2>1 DEF FeedTypes, TypeOK, DeleteRequests
  <2>3. /\ delete' \in [PostIds -> DeleteRequests \cup {Idle}]
        /\ {q \in PostIds : delete'[q] # Idle} \subseteq own
    BY <2>1 DEF FeedTypes, TypeOK
  <2>4. /\ mounted' \in BOOLEAN
        /\ posts' \cup local' \subseteq IF mounted' THEN 1..drawn ELSE {}
        /\ load' \in [Loads -> LoadRequests \cup {Idle}]
        /\ \A k \in Loads : load'[k] # Idle =>
               load'[k].rows \subseteq 1..drawn /\ (load'[k].here => mounted')
    <3>1. CASE delete[p].from = "post"
      <4>1. Navigate /\ UNCHANGED posts
        BY <1>9, <3>1 DEF ReceiveDelete
      <4> QED
        BY <1>0, <2>1, <4>1, NavigateTypes
    <3>2. CASE delete[p].from # "post"
      <4>1. /\ posts' \subseteq posts /\ local' \subseteq local
            /\ UNCHANGED <<mounted, load>>
        BY <1>9, <2>2, <3>2 DEF ReceiveDelete
      <4> QED
        BY <4>1 DEF FeedTypes, TypeOK, FeedRequests
    <3> QED
      BY <3>1, <3>2
  <2> QED
    BY <2>1, <2>2, <2>3, <2>4 DEF FeedTypes, TypeOK, FeedRequests
<1>10. CASE SubmitPost
  <2>1. create' = [at |-> "sent", id |-> 0] /\ 0 \in 0..MaxPosts
    BY <1>10, FeedClientAssumption DEF SubmitPost
  <2>2. create' \in CreateRequests /\ create'.at # "served"
    BY <2>1 DEF CreateRequests
  <2> QED
    BY <1>10, <2>2 DEF SubmitPost, FeedTypes, TypeOK, FeedRequests
<1>11. CASE ReceiveCreate
  <2>1. /\ create.id \in own /\ create' = Idle
        /\ localPosts' = localPosts \cup {create.id}
        /\ feedCache' = feedCache \cup {create.id}
        /\ late' = late \cup ({create.id} \cap acked) /\ Navigate
        /\ UNCHANGED <<drawn, live, own, posts, delete, acked>>
    BY <1>11 DEF ReceiveCreate, FeedTypes, FeedRequests
  <2>2. /\ mounted' \in BOOLEAN
        /\ posts' \cup local' \subseteq IF mounted' THEN 1..drawn ELSE {}
        /\ load' \in [Loads -> LoadRequests \cup {Idle}]
        /\ \A k \in Loads : load'[k] # Idle =>
               load'[k].rows \subseteq 1..drawn /\ (load'[k].here => mounted')
    BY <1>0, <2>1, NavigateTypes
  <2> QED
    BY <1>0, <2>1, <2>2 DEF FeedTypes, TypeOK, FeedRequests
<1>12. CASE CreateFails
  BY <1>12 DEF CreateFails, FeedTypes, TypeOK, FeedRequests
<1>13. CASE UNCHANGED vars
  BY <1>13 DEF vars, FeedTypes, TypeOK, FeedRequests
<1> QED
  BY <1>1, <1>2, <1>3, <1>4, <1>5, <1>6, <1>7, <1>8, <1>9, <1>10, <1>11,
     <1>12, <1>13, NewPostTypes DEF Next

\* Initially there is nothing.
LEMMA FeedTypesInit == Init => FeedTypes
<1> SUFFICES ASSUME Init PROVE FeedTypes
  OBVIOUS
<1>1. /\ load \in [Loads -> {Idle}] /\ delete \in [PostIds -> {Idle}]
      /\ create = Idle /\ drawn = 0 /\ mounted = FALSE
      /\ live = {} /\ own = {} /\ localPosts = {} /\ feedCache = {}
      /\ posts = {} /\ local = {} /\ acked = {} /\ late = {}
  BY DEF Init
<1>2. drawn \in 0..MaxPosts
  BY <1>1, FeedClientAssumption
<1>3. \A l \in Loads : load[l] = Idle
  BY <1>1
<1>4. \A p \in PostIds : delete[p] = Idle
  BY <1>1
<1>5. TypeOK
  BY <1>1, <1>2, <1>3, <1>4 DEF TypeOK
<1> QED
  BY <1>1, <1>3, <1>5 DEF FeedTypes, FeedRequests

\* Nobody asks to follow himself.
FollowTypes ==
    /\ Follow!TypeOK
    /\ \A t \in Follow!Flying :
           toggle[t].of # Me /\ toggle[t].base \subseteq Authors \ {Me}

LEMMA FollowTypesInit == Follow!Init => FollowTypes
  BY DEF Follow!Init, FollowTypes, Follow!TypeOK, Follow!Flying

\* Every step keeps the types of the followed users.
LEMMA FollowTypesNext == FollowTypes /\ [Follow!Next]_(Follow!vars) => FollowTypes'
<1> SUFFICES ASSUME FollowTypes, [Follow!Next]_(Follow!vars)
             PROVE  FollowTypes'
  OBVIOUS
<1> DEFINE Requests == {r \in Follow!InFlight :
                            r.of # Me /\ r.base \subseteq Authors \ {Me}}
<1>1. /\ toggle \in [Toggles -> Requests \cup {Follow!Idle}]
      /\ \A r \in Requests : r # Follow!Idle
  BY DEF FollowTypes, Follow!TypeOK, Follow!Flying, Follow!InFlight,
         Follow!Idle
<1>2. ASSUME toggle' \in [Toggles -> Requests \cup {Follow!Idle}],
             following' \subseteq Authors \ {Me},
             stored' \subseteq Authors \ {Me},
             followingIDs' \subseteq Authors \ {Me},
             before' \subseteq Authors \ {Me}, tainted' \in BOOLEAN
      PROVE  FollowTypes'
  BY <1>2 DEF FollowTypes, Follow!TypeOK, Follow!Flying
<1>3. /\ following \subseteq Authors \ {Me} /\ stored \subseteq Authors \ {Me}
      /\ followingIDs \subseteq Authors \ {Me} /\ before \subseteq Authors \ {Me}
      /\ tainted \in BOOLEAN
  BY DEF FollowTypes, Follow!TypeOK
<1>4. ASSUME NEW t \in Toggles, toggle[t] # Follow!Idle,
             NEW at \in {"ok", "refused"}, Follow!Answered(t, at)
      PROVE  toggle' \in [Toggles -> Requests \cup {Follow!Idle}]
  <2>1. toggle[t] \in Requests
    BY <1>1, <1>4
  <2>2. [toggle[t] EXCEPT !.at = at] \in Requests
    BY <2>1 DEF Follow!InFlight
  <2>3. toggle' = [toggle EXCEPT ![t] = [toggle[t] EXCEPT !.at = at]]
    BY <1>1, <1>4 DEF Follow!Answered
  <2> HIDE DEF Requests
  <2> QED
    BY <1>1, <2>2, <2>3
<1>5. ASSUME NEW t \in Toggles, NEW v \in Authors, Follow!Click(t, v)
      PROVE  FollowTypes'
  <2>1. [at |-> "sent", of |-> v, follow |-> v \notin followingIDs,
         base |-> followingIDs, for |-> "page"] \in Requests
    BY <1>3, <1>5 DEF Follow!Click, Follow!CanFollow, Follow!InFlight
  <2> HIDE DEF Requests
  <2>2. toggle' \in [Toggles -> Requests \cup {Follow!Idle}]
    BY <1>1, <1>5, <2>1 DEF Follow!Click
  <2> QED
    BY <1>2, <1>3, <1>5, <2>2 DEF Follow!Click
<1>6. ASSUME NEW t \in Toggles, Follow!Serve(t) \/ Follow!ServeFails(t)
      PROVE  FollowTypes'
  <2>1. toggle[t].at = "sent" /\ UNCHANGED <<stored, followingIDs, before>>
    BY <1>6 DEF Follow!Serve, Follow!ServeFails
  <2>2. PICK at \in {"ok", "refused"} : Follow!Answered(t, at)
    BY <1>6 DEF Follow!Serve, Follow!ServeFails
  <2>3. toggle[t] # Follow!Idle
    BY <2>1 DEF Follow!Idle
  <2>4. toggle[t] \in Requests
    BY <1>1, <2>3
  <2>5. toggle[t].of \in Authors \ {Me}
    BY <2>4 DEF Follow!InFlight
  <2>6. following' \subseteq following \cup {toggle[t].of}
    BY <1>6 DEF Follow!Serve, Follow!ServeFails
  <2>7. tainted' \in BOOLEAN
    BY <1>3, <1>6 DEF Follow!Serve, Follow!ServeFails
  <2> QED
    BY <1>2, <1>3, <1>4, <2>1, <2>2, <2>3, <2>5, <2>6, <2>7
<1>7. ASSUME NEW t \in Toggles, Follow!AnswerLost(t) PROVE FollowTypes'
  <2> HIDE DEF Requests
  <2>1. toggle' \in [Toggles -> Requests \cup {Follow!Idle}]
    BY <1>1, <1>7 DEF Follow!AnswerLost
  <2> QED
    BY <1>2, <1>3, <1>7, <2>1 DEF Follow!AnswerLost
<1>8. ASSUME NEW t \in Toggles, Follow!Receive(t) PROVE FollowTypes'
  <2>1. toggle[t] # Follow!Idle
    BY <1>8 DEF Follow!Receive, Follow!Idle
  <2>2. toggle[t] \in Requests
    BY <1>1, <2>1
  <2>3. Follow!Changed(toggle[t]) \subseteq Authors \ {Me}
    BY <2>2 DEF Follow!Changed, Follow!InFlight
  <2> HIDE DEF Requests
  <2>4. toggle' \in [Toggles -> Requests \cup {Follow!Idle}]
    BY <1>1, <1>8 DEF Follow!Receive
  <2> QED
    BY <1>2, <1>3, <1>8, <2>3, <2>4 DEF Follow!Receive
<1>9. CASE Follow!LoadFeed
  BY <1>1, <1>2, <1>3, <1>9 DEF Follow!LoadFeed
<1>10. ASSUME NEW for \in {"session", "past"}, Follow!Abandon(for)
       PROVE  toggle' \in [Toggles -> Requests \cup {Follow!Idle}]
  <2>1. ASSUME NEW t \in Follow!Flying
        PROVE  [toggle[t] EXCEPT !.for = for] \in Requests
    <3>1. toggle[t] \in Requests
      BY <1>1 DEF Follow!Flying
    <3> QED
      BY <3>1 DEF Follow!InFlight
  <2> HIDE DEF Requests
  <2> QED
    BY <1>1, <1>10, <2>1 DEF Follow!Abandon
<1>11. CASE Follow!Remount
  BY <1>2, <1>3, <1>10, <1>11 DEF Follow!Remount
<1>12. CASE Follow!Login
  BY <1>2, <1>3, <1>10, <1>12 DEF Follow!Login
<1>13. CASE UNCHANGED Follow!vars
  BY <1>1, <1>2, <1>3, <1>13 DEF Follow!vars
<1> QED
  BY <1>5, <1>6, <1>7, <1>8, <1>9, <1>11, <1>12, <1>13 DEF Follow!Next

\* Initially no query has been asked.
LEMMA SearchTypesInit == Search!Init => Search!TypeOK
<1> SUFFICES ASSUME Search!Init PROVE Search!TypeOK
  OBVIOUS
<1>1. /\ shown = Search!None /\ isLoading = FALSE /\ mixed = TRUE
      /\ strayed = FALSE
  BY DEF Search!Init
<1>2. SearchTypes
  BY SearchInit DEF SearchInv
<1> QED
  BY <1>1, <1>2 DEF SearchTypes, Search!TypeOK

\* Every step keeps the types of the search.
LEMMA SearchTypesNext ==
    SearchInv /\ Search!TypeOK /\ [Search!Next]_(Search!vars) => Search!TypeOK'
<1> SUFFICES ASSUME SearchInv, Search!TypeOK, [Search!Next]_(Search!vars)
             PROVE  Search!TypeOK'
  OBVIOUS
<1>1. SearchTypes'
  BY SearchNext DEF SearchInv
<1>2. ASSUME NEW what, NEW stale \in BOOLEAN, Search!LoadFeed(what, stale)
      PROVE  /\ shown' = shown /\ isLoading' \in BOOLEAN
             /\ mixed' \in BOOLEAN /\ strayed' \in BOOLEAN
  BY <1>2 DEF Search!LoadFeed, Search!TypeOK
<1>3. /\ shown' \in Search!Asks \cup {Search!None}
      /\ isLoading' \in BOOLEAN /\ mixed' \in BOOLEAN /\ strayed' \in BOOLEAN
  <2>1. CASE \/ \E q \in Search!Queries : Search!Search(q)
             \/ Search!Refresh \/ Search!GoToNextPage
             \/ Search!GoToPreviousPage \/ Search!Followed
    BY <1>2, <2>1
       DEF Search!Search, Search!Refresh, Search!GoToNextPage, Search!GoTo,
           Search!GoToPreviousPage, Search!Followed, Search!TypeOK
  <2>2. CASE \E l \in Loads : Search!ReceiveLoad(l) \/ Search!LoadFails(l)
    BY <2>2 DEF Search!ReceiveLoad, Search!LoadFails, Search!TypeOK
  <2>3. CASE \/ Search!ToggleFollow \/ Search!FollowFails
             \/ UNCHANGED Search!vars
    BY <2>3 DEF Search!ToggleFollow, Search!FollowFails, Search!vars,
                Search!TypeOK
  <2> QED
    BY <2>1, <2>2, <2>3 DEF Search!Next
<1> QED
  BY <1>1, <1>3 DEF SearchTypes, Search!TypeOK, Search!Asks, Search!Queries,
                    Search!None

\* A form is of texts that were written; a save that has been sent is of one
\* that was filled in, and one that was written is newer than the one before.
PagesTypes ==
    /\ Pages!TypeOK
    /\ form.base <= Len(texts) /\ (page = "edit" => form \in Pages!Forms)
    /\ get <= Len(texts)
    /\ save \in [form : Pages!Forms \cup {Pages!NoForm},
                 reply : Pages!Replies]
    /\ save.reply = Pages!Sent =>
           /\ save.form \in Pages!Forms /\ save.form.base <= Len(texts)
           /\ save.form.base # 0 \/ save.form.touched = Fields
    /\ save.reply > 0 => saved <= save.reply /\ save.reply <= Len(texts)

\* Initially the first version is there.
LEMMA PagesTypesInit == Pages!Init => PagesTypes
<1> SUFFICES ASSUME Pages!Init PROVE PagesTypes
  OBVIOUS
<1>1. MaxVersion \in Nat \ {0}
  BY ClientAssumption DEF Pages!Parameters
<1>2. /\ [f \in Fields |-> 1] \in [Fields -> Pages!Versions]
      /\ texts = <<[f \in Fields |-> 1]>>
  BY <1>1 DEF Pages!Init
<1>3. texts \in Seq([Fields -> Pages!Versions]) /\ Len(texts) = 1
  BY <1>2
<1>4. /\ form = Pages!NoForm /\ save = Pages!NoSave /\ get = Pages!Idle
      /\ page = "feed" /\ Pages!Idle \in Pages!Replies
      /\ copy = 0 /\ post = 0 /\ saved = 0 /\ since = 0 /\ loaded = 0 /\ seen = 0
      /\ reordered = FALSE /\ overtaken = FALSE /\ undone = FALSE
  BY DEF Pages!Init, Pages!Replies
<1>5. Pages!TypeOK
  <2>1. save.form = Pages!NoForm /\ save.reply = Pages!Idle
    BY <1>4
  <2>2. /\ Len(texts) \in Pages!Versions /\ 0 \in 0..Len(texts)
        /\ 0 \in 0..saved
    BY <1>1, <1>3, <1>4
  <2> QED
    BY <1>3, <1>4, <2>1, <2>2 DEF Pages!TypeOK
<1>6. save \in [form : Pages!Forms \cup {Pages!NoForm}, reply : Pages!Replies]
  BY <1>4
<1> QED
  BY <1>3, <1>4, <1>5, <1>6 DEF PagesTypes

\* A version that is written is the next.
LEMMA VersionAdds ==
    ASSUME PagesTypes, Len(texts) < MaxVersion,
           NEW text \in [Fields -> Pages!Versions],
           texts' = Append(texts, text)
    PROVE  /\ texts' \in Seq([Fields -> Pages!Versions])
           /\ Len(texts') = Len(texts) + 1 /\ Len(texts') \in Pages!Versions
           /\ \A n \in Int : n <= Len(texts) => n <= Len(texts')
           /\ 0..Len(texts) \subseteq 0..Len(texts')
<1>1. Len(texts) \in Nat /\ texts \in Seq([Fields -> Pages!Versions])
      /\ MaxVersion \in Nat
  BY ClientAssumption DEF PagesTypes, Pages!TypeOK, Pages!Parameters
<1>2. texts' \in Seq([Fields -> Pages!Versions]) /\ Len(texts') = Len(texts) + 1
  BY <1>1
<1> QED
  BY <1>1, <1>2

\* Every step keeps the types of the pages of a post.
LEMMA PagesTypesNext ==
    PagesTypes /\ [Pages!Next]_(Pages!vars) => PagesTypes'
<1> SUFFICES ASSUME PagesTypes, [Pages!Next]_(Pages!vars) PROVE PagesTypes'
  OBVIOUS
<1>0. /\ MaxVersion \in Nat /\ Len(texts) \in Nat /\ Len(texts) <= MaxVersion
      /\ \A v \in 0..Len(texts) : v \in Pages!Versions \cup {0}
  BY ClientAssumption DEF PagesTypes, Pages!TypeOK, Pages!Parameters
<1>1. ASSUME NEW F \in SUBSET Fields, Pages!OthersEdit(F) PROVE PagesTypes'
  <2> DEFINE text == [f \in Fields |->
                          IF f \in F THEN Len(texts) + 1
                          ELSE texts[Len(texts)][f]]
  <2>1. Len(texts) < MaxVersion /\ texts' = Append(texts, text)
    BY <1>1 DEF Pages!OthersEdit
  <2>2. text \in [Fields -> Pages!Versions]
    BY <1>0, <2>1 DEF PagesTypes, Pages!TypeOK
  <2> HIDE DEF text
  <2>3. /\ texts' \in Seq([Fields -> Pages!Versions])
        /\ Len(texts') = Len(texts) + 1 /\ Len(texts') \in Pages!Versions
    BY <2>1, <2>2, VersionAdds
  <2>4. UNCHANGED <<copy, page, post, get, form, save, saved, since, loaded,
                    seen, reordered, overtaken, undone>>
    BY <1>1 DEF Pages!OthersEdit
  <2> QED
    BY <1>0, <2>3, <2>4 DEF PagesTypes, Pages!TypeOK, Pages!Forms, Pages!Replies
<1>2. CASE Pages!ServeSave
  <2> DEFINE old == save.form
             kept == Fields \ old.touched
             text == [f \in Fields |-> IF f \in kept THEN texts[old.base][f]
                                       ELSE Len(texts) + 1]
  <2>1. /\ Len(texts) < MaxVersion /\ texts' = Append(texts, text)
        /\ save.reply = Pages!Sent
        /\ save' = [save EXCEPT !.reply = Len(texts) + 1]
        /\ UNCHANGED <<copy, page, post, get, form, saved, since, loaded, seen,
                       reordered, overtaken>>
    BY <1>2 DEF Pages!ServeSave
  <2>2. /\ old \in Pages!Forms /\ old.base <= Len(texts)
        /\ kept # {} => old.base # 0
    BY <2>1 DEF PagesTypes
  <2>3. text \in [Fields -> Pages!Versions]
    <3> SUFFICES ASSUME NEW f \in Fields PROVE text[f] \in Pages!Versions
      OBVIOUS
    <3>1. CASE f \in kept
      <4>1. old.base \in 1..Len(texts)
        BY <1>0, <2>2, <3>1 DEF Pages!Forms
      <4>2. texts[old.base] \in [Fields -> Pages!Versions]
        BY <4>1 DEF PagesTypes, Pages!TypeOK
      <4> QED
        BY <3>1, <4>2
    <3>2. CASE f \notin kept
      BY <1>0, <2>1, <3>2
    <3> QED
      BY <3>1, <3>2
  <2> HIDE DEF text, old
  <2>4. /\ texts' \in Seq([Fields -> Pages!Versions])
        /\ Len(texts') = Len(texts) + 1 /\ Len(texts') \in Pages!Versions
    BY <2>1, <2>3, VersionAdds
  <2>5. undone' \in BOOLEAN
    BY <1>2 DEF Pages!ServeSave, PagesTypes, Pages!TypeOK
  <2>6. /\ save' \in [form : Pages!Forms \cup {Pages!NoForm},
                      reply : Pages!Replies]
        /\ save'.reply = Len(texts) + 1
    BY <2>1, <2>4 DEF PagesTypes, Pages!Replies
  <2>7. /\ form.base \in Int /\ get \in Int /\ saved \in Int
        /\ form.base <= Len(texts') /\ get <= Len(texts')
        /\ save'.reply # Pages!Sent /\ saved <= Len(texts')
    BY <1>0, <2>4, <2>6 DEF PagesTypes, Pages!TypeOK, Pages!Forms
  <2>8. Pages!TypeOK'
    <3>1. /\ save'.form \in Pages!Forms \cup {Pages!NoForm}
          /\ save'.reply \in Pages!Replies
      BY <2>6
    <3>2. /\ copy \in 0..Len(texts') /\ post \in 0..Len(texts')
          /\ saved \in 0..Len(texts') /\ seen \in 0..Len(texts')
          /\ loaded \in 0..Len(texts')
      BY <1>0, <2>4 DEF PagesTypes, Pages!TypeOK
    <3> QED
      BY <2>1, <2>4, <2>5, <3>1, <3>2 DEF PagesTypes, Pages!TypeOK
  <2> QED
    BY <2>1, <2>4, <2>6, <2>7, <2>8 DEF PagesTypes
<1>3. ASSUME NEW v \in 1..Len(texts), Pages!ReceiveLoad(v) PROVE PagesTypes'
  <2>1. /\ copy' = v /\ seen' \in {v, seen} /\ loaded' \in {v, loaded}
        /\ UNCHANGED <<texts, page, post, get, form, since, overtaken, save,
                       saved, undone>>
        /\ reordered' \in BOOLEAN
    BY <1>3 DEF Pages!ReceiveLoad, PagesTypes, Pages!TypeOK
  <2> QED
    BY <1>0, <2>1 DEF PagesTypes, Pages!TypeOK
<1>4. CASE Pages!GoToFeed
  BY <1>0, <1>4 DEF Pages!GoToFeed, PagesTypes, Pages!TypeOK
<1>5. ASSUME NEW told \in 0..saved', Pages!Mount(told), saved' \in 0..Len(texts),
             UNCHANGED <<texts, copy, loaded, reordered, undone>>,
             seen' \in 0..Len(texts),
             save' = Pages!NoSave \/ (save' = save /\ saved' = saved)
      PROVE  PagesTypes'
  <2>1. /\ page' = "post" /\ post' = copy /\ get' = Len(texts)
        /\ form' = Pages!NoForm /\ since' = told /\ UNCHANGED overtaken
    BY <1>5 DEF Pages!Mount
  <2>2. /\ save' \in [form : Pages!Forms \cup {Pages!NoForm},
                      reply : Pages!Replies]
        /\ save'.reply = Pages!Sent =>
               /\ save'.form \in Pages!Forms /\ save'.form.base <= Len(texts')
               /\ save'.form.base # 0 \/ save'.form.touched = Fields
        /\ save'.reply > 0 => saved' <= save'.reply /\ save'.reply <= Len(texts')
    <3>1. CASE save' = Pages!NoSave
      BY <1>5, <3>1 DEF Pages!Replies
    <3>2. CASE save' = save /\ saved' = saved
      BY <1>5, <3>2 DEF PagesTypes
    <3> QED
      BY <1>5, <3>1, <3>2
  <2> QED
    BY <1>0, <1>5, <2>1, <2>2 DEF PagesTypes, Pages!TypeOK
<1>6. CASE Pages!OpenPost
  <2>1. saved \in 0..saved /\ {saved, seen} \subseteq 0..Len(texts)
    BY <1>0 DEF PagesTypes, Pages!TypeOK
  <2> QED
    BY <1>5, <1>6, <2>1 DEF Pages!OpenPost
<1>7. CASE Pages!ReceiveGet
  BY <1>0, <1>7 DEF Pages!ReceiveGet, PagesTypes, Pages!TypeOK
<1>8. CASE Pages!OpenEdit
  <2>1. form' \in Pages!Forms /\ form'.base = copy
    BY <1>0, <1>8 DEF Pages!OpenEdit, PagesTypes, Pages!TypeOK, Pages!Forms
  <2> QED
    BY <1>0, <1>8, <2>1 DEF Pages!OpenEdit, PagesTypes, Pages!TypeOK
<1>9. ASSUME NEW f \in Fields, Pages!Type(f) PROVE PagesTypes'
  <2>1. page = "edit" /\ form \in Pages!Forms
    BY <1>9 DEF Pages!Type, PagesTypes
  <2>2. form' \in Pages!Forms /\ form'.base = form.base
    BY <1>9, <2>1 DEF Pages!Type, Pages!Forms
  <2> QED
    BY <1>9, <2>2 DEF Pages!Type, PagesTypes, Pages!TypeOK
<1>10. CASE Pages!Submit
  BY <1>10 DEF Pages!Submit, PagesTypes, Pages!TypeOK, Pages!Replies
<1>11. CASE Pages!ReceiveSave
  <2>1. /\ save.reply \in Pages!Versions /\ save' = Pages!NoSave
        /\ saved' = save.reply /\ saved' \in 0..Len(texts) /\ saved <= saved'
        /\ seen' \in 0..Len(texts)
        /\ UNCHANGED <<texts, copy, loaded, reordered, undone>>
    BY <1>0, <1>11 DEF Pages!ReceiveSave, PagesTypes, Pages!TypeOK
  <2>2. CASE page = "post"
    BY <1>0, <1>11, <2>1, <2>2
       DEF Pages!ReceiveSave, PagesTypes, Pages!TypeOK, Pages!Replies
  <2>3. CASE page # "post"
    <3>1. Pages!Mount(saved') /\ saved' \in 0..saved'
      BY <1>0, <1>11, <2>1, <2>3 DEF Pages!ReceiveSave
    <3> QED
      BY <1>5, <2>1, <3>1
  <2> QED
    BY <2>2, <2>3
<1>12. CASE Pages!SaveFails
  BY <1>0, <1>12 DEF Pages!SaveFails, PagesTypes, Pages!TypeOK, Pages!Replies
<1>13. CASE UNCHANGED Pages!vars
  BY <1>13 DEF Pages!vars, PagesTypes, Pages!TypeOK
<1> QED
  BY <1>1, <1>2, <1>3, <1>4, <1>6, <1>7, <1>8, <1>9, <1>10, <1>11, <1>12,
     <1>13 DEF Pages!Next
-----------------------------------------------------------------------------
(***************************************************************************)
(* The client: what holds of each part holds of it, whichever part moves.  *)
(***************************************************************************)
ClientInv ==
    /\ part \in {"feed", "follow", "like", "session", "search", "pages",
                "details"}
    /\ FeedTypes /\ DeletedStaysAway
    /\ FollowInv /\ FollowTypes
    /\ LikeInv
    /\ SessionInv
    /\ SearchInv /\ Search!TypeOK
    /\ PagesInv /\ PagesTypes
    /\ DetailInv

all == <<part, vars, follow, like, session, search, pages, details>>

\* A step of the client is one of each of its parts, or leaves it alone.
LEMMA PartsStep ==
    ASSUME [ClientNext]_all
    PROVE  /\ part' = part
           /\ [Next]_vars /\ [Follow!Next]_(Follow!vars) /\ [Like!Next]_(Like!vars)
           /\ [Session!Next]_(Session!vars) /\ [Search!Next]_(Search!vars)
           /\ [Pages!Next]_(Pages!vars) /\ [Detail!Next]_(Detail!vars)
<1>1. /\ UNCHANGED follow => UNCHANGED Follow!vars
      /\ UNCHANGED like => UNCHANGED Like!vars
      /\ UNCHANGED session => UNCHANGED Session!vars
      /\ UNCHANGED search => UNCHANGED Search!vars
      /\ UNCHANGED pages => UNCHANGED Pages!vars
      /\ UNCHANGED details => UNCHANGED Detail!vars
  BY DEF follow, Follow!vars, like, Like!vars, session,
         Session!vars, search, Search!vars, pages, Pages!vars, details,
         Detail!vars
<1>2. CASE UNCHANGED all
  BY <1>1, <1>2 DEF all
<1>3. CASE ClientNext
  BY <1>1, <1>3 DEF ClientNext, Other
<1> QED
  BY <1>2, <1>3

\* Initially every part is as it is initially.
LEMMA ClientInitially == ClientInit => ClientInv
<1> SUFFICES ASSUME ClientInit PROVE ClientInv
  OBVIOUS
<1>1. LikeInv
  BY DEF ClientInit, Like!Init, LikeInv, InStep
<1>2. DeletedStaysAway
  BY DEF ClientInit, Init, DeletedStaysAway, Kept
<1>3. /\ part \in {"feed", "follow", "like", "session", "search", "pages",
                   "details"}
      /\ Init /\ Follow!Init /\ Like!Init
      /\ Session!Init /\ Search!Init /\ Pages!Init /\ Detail!Init
  BY DEF ClientInit
<1> QED
  BY <1>1, <1>2, <1>3, FeedTypesInit, FollowInit, FollowTypesInit, SessionInit,
     SearchInit, SearchTypesInit, PagesInit, PagesTypesInit, DetailInit
     DEF ClientInv

\* Every step keeps what holds of every part.
LEMMA ClientSteps == ClientInv /\ [ClientNext]_all => ClientInv'
<1> SUFFICES ASSUME ClientInv, [ClientNext]_all PROVE ClientInv'
  OBVIOUS
<1>1. /\ part' = part
      /\ [Next]_vars /\ [Follow!Next]_(Follow!vars) /\ [Like!Next]_(Like!vars)
      /\ [Session!Next]_(Session!vars) /\ [Search!Next]_(Search!vars)
      /\ [Pages!Next]_(Pages!vars) /\ [Detail!Next]_(Detail!vars)
  BY PartsStep
<1>2. FeedTypes' /\ DeletedStaysAway'
  <2>1. FeedTypes => DeleteTypes
    BY DEF FeedTypes, TypeOK, DeleteTypes
  <2> QED
    BY <1>1, <2>1, FeedTypesNext, DeletedNext DEF ClientInv
<1>3. FollowInv' /\ FollowTypes' /\ LikeInv'
  BY <1>1, FollowNext, FollowTypesNext, LikeNext DEF ClientInv
<1>4. SessionInv' /\ SearchInv' /\ Search!TypeOK'
  BY <1>1, SessionNext, SearchNext, SearchTypesNext DEF ClientInv
<1>5. PagesInv' /\ PagesTypes' /\ DetailInv'
  BY <1>1, PagesNext, PagesTypesNext, DetailNext DEF ClientInv
<1> QED
  BY <1>1, <1>2, <1>3, <1>4, <1>5 DEF ClientInv

\* The invariants of the parts hold in every reachable state of the client.
THEOREM ClientInvariance == ClientSpec => []ClientInv
  BY ClientInitially, ClientSteps, PTL DEF ClientSpec, all

\* Every reachable state of the client is well typed, whichever part moves.
THEOREM AlwaysTypesOK == ClientSpec => []TypesOK
<1>1. ClientInv => TypesOK
  <2> SUFFICES ASSUME ClientInv PROVE TypesOK
    OBVIOUS
  <2>1. TypeOK /\ Follow!TypeOK /\ Session!TypeOK /\ Search!TypeOK
        /\ Pages!TypeOK
    BY DEF ClientInv, FeedTypes, FollowTypes, SessionInv, PagesTypes
  <2>2. Like!TypeOK
    BY DEF ClientInv, LikeInv, InStep, Like!TypeOK
  <2>3. Detail!TypeOK
    BY DEF ClientInv, DetailInv, DetailTypes, Detail!TypeOK
  <2> QED
    BY <2>1, <2>2, <2>3 DEF ClientInv, TypesOK
<1> QED
  BY <1>1, ClientInvariance, PTL

\* A post whose deletion the user was told is kept nowhere, but for what was on
\* its way.
THEOREM DeletedAlwaysStaysAway == ClientSpec => []DeletedStaysAway
<1>1. ClientInv => DeletedStaysAway
  BY DEF ClientInv
<1> QED
  BY <1>1, ClientInvariance, PTL

\* The list of followed users is what the server has beyond the follows of
\* earlier sessions, whenever nothing is under way, but for overlaps and lost
\* answers; the two entries of the likes tell the same.
THEOREM CopiesAlwaysAgree ==
    ClientSpec => [](AgreesWhenIdle /\ StoredAgree /\ CopiesAgree)
<1>1. ClientInv => AgreesWhenIdle /\ StoredAgree /\ CopiesAgree
  <2> SUFFICES ASSUME ClientInv PROVE AgreesWhenIdle /\ StoredAgree
    BY DEF CopiesAgree
  <2>1. AgreesWhenIdle
    BY DEF ClientInv, FollowInv, AgreesWhenIdle, Follow!AgreesWhenIdle,
           FollowsBeside
  <2>2. StoredAgree
    BY DEF ClientInv, LikeInv, InStep, StoredAgree, Like!StoredAgree
  <2> QED
    BY <2>1, <2>2
<1> QED
  BY <1>1, ClientInvariance, PTL

\* Every window that has handled its events shows the session that is stored,
\* whose name is that of the token's user, or of an earlier one if the login
\* could not learn it.
THEOREM SessionAlwaysAgrees ==
    ClientSpec => [](HeaderAgrees /\ NameIsOfToken /\ SessionAgrees)
<1>1. ClientInv => HeaderAgrees /\ NameIsOfToken /\ SessionAgrees
  BY DEF ClientInv, SessionInv, SessionAgrees
<1> QED
  BY <1>1, ClientInvariance, PTL

\* Nothing but a logout, a 401 to its own request, or to one of another session
\* that was under way when it began, ends a session.
THEOREM SessionAlwaysEndsForAReason == ClientSpec => SessionEndsForAReason
<1> DEFINE Reason == token # 0 /\ token' = 0 =>
                         \/ token \in doubted'
                         \/ \E w \in Windows : Session!Logout(w)
<1>1. SessionInv /\ [Session!Next]_(Session!vars) => [Reason]_(Session!vars)
  <2> SUFFICES ASSUME SessionInv, Session!Next, token # 0, token' = 0,
                      ~ \E w \in Windows : Session!Logout(w)
               PROVE  token \in doubted'
    OBVIOUS
  <2>1. ASSUME NEW w \in Windows, NEW n \in Session!Names,
               Session!SetSession(w, n)
        PROVE  FALSE
    BY <2>1 DEF Session!SetSession, Session!Store
  <2>2. PICK w \in Windows, status \in {"ok", "error", "unauthorized"} :
            Session!ReceiveLoad(w, status)
    BY <2>1 DEF Session!Next, Session!SyncAuth, Session!Submit, Session!Form,
                Session!Issue, Session!Refused, Session!LoadFeed
  <2>3. status = "unauthorized" /\ doubted' = doubted \cup {feedLoad[w]}
    BY <2>2 DEF Session!ReceiveLoad, Session!Expired
  <2>4. feedLoad[w] # token => token \in doubted
    BY <2>2 DEF SessionInv, OthersDoubt, Session!ReceiveLoad
  <2> QED
    BY <2>3, <2>4
<1>2. ClientInv /\ [ClientNext]_all => [Reason]_(Session!vars)
  <2> HIDE DEF Reason
  <2> QED
    BY <1>1, PartsStep DEF ClientInv
<1> QED
  BY <1>2, ClientInvariance, PTL
     DEF ClientSpec, all, SessionEndsForAReason, Session!SessionEndsForAReason

\* What is shown when nothing is under way is what the boxes and the page say,
\* and Next leads at most to the page after the last full one.
THEOREM PageIsAlwaysAsked ==
    ClientSpec => [](ShownIsAsked /\ WithinPages /\ PageIsAsked)
<1>1. ClientInv => ShownIsAsked /\ WithinPages /\ PageIsAsked
  BY DEF ClientInv, SearchInv, AskedOrShown, PageIsAsked, ShownIsAsked,
         Search!ShownIsAsked
<1> QED
  BY <1>1, ClientInvariance, PTL

\* The page of a post, once loaded, shows no less than what had been saved; and a
\* form undoes what was seen before it was opened only if a page of the feed that
\* came late put an older copy into the cache, or if what was seen, on the page
\* of the post or as the answer to an own save, never came into it.
THEOREM EditsAlwaysSurvive ==
    ClientSpec => [](SavedIsShown /\ SeenIsKept /\ EditsSurvive)
<1>1. ClientInv => SavedIsShown /\ SeenIsKept /\ EditsSurvive
  BY DEF ClientInv, PagesInv, AnswersAreNew, EditsSurvive, SavedIsShown,
         Pages!SavedIsShown
<1> QED
  BY <1>1, ClientInvariance, PTL

\* A page whose last request was answered shows its address's post, and one
\* that did not move the comments on its post.
THEOREM DetailsAlwaysMatch ==
    ClientSpec => [](DetailIsOfAddress /\ CommentsOfPost /\ DetailsMatch)
<1>1. ClientInv => DetailIsOfAddress /\ CommentsOfPost /\ DetailsMatch
  BY DEF ClientInv, DetailInv, DetailsMatch
<1> QED
  BY <1>1, ClientInvariance, PTL

\* handleComment: no step takes a comment from the storage.
THEOREM CommentsAlwaysKept == ClientSpec => CommentsKept
<1>1. ClientInv /\ [ClientNext]_all
          => [\A p \in Items : remarks[p] \subseteq remarks'[p]]_(Detail!vars)
  BY PartsStep, DetailNext DEF ClientInv
<1> QED
  BY <1>1, ClientInvariance, PTL
     DEF ClientSpec, all, CommentsKept, Detail!CommentsKept
=============================================================================
