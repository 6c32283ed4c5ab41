------------------------------ MODULE FeedPages -------------------------------
(***************************************************************************)
(* GET /v1/users/feedall read page by page (getAllFeedHandler,             *)
(* PaginatedFeedQuery, GetAllFeed), as the web client does: the same query *)
(* with a growing offset, until a page is short.  Each page is a statement *)
(* of its own, and posts come, go and change between two of them.          *)
(*                                                                         *)
(* created_at is a timestamp(0), so posts of one second are in no order,   *)
(* and each statement may return them in another one.                      *)
(***************************************************************************)
EXTENDS Integers, FiniteSets

CONSTANTS MaxPosts,      \* bound on the ids of posts
          MaxTime,       \* bound on the seconds
          MaxChanges,    \* bound on the deletions and edits
          DefaultLimit,  \* the limit of a query that gives none (20)
          MaxLimit,      \* the largest valid limit (20)
          Limits         \* limits that clients give

Absent == -1     \* a parameter the URL does not have
NotANumber == -2

\* What the constants are taken to be.
Parameters ==
    /\ MaxPosts \in Nat /\ MaxTime \in Nat /\ MaxChanges \in Nat
    /\ DefaultLimit \in 1..MaxLimit /\ MaxLimit \in Nat
    /\ Limits \subseteq Nat \cup {Absent, NotANumber}

VARIABLES now,         \* the second it is
          created,     \* created[p]: created_at, for the posts drawn so far
          live,        \* posts not deleted
          hit,         \* posts whose title or content has the searched word
          changes,     \* deletions and edits so far
          query,       \* the parsed query of the reader
          status,      \* "idle", "reading", "end" or "bad"
          page,        \* the posts of the last page
          seen,        \* history: posts of all its pages
          owed,        \* history: posts that matched all the time since page 1
          gone,        \* history: posts that stopped matching, one each time
          come,        \* history: posts that began to match, one each time
          repeats      \* history: posts on a page that were seen before

table == <<now, created, live, hit, changes>>
reader == <<query, status, page, seen, owed, gone, come, repeats>>
vars == <<now, created, live, hit, changes, query, status, page, seen, owed,
          gone, come, repeats>>

PostIds == 1..MaxPosts
Seconds == 0..MaxTime
Queries == [limit : Limits \cup {DefaultLimit}, offset : Nat,
            sort : {"asc", "desc"}, search : BOOLEAN]

Init ==
    /\ now = 0
    /\ created = [p \in {} |-> 0]
    /\ live = {} /\ hit = {} /\ changes = 0
    /\ query = [limit |-> DefaultLimit, offset |-> 0, sort |-> "desc",
                search |-> FALSE]
    /\ status = "idle"
    /\ page = {} /\ seen = {} /\ owed = {}
    /\ gone = 0 /\ come = 0 /\ repeats = 0
-----------------------------------------------------------------------------
(* The query                                                               *)

\* The rows of the WHERE clause; it has no condition on since and
\* until, which the handler reads and checks.
Matching(q) == IF q.search THEN live \cap hit ELSE live

Before(p, r, sort) ==
    IF sort = "asc" THEN created[p] < created[r] ELSE created[p] > created[r]

\* What ORDER BY, LIMIT and OFFSET may return: B is what is skipped.
Slices(q, skip) ==
    {S \in SUBSET Matching(q) :
        \E B \in SUBSET (Matching(q) \ S) :
            LET After == Matching(q) \ (S \cup B) IN
            /\ Cardinality(B) <= skip /\ Cardinality(S) <= q.limit
            /\ \A p \in S, r \in B : ~Before(p, r, q.sort)
            /\ \A p \in After, r \in S \cup B : ~Before(p, r, q.sort)
            /\ S # {} => Cardinality(B) = skip
            /\ After # {} => Cardinality(B) = skip /\ Cardinality(S) = q.limit}

\* Faulty variant: the offset of a later page is one too large.
Pages_SkipsOne(q) ==
    Slices(q, IF q.offset = 0 THEN 0 ELSE q.offset + 1)

\* Faulty variant: the offset of a later page is one too small.
Pages_Overlap(q) ==
    Slices(q, IF q.offset = 0 THEN 0 ELSE q.offset - 1)

Pages(q) == Slices(q, q.offset)

\* PaginatedFeedQuery.Parse: what the URL does not have keeps its default.
Parse(limit, sort, search) ==
    [limit |-> IF limit = Absent THEN DefaultLimit ELSE limit,
     offset |-> 0, sort |-> sort, search |-> search]

\* Atoi, and the limits Validate puts on the query.
Valid(q) == q.limit # NotANumber /\ q.limit \in 1..MaxLimit

\* A post that shares its second with no other one.
Untied(p) ==
    \A r \in DOMAIN created : created[r] = created[p] => r = p

Show(S) ==
    /\ page' = S
    /\ seen' = seen \cup S
    /\ status' = IF Cardinality(S) < query'.limit THEN "end" ELSE "reading"
    /\ repeats' = repeats + Cardinality({p \in S \cap seen : Untied(p)})

\* The first page: a query with its parameters, or 400.
Open(q) ==
    /\ status \in {"idle", "bad"}
    /\ IF Valid(q)
       THEN /\ query' = q
            /\ \E S \in Pages(q) : Show(S)
            /\ owed' = Matching(q)
       ELSE /\ status' = "bad"
            /\ UNCHANGED <<query, page, seen, repeats, owed>>
    /\ UNCHANGED <<table, gone, come>>

\* goToNextPage, while the last page was full.
NextPage ==
    /\ status = "reading"
    /\ query' = [query EXCEPT !.offset = @ + query.limit]
    /\ \E S \in Pages(query') : Show(S)
    /\ UNCHANGED <<table, owed, gone, come>>
-----------------------------------------------------------------------------
(* What others do meanwhile                                                *)

\* A change of what matches, as the reader's history records it.
Record(before, after) ==
    IF status = "reading"
    THEN /\ owed' = owed \cap after
         /\ gone' = gone + Cardinality(before \ after)
         /\ come' = come + Cardinality(after \ before)
    ELSE UNCHANGED <<owed, gone, come>>

Changed ==
    /\ Record(IF query.search THEN live \cap hit ELSE live,
              IF query.search THEN live' \cap hit' ELSE live')
    /\ UNCHANGED <<query, status, page, seen, repeats>>

Create(hits) ==
    LET p == Cardinality(DOMAIN created) + 1 IN
    /\ p \in PostIds
    /\ created' = [r \in 1..p |-> IF r = p THEN now ELSE created[r]]
    /\ live' = live \cup {p}
    /\ hit' = IF hits THEN hit \cup {p} ELSE hit
    /\ UNCHANGED <<now, changes>>
    /\ Changed

Delete(p) ==
    /\ changes < MaxChanges
    /\ changes' = changes + 1
    /\ live' = live \ {p}
    /\ UNCHANGED <<now, created, hit>>
    /\ Changed

\* A PATCH of the title or content, which keeps created_at.
Edit(p) ==
    /\ changes < MaxChanges
    /\ changes' = changes + 1
    /\ hit' = IF p \in hit THEN hit \ {p} ELSE hit \cup {p}
    /\ UNCHANGED <<now, created, live>>
    /\ Changed

Tick ==
    /\ now < MaxTime /\ now' = now + 1
    /\ UNCHANGED <<created, live, hit, changes, reader>>

Next ==
    \/ \E l \in Limits, o \in {"asc", "desc"}, b \in BOOLEAN :
           Open(Parse(l, o, b))
    \/ NextPage
    \/ \E b \in BOOLEAN : Create(b)
    \/ \E p \in live : Delete(p) \/ Edit(p)
    \/ Tick

Spec == Init /\ [][Next]_vars
-----------------------------------------------------------------------------
(* Properties                                                              *)

TypeOK ==
    /\ now \in Seconds
    /\ \E n \in 0..MaxPosts : created \in [1..n -> Seconds]
    /\ live \cup hit \subseteq DOMAIN created
    /\ changes \in 0..MaxChanges
    /\ query \in Queries
    /\ status \in {"idle", "reading", "end", "bad"}
    /\ page \subseteq seen /\ seen \subseteq DOMAIN created
    /\ Cardinality(page) <= MaxLimit
    /\ owed \subseteq DOMAIN created
    /\ {gone, come, repeats} \subseteq Nat

\* A reader who reaches the end has missed no more of the posts that were
\* there all the time than posts left meanwhile: each deletion, or edit, moves
\* one unread post before the next offset.  Posts of one second are excepted.
MissedBound ==
    status = "end" => Cardinality({p \in owed \ seen : Untied(p)}) <= gone

\* A post is shown again at most once for each post that came meanwhile.
RepeatsBound == repeats <= come
=============================================================================
