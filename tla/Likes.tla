-------------------------------- MODULE Likes ---------------------------------
(***************************************************************************)
(* LikeButton of web/src/pages.tsx.  Likes live in the local storage of    *)
(* the browser, in a list and a map of counts.  Each button on the screen  *)
(* has copies of both, of all items, made when it was mounted, and writes  *)
(* its copies back when it is clicked.                                     *)
(***************************************************************************)
EXTENDS Integers, FiniteSets

CONSTANTS Items,       \* posts and comments
          Buttons,     \* places on the screen for a button
          NoItem

\* What the constants are taken to be.
Parameters == NoItem \notin Items

VARIABLES liked,       \* the list in local storage
          counts,      \* the map of counts in local storage
          item,        \* item[b]: the item of button b, NoItem if not mounted
          likedPosts,  \* likedPosts[b], likeCounts[b]: the copies of b
          likeCounts

vars == <<liked, counts, item, likedPosts, likeCounts>>

TypeOK ==
    /\ liked \subseteq Items
    /\ counts \in [Items -> 0..1]
    /\ item \in [Buttons -> Items \cup {NoItem}]
    /\ likedPosts \in [Buttons -> SUBSET Items]
    /\ likeCounts \in [Buttons -> [Items -> 0..1]]

Init ==
    /\ liked = {}
    /\ counts = [i \in Items |-> 0]
    /\ item = [b \in Buttons |-> NoItem]
    /\ likedPosts = [b \in Buttons |-> {}]
    /\ likeCounts = [b \in Buttons |-> [i \in Items |-> 0]]

\* A page shows an item once.
Mount(b, i) ==
    /\ item[b] = NoItem /\ \A c \in Buttons : item[c] # i
    /\ item' = [item EXCEPT ![b] = i]
    /\ likedPosts' = [likedPosts EXCEPT ![b] = liked]
    /\ likeCounts' = [likeCounts EXCEPT ![b] = counts]
    /\ UNCHANGED <<liked, counts>>

Unmount(b) ==
    /\ item' = [item EXCEPT ![b] = NoItem]
    /\ UNCHANGED <<liked, counts, likedPosts, likeCounts>>

Flipped(S, i) == IF i \in S THEN S \ {i} ELSE S \cup {i}

\* Faulty variant: the counts are read again, the list is not.
NextCounts_Reread(b) ==
    LET n == counts[item[b]] + (IF item[b] \in likedPosts[b] THEN -1 ELSE 1)
    IN  [counts EXCEPT ![item[b]] = IF n > 0 THEN n ELSE 0]

NextCounts(b) ==
    LET n == likeCounts[b][item[b]]
                 + (IF item[b] \in likedPosts[b] THEN -1 ELSE 1)
    IN  [likeCounts[b] EXCEPT ![item[b]] = IF n > 0 THEN n ELSE 0]

\* toggleLike: the copies of this button change and replace what is stored.
ToggleLike(b) ==
    /\ item[b] # NoItem
    /\ liked' = Flipped(likedPosts[b], item[b])
    /\ counts' = NextCounts(b)
    /\ likedPosts' = [likedPosts EXCEPT ![b] = liked']
    /\ likeCounts' = [likeCounts EXCEPT ![b] = counts']
    /\ UNCHANGED item

Next ==
    \E b \in Buttons :
        Unmount(b) \/ ToggleLike(b) \/ \E i \in Items : Mount(b, i)

Spec == Init /\ [][Next]_vars
-----------------------------------------------------------------------------
(* Properties                                                              *)

\* The list and the counts, two entries of the storage, tell the same: an item
\* counts one like exactly if it is in the list, whatever buttons wrote last.
StoredAgree == \A i \in Items : counts[i] = 1 <=> i \in liked
=============================================================================
