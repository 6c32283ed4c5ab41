---------------------------- MODULE Registration ----------------------------
(***************************************************************************)
(* Account registration and activation: the handlers of cmd/api/auth.go    *)
(* and cmd/api/users.go, the transactions of internal/store/users.go that  *)
(* they run, the retry loop of internal/mailer/sendgrid.go, and the        *)
(* failures these meet (a request cancelled by its client, a failing       *)
(* statement, a lost acknowledgement, a process that dies).                *)
(*                                                                         *)
(* A registration r in Regs stands for one POST /authentication/user, for  *)
(* the account it inserts (ids come from a sequence, never reused) and for *)
(* the invitation token it draws (a fresh UUID).  An activation a in Acts  *)
(* stands for one PUT /users/activate/{token}.                             *)
(*                                                                         *)
(* PostgreSQL is external.  A transaction is a process that executes one   *)
(* statement per step under READ COMMITTED: it sees the committed tables,  *)
(* tx[p] holds the rows it wrote, a row it wrote is locked until it ends,  *)
(* and its writes reach the tables in the commit step only.                *)
(***************************************************************************)
EXTENDS Naturals, FiniteSets

CONSTANTS Regs,              \* registration requests
          Acts,              \* activation requests
          NoReg,             \* target of an activation that has not started
          EmailOf, NameOf,   \* the keys each registration asks for
          MaxRetries,        \* attempts of SendGridMailer.Send
          Faults             \* which failures the environment may produce

Procs == Regs \cup Acts

Conflict(r, s) == EmailOf[r] = EmailOf[s] \/ NameOf[r] = NameOf[s]

FaultKinds == {"cancel", "db", "lostack", "crash"}

ASSUME ProcsAssumption == Regs \cap Acts = {} /\ NoReg \notin Regs
ASSUME RetriesAssumption == MaxRetries \in Nat \ {0}
ASSUME FaultsAssumption == Faults \subseteq FaultKinds

VARIABLES users,       \* committed rows of table users
          active,      \* those of them with is_active
          invites,     \* accounts with a committed row in user_invitations
          expired,     \* invitations whose expiry has passed
          posted,      \* accounts with a row in posts (foreign key fk_user)
          pc,          \* pc[p]: the next step of request p
          tx,          \* tx[p]: rows written by p's open transaction
          attempt,     \* attempt[r]: failed calls of the mail service
          known,       \* tokens that reached a mailbox or a client
          cancelled,   \* registrations whose request context is done
          target,      \* target[a]: the account whose token a carries
          reply        \* reply[p]: what p answered

tables == <<users, active, invites>>
vars == <<users, active, invites, expired, posted, pc, tx, attempt, known,
          cancelled, target, reply>>

CreateSteps == {"insert_user", "insert_invite", "commit_create"}
MailSteps == {"send", "backoff", "compensate"}
DeleteSteps == {"delete_user", "delete_invites", "commit_delete"}
ActivateSteps == {"read_invite", "update_user", "clean_invites",
                  "commit_activate"}
TxSteps == CreateSteps \cup DeleteSteps \cup ActivateSteps
Steps == TxSteps \cup MailSteps \cup {"idle", "done"}
Replies == {"none", "created", "bad_request", "error", "activated",
            "not_found", "lost"}
Rows == {"user", "invitation"}

TypeOK ==
    /\ users \subseteq Regs
    /\ active \subseteq users
    /\ invites \subseteq users
    /\ expired \subseteq Regs
    /\ posted \subseteq users
    /\ pc \in [Procs -> Steps]
    /\ tx \in [Procs -> SUBSET Rows]
    /\ attempt \in [Regs -> 0..MaxRetries]
    /\ known \subseteq Regs
    /\ cancelled \subseteq Regs
    /\ target \in [Acts -> Regs \cup {NoReg}]
    /\ reply \in [Procs -> Replies]

Init ==
    /\ users = {} /\ active = {} /\ invites = {}
    /\ expired = {} /\ posted = {}
    /\ pc = [p \in Procs |-> "idle"]
    /\ tx = [p \in Procs |-> {}]
    /\ attempt = [r \in Regs |-> 0]
    /\ known = {} /\ cancelled = {}
    /\ target = [a \in Acts |-> NoReg]
    /\ reply = [p \in Procs |-> "none"]
-----------------------------------------------------------------------------
(* Transactions                                                            *)

\* The account whose rows p works on.
Account(p) == IF p \in Regs THEN p ELSE target[p]

\* Another open transaction has written this row of u.
Locked(p, u, row) ==
    \E q \in Procs \ {p} : Account(q) = u /\ row \in tx[q]

Goto(p, from, to) == pc[p] = from /\ pc' = [pc EXCEPT ![p] = to]

Wrote(p, rows) == tx' = [tx EXCEPT ![p] = @ \cup rows]

\* p answers; its transaction, if it had one, is over.
Finish(p, answer) ==
    /\ pc' = [pc EXCEPT ![p] = "done"]
    /\ tx' = [tx EXCEPT ![p] = {}]
    /\ reply' = [reply EXCEPT ![p] = answer]

InFlight == {p \in Procs : pc[p] \notin {"idle", "done"}}

ContextAlive(p) == p \notin cancelled

\* What the commit of each of the three transactions does to the tables.
ApplyCreate(r) ==
    /\ users' = users \cup {r}
    /\ invites' = invites \cup {r}
    /\ UNCHANGED active

\* Faulty variant: the update is an upsert of the row read before.
ApplyActivate_Upsert(a) ==
    /\ users' = users \cup {target[a]}
    /\ active' = active \cup {target[a]}
    /\ invites' = invites \ {target[a]}

ApplyActivate(a) ==
    /\ active' = IF "user" \in tx[a] THEN active \cup {target[a]} ELSE active
    /\ invites' = IF "invitation" \in tx[a] THEN invites \ {target[a]}
                                            ELSE invites
    /\ UNCHANGED users

ApplyDelete(r) ==
    /\ users' = users \ {r}
    /\ active' = active \ {r}
    /\ invites' = IF "invitation" \in tx[r] THEN invites \ {r} ELSE invites
-----------------------------------------------------------------------------
(* registerUserHandler: CreateAndInvite                                    *)

Register(r) ==
    /\ Goto(r, "idle", "insert_user")
    /\ UNCHANGED <<tables, expired, posted, tx, attempt, known, cancelled,
                   target, reply>>

\* UserStore.Create.  The unique indexes make the insertion wait for a
\* transaction that has inserted the same key, and fail on a committed one.
InsertUser(r) ==
    /\ pc[r] = "insert_user" /\ ContextAlive(r)
    /\ \A s \in Regs \ {r} : Conflict(r, s) =>
           pc[s] \notin {"insert_invite", "commit_create"}
    /\ \/ /\ \A s \in users : ~Conflict(r, s)
          /\ Goto(r, "insert_user", "insert_invite")
          /\ Wrote(r, {"user"})
          /\ UNCHANGED reply
       \/ /\ \E s \in users : Conflict(r, s)
          /\ Finish(r, "bad_request")
    /\ UNCHANGED <<tables, expired, posted, attempt, known, cancelled, target>>

InsertInvite(r) ==
    /\ ContextAlive(r)
    /\ Goto(r, "insert_invite", "commit_create")
    /\ Wrote(r, {"invitation"})
    /\ UNCHANGED <<tables, expired, posted, attempt, known, cancelled, target,
                   reply>>

\* Faulty variant: the function returns nil without committing.
CommitCreate_NoCommit(r) ==
    /\ ContextAlive(r)
    /\ Goto(r, "commit_create", "send")
    /\ tx' = [tx EXCEPT ![r] = {}]
    /\ UNCHANGED <<tables, expired, posted, attempt, known, cancelled, target,
                   reply>>

CommitCreate(r) ==
    /\ ContextAlive(r)
    /\ Goto(r, "commit_create", "send")
    /\ ApplyCreate(r)
    /\ tx' = [tx EXCEPT ![r] = {}]
    /\ UNCHANGED <<expired, posted, attempt, known, cancelled, target, reply>>
-----------------------------------------------------------------------------
(* registerUserHandler: the mail and its compensation                      *)

\* Send builds its message from a template that is part of the binary, with
\* the fields the handler gives it: the returns at which that fails are not
\* reached.  The service accepts the message, whatever the status code it
\* answers: in sandbox mode or with a 4xx nothing is delivered.  The handler
\* answers 201 with the token in the body, which a client that is gone never
\* reads.
SendAccepted(r) ==
    /\ pc[r] = "send"
    /\ \E delivered \in BOOLEAN :
           known' = IF delivered \/ ContextAlive(r) THEN known \cup {r}
                                                    ELSE known
    /\ Finish(r, "created")
    /\ UNCHANGED <<tables, expired, posted, attempt, cancelled, target>>

\* The call returns an error.  The message may have been sent all the same:
\* what was lost may be the answer.
SendFails(r) ==
    /\ Goto(r, "send", "backoff")
    /\ attempt' = [attempt EXCEPT ![r] = @ + 1]
    /\ \E delivered \in BOOLEAN :
           known' = IF delivered THEN known \cup {r} ELSE known
    /\ UNCHANGED <<tables, expired, posted, tx, cancelled, target, reply>>

\* Faulty variant: i <= maxRetries.
WakeUp_OneTooMany(r) ==
    /\ Goto(r, "backoff",
            IF attempt[r] <= MaxRetries THEN "send" ELSE "compensate")
    /\ UNCHANGED <<tables, expired, posted, tx, attempt, known, cancelled,
                   target, reply>>

\* The back-off ends: another attempt, or Send returns its error.
WakeUp(r) ==
    /\ Goto(r, "backoff",
            IF attempt[r] < MaxRetries THEN "send" ELSE "compensate")
    /\ UNCHANGED <<tables, expired, posted, tx, attempt, known, cancelled,
                   target, reply>>

\* Faulty variant: the handler answers 500 and forgets to delete.
Compensate_Skipped(r) ==
    /\ pc[r] = "compensate"
    /\ Finish(r, "error")
    /\ UNCHANGED <<tables, expired, posted, attempt, known, cancelled, target>>

\* UserStore.Delete with the request's own context: BeginTx fails when it is
\* done, which the handler logs before it answers 500.
Compensate(r) ==
    /\ pc[r] = "compensate"
    /\ \/ /\ ContextAlive(r)
          /\ Goto(r, "compensate", "delete_user")
          /\ UNCHANGED <<tx, reply>>
       \/ /\ ~ContextAlive(r)
          /\ Finish(r, "error")
    /\ UNCHANGED <<tables, expired, posted, attempt, known, cancelled, target>>

\* DELETE FROM users WHERE id = $1 takes the row whatever its is_active, and
\* fails on the foreign key of posts.
DeleteUser(r) ==
    /\ pc[r] = "delete_user" /\ ContextAlive(r)
    /\ ~Locked(r, r, "user")
    /\ \/ /\ r \notin posted
          /\ Goto(r, "delete_user", "delete_invites")
          /\ Wrote(r, IF r \in users THEN {"user"} ELSE {})
          /\ UNCHANGED reply
       \/ /\ r \in posted
          /\ Finish(r, "error")
    /\ UNCHANGED <<tables, expired, posted, attempt, known, cancelled, target>>

DeleteInvites(r) ==
    /\ ContextAlive(r)
    /\ ~Locked(r, r, "invitation")
    /\ Goto(r, "delete_invites", "commit_delete")
    /\ Wrote(r, IF r \in invites THEN {"invitation"} ELSE {})
    /\ UNCHANGED <<tables, expired, posted, attempt, known, cancelled, target,
                   reply>>

CommitDelete(r) ==
    /\ pc[r] = "commit_delete" /\ ContextAlive(r)
    /\ ApplyDelete(r)
    /\ Finish(r, "error")
    /\ UNCHANGED <<expired, posted, attempt, known, cancelled, target>>
-----------------------------------------------------------------------------
(* activateUserHandler: UserStore.Activate                                 *)

Activate(a, r) ==
    /\ r \in known
    /\ Goto(a, "idle", "read_invite")
    /\ target' = [target EXCEPT ![a] = r]
    /\ UNCHANGED <<tables, expired, posted, tx, attempt, known, cancelled,
                   reply>>

\* getUserFromInvitation: the join of users and user_invitations, unlocked.
Invited(r) == r \in users /\ r \in invites /\ r \notin expired

ReadInvite(a) ==
    /\ pc[a] = "read_invite"
    /\ \/ /\ Invited(target[a])
          /\ Goto(a, "read_invite", "update_user")
          /\ UNCHANGED <<tx, reply>>
       \/ /\ ~Invited(target[a])
          /\ Finish(a, "not_found")
    /\ UNCHANGED <<tables, expired, posted, attempt, known, cancelled, target>>

\* Faulty variant: is_active is set on the struct and the row not updated.
UpdateUser_NotSaved(a) ==
    /\ Goto(a, "update_user", "clean_invites")
    /\ UNCHANGED <<tables, expired, posted, tx, attempt, known, cancelled,
                   target, reply>>

\* UPDATE users ... WHERE id = $4: no row is no error, and nobody looks at
\* how many rows were affected.
UpdateUser(a) ==
    /\ Goto(a, "update_user", "clean_invites")
    /\ ~Locked(a, target[a], "user")
    /\ Wrote(a, IF target[a] \in users THEN {"user"} ELSE {})
    /\ UNCHANGED <<tables, expired, posted, attempt, known, cancelled, target,
                   reply>>

\* Faulty variant: deleteUserInvitations is not called.
CleanInvites_Forgotten(a) ==
    /\ Goto(a, "clean_invites", "commit_activate")
    /\ UNCHANGED <<tables, expired, posted, tx, attempt, known, cancelled,
                   target, reply>>

CleanInvites(a) ==
    /\ Goto(a, "clean_invites", "commit_activate")
    /\ ~Locked(a, target[a], "invitation")
    /\ Wrote(a, IF target[a] \in invites THEN {"invitation"} ELSE {})
    /\ UNCHANGED <<tables, expired, posted, attempt, known, cancelled, target,
                   reply>>

CommitActivate(a) ==
    /\ pc[a] = "commit_activate"
    /\ ApplyActivate(a)
    /\ Finish(a, "activated")
    /\ UNCHANGED <<expired, posted, attempt, known, cancelled, target>>
-----------------------------------------------------------------------------
(* The rest of the API, time, and failures                                 *)

\* createPostHandler for an active user: the insertion locks the row of its
\* author against deletion and fails on the foreign key when it is gone.
Post(u) ==
    /\ u \in active \ posted
    /\ "user" \in tx[u] => pc[u] \notin DeleteSteps
    /\ posted' = posted \cup {u}
    /\ UNCHANGED <<tables, expired, pc, tx, attempt, known, cancelled, target,
                   reply>>

\* config.mail.exp is three days: no registration is still running by then.
Expire(r) ==
    /\ pc[r] = "done" /\ r \notin expired
    /\ expired' = expired \cup {r}
    /\ UNCHANGED <<tables, posted, pc, tx, attempt, known, cancelled, target,
                   reply>>

\* The client of a registration disconnects, or middleware.Timeout strikes.
Cancel(r) ==
    /\ "cancel" \in Faults
    /\ r \in InFlight \ cancelled
    /\ cancelled' = cancelled \cup {r}
    /\ UNCHANGED <<tables, expired, posted, pc, tx, attempt, known, target,
                   reply>>

\* withTx: any statement (or the commit) fails and the transaction is rolled
\* back.  It is what happens to a transaction whose context is done.
TxFails(p) ==
    /\ pc[p] \in TxSteps
    /\ "db" \in Faults \/ ~ContextAlive(p)
    /\ Finish(p, "error")
    /\ UNCHANGED <<tables, expired, posted, attempt, known, cancelled, target>>

\* The commit takes effect and its acknowledgement is lost: withTx returns an
\* error for a transaction that happened.
CommitUnacknowledged(p) ==
    /\ "lostack" \in Faults /\ ContextAlive(p)
    /\ \/ pc[p] = "commit_create" /\ ApplyCreate(p)
       \/ pc[p] = "commit_activate" /\ ApplyActivate(p)
    /\ Finish(p, "error")
    /\ UNCHANGED <<expired, posted, attempt, known, cancelled, target>>

\* The process dies, or run returns after the five seconds of Shutdown:
\* requests in flight are gone, open transactions are rolled back.
Crash ==
    /\ "crash" \in Faults /\ InFlight # {}
    /\ pc' = [p \in Procs |-> IF p \in InFlight THEN "done" ELSE pc[p]]
    /\ tx' = [p \in Procs |-> {}]
    /\ reply' = [p \in Procs |-> IF p \in InFlight THEN "lost" ELSE reply[p]]
    /\ UNCHANGED <<tables, expired, posted, attempt, known, cancelled, target>>
-----------------------------------------------------------------------------
CreateStep(r) ==
    Register(r) \/ InsertUser(r) \/ InsertInvite(r) \/ CommitCreate(r)

MailStep(r) == SendAccepted(r) \/ SendFails(r) \/ WakeUp(r) \/ Compensate(r)

\* Faulty variant: Delete clears user_invitations before users.
DeleteStep_InvitesFirst(r) ==
    \/ /\ Goto(r, "delete_user", "delete_invites")
       /\ ~Locked(r, r, "invitation")
       /\ Wrote(r, IF r \in invites THEN {"invitation"} ELSE {})
       /\ UNCHANGED <<tables, expired, posted, attempt, known, cancelled,
                      target, reply>>
    \/ /\ Goto(r, "delete_invites", "commit_delete")
       /\ ~Locked(r, r, "user")
       /\ Wrote(r, {"user"})
       /\ UNCHANGED <<tables, expired, posted, attempt, known, cancelled,
                      target, reply>>
    \/ CommitDelete(r)

DeleteStep(r) == DeleteUser(r) \/ DeleteInvites(r) \/ CommitDelete(r)

ActivateStep(a) ==
    ReadInvite(a) \/ UpdateUser(a) \/ CleanInvites(a) \/ CommitActivate(a)

Next ==
    \/ \E r \in Regs : CreateStep(r) \/ MailStep(r) \/ DeleteStep(r)
    \/ \E a \in Acts : ActivateStep(a) \/ \E r \in Regs : Activate(a, r)
    \/ \E r \in Regs : Post(r) \/ Expire(r) \/ Cancel(r)
    \/ \E p \in Procs : TxFails(p) \/ CommitUnacknowledged(p)
    \/ Crash

Spec == Init /\ [][Next]_vars

\* A request that has started keeps running: the Go scheduler runs its
\* goroutine, and a statement is executed once no lock is in its way.
Running(p) ==
    \/ /\ p \in Regs /\ pc[p] # "idle"
       /\ CreateStep(p) \/ MailStep(p) \/ DeleteStep(p)
    \/ p \in Acts /\ ActivateStep(p)
    \/ ~ContextAlive(p) /\ TxFails(p)

Fairness == \A p \in Procs : WF_vars(Running(p))

FairSpec == Spec /\ Fairness
-----------------------------------------------------------------------------
(* Properties                                                              *)

\* An account waits for activation exactly as long as its invitation exists:
\* CreateAndInvite and Activate change both tables or neither, and no overlap
\* of Activate with the compensating Delete separates them.  Otherwise an
\* account could never be activated, or be activated a second time.
InvitationsMatch == invites = users \ active

\* A client that was answered 201 has its account, whatever happens later to
\* other registrations and to the process.
CreatedIsKept == \A r \in Regs : reply[r] = "created" => r \in users

\* The saga: a registration that answered 500 leaves no account behind, but
\* for the ways out the code has: its context was done before the Delete, its
\* user had activated the account and posted, or a transaction failed.
FailureLeavesNoAccount ==
    \A r \in Regs : reply[r] = "error" /\ r \in users =>
        \/ r \in cancelled \cup posted
        \/ {"db", "lostack"} \cap Faults # {}

\* Each account lives as Accounts says: created pending while nobody has its
\* keys, activated at most once, removed for good.
Status(u) ==
    IF u \in active THEN "active"
    ELSE IF u \in users THEN "pending"
    ELSE IF attempt[u] > 0 THEN "removed" ELSE "absent"

Abstract == INSTANCE Accounts WITH
                Ids <- Regs, account <- [u \in Regs |-> Status(u)]

AccountsSpec == Abstract!Spec

\* A request that has started is answered, whichever rows other requests
\* hold: Activate and Delete lock users before user_invitations.
EveryRequestAnswered ==
    \A p \in Procs : p \in InFlight ~> pc[p] = "done"

\* When no statement fails, an activation that found its invitation leaves
\* the account active, or the registration has removed it.
ActivationSettles ==
    \A a \in Acts : pc[a] = "update_user" ~>
        pc[a] = "done" /\ target[a] \in active \cup (Regs \ users)

\* "204 User activated" (cmd/api/users.go:165): the account of an activation
\* that answered so is active.
ActivatedIsActive ==
    \A a \in Acts : reply[a] = "activated" => target[a] \in active

\* "rollback user creation if email fails" (cmd/api/auth.go:109): once every
\* attempt to send the mail has failed and the handler has answered, the
\* account is gone.
FailedMailRollsBack ==
    \A r \in Regs : reply[r] = "error" /\ attempt[r] = MaxRetries
                        => r \notin users
=============================================================================
