------------------------- MODULE Registration_proofs -------------------------
(***************************************************************************)
(* The inductive invariant of Registration and the theorems drawn from it, *)
(* for any number of requests, any keys, any set of faults.                *)
(***************************************************************************)
EXTENDS Registration, TLAPS

(***************************************************************************)
(* The inductive invariant, in five parts.                                 *)
(***************************************************************************)
\* Activations run the steps of an activation, registrations the others.
Roles ==
    /\ \A a \in Acts : pc[a] \in ActivateSteps \cup {"idle", "done"}
    /\ \A r \in Regs : pc[r] \notin ActivateSteps

\* Before its commit nobody can have seen a registration.
Fresh ==
    \A r \in Regs : pc[r] \in {"idle"} \cup CreateSteps =>
        r \notin users /\ r \notin known /\ attempt[r] = 0

\* After it, only the registration itself removes its account.
Existing == \A r \in Regs : pc[r] \in MailSteps \cup DeleteSteps => r \in users

Attempts ==
    \A r \in Regs :
        /\ pc[r] = "send" => attempt[r] < MaxRetries
        /\ pc[r] \in {"backoff", "compensate"} \cup DeleteSteps
               => attempt[r] > 0

Targets == \A a \in Acts : pc[a] # "idle" => target[a] \in known

\* What an open transaction has written, and that it still is in the tables.
Writes ==
    /\ \A p \in Procs : tx[p] # {} =>
           pc[p] \in {"insert_invite", "commit_create", "delete_invites",
                      "commit_delete", "clean_invites", "commit_activate"}
    /\ \A r \in Regs : pc[r] \in {"delete_invites", "commit_delete"} =>
           "user" \in tx[r] /\ r \notin posted
    /\ \A r \in Regs : pc[r] = "commit_delete" =>
           ("invitation" \in tx[r] <=> r \in invites)
    /\ \A a \in Acts : pc[a] \in {"clean_invites", "commit_activate"} =>
           ("user" \in tx[a] <=> target[a] \in users)
    /\ \A a \in Acts : pc[a] = "commit_activate" =>
           ("invitation" \in tx[a] <=> target[a] \in invites)
    /\ \A p \in Procs :
           pc[p] \in {"insert_invite", "delete_invites", "clean_invites"} =>
               "invitation" \notin tx[p]

\* The lock of a row of users has one holder.
Exclusive ==
    \A p, q \in Procs : p # q /\ "user" \in tx[p] /\ "user" \in tx[q]
                            => Account(p) # Account(q)

Answered == \A p \in Procs : reply[p] # "none" <=> pc[p] = "done"

\* Accounts that hold their keys: committed, or inserted and not committed.
Holders ==
    users \cup {r \in Regs : pc[r] \in {"insert_invite", "commit_create"}}

KeysUnique == \A r, s \in Holders : r # s => ~Conflict(r, s)

Shape == TypeOK /\ Roles /\ Answered
Lives == Fresh /\ Existing /\ Attempts /\ Targets
Locks == Writes /\ Exclusive
Outcomes == InvitationsMatch /\ CreatedIsKept /\ FailureLeavesNoAccount

IInv == Shape /\ Lives /\ Locks /\ KeysUnique /\ Outcomes
-----------------------------------------------------------------------------
(* The vocabulary of the actions, expanded everywhere below.               *)

USE DEF Procs, CreateSteps, MailSteps, DeleteSteps, ActivateSteps, TxSteps,
        Steps, Replies, Rows, tables, Goto, Wrote, Finish

\* The invariant holds initially: nobody has asked for anything.
LEMMA InitIInv == Init => IInv
<1> SUFFICES ASSUME Init PROVE IInv
  OBVIOUS
<1>1. Shape
  BY ProcsAssumption, RetriesAssumption
     DEF Init, Shape, TypeOK, Roles, Answered
<1>2. Lives
  BY ProcsAssumption DEF Init, Lives, Fresh, Existing, Attempts, Targets
<1>3. Locks
  BY DEF Init, Locks, Writes, Exclusive
<1>4. KeysUnique
  BY DEF Init, KeysUnique, Holders
<1>5. Outcomes
  BY DEF Init, Outcomes, InvitationsMatch, CreatedIsKept,
         FailureLeavesNoAccount
<1> QED
  BY <1>1, <1>2, <1>3, <1>4, <1>5 DEF IInv

\* Starting a registration changes its step only.
LEMMA RegisterPreserves ==
    ASSUME IInv, NEW r \in Regs, Register(r)
    PROVE  IInv'
<1>1. Shape'
  BY ProcsAssumption DEF IInv, Shape, TypeOK, Roles, Answered, Register
<1>2. Lives'
  BY ProcsAssumption DEF IInv, Lives, Fresh, Existing, Attempts, Targets,
          Register
<1>3. Locks'
  BY DEF IInv, Locks, Writes, Exclusive, Account, Register
<1>4. KeysUnique'
  BY DEF IInv, KeysUnique, Holders, Register
<1>5. Outcomes'
  BY DEF IInv, Outcomes, InvitationsMatch, CreatedIsKept,
          FailureLeavesNoAccount, Register
<1> QED
  BY <1>1, <1>2, <1>3, <1>4, <1>5 DEF IInv

\* The check of the unique keys keeps them unique among holders.
LEMMA InsertUserPreserves ==
    ASSUME IInv, NEW r \in Regs, InsertUser(r)
    PROVE  IInv'
<1>1. Shape'
  BY DEF IInv, Shape, TypeOK, Roles, Answered, InsertUser
<1>2. Lives'
  BY DEF IInv, Lives, Fresh, Existing, Attempts, Targets, Shape, TypeOK,
          InsertUser
<1>3. Locks'
  BY DEF IInv, Locks, Writes, Exclusive, Shape, Lives, TypeOK, Fresh, Targets,
          Account, InsertUser
<1>4. KeysUnique'
  BY DEF IInv, KeysUnique, Shape, TypeOK, Holders, Conflict, InsertUser
<1>5. Outcomes'
  BY DEF IInv, Outcomes, InvitationsMatch, CreatedIsKept,
          FailureLeavesNoAccount, Shape, TypeOK, InsertUser
<1> QED
  BY <1>1, <1>2, <1>3, <1>4, <1>5 DEF IInv

\* Inserting the invitation writes a row nobody else can see.
LEMMA InsertInvitePreserves ==
    ASSUME IInv, NEW r \in Regs, InsertInvite(r)
    PROVE  IInv'
<1>1. Shape'
  BY DEF IInv, Shape, TypeOK, Roles, Answered, InsertInvite
<1>2. Lives'
  BY DEF IInv, Lives, Fresh, Existing, Attempts, Targets, InsertInvite
<1>3. Locks'
  BY DEF IInv, Locks, Writes, Exclusive, Account, Shape, TypeOK, InsertInvite
<1>4. KeysUnique'
  BY DEF IInv, KeysUnique, Holders, InsertInvite
<1>5. Outcomes'
  BY DEF IInv, Outcomes, InvitationsMatch, CreatedIsKept,
          FailureLeavesNoAccount, InsertInvite
<1> QED
  BY <1>1, <1>2, <1>3, <1>4, <1>5 DEF IInv

\* The commit adds an account nobody knew, with its invitation.
LEMMA CommitCreatePreserves ==
    ASSUME IInv, NEW r \in Regs, CommitCreate(r)
    PROVE  IInv'
<1>1. Shape'
  BY DEF IInv, Shape, TypeOK, Roles, Answered, ApplyCreate, CommitCreate
<1>2. Lives'
  BY RetriesAssumption DEF IInv, Lives, Fresh, Existing, Attempts, Targets,
          Shape, TypeOK, ApplyCreate, CommitCreate
<1>3. Locks'
  BY DEF IInv, Locks, Writes, Exclusive, Shape, Lives, TypeOK, Fresh, Targets,
          Account, ApplyCreate, CommitCreate
<1>4. KeysUnique'
  BY DEF IInv, KeysUnique, ApplyCreate, Holders, CommitCreate
<1>5. Outcomes'
  BY DEF IInv, Outcomes, InvitationsMatch, CreatedIsKept,
          FailureLeavesNoAccount, Shape, Lives, TypeOK, Answered, Fresh,
          ApplyCreate, CommitCreate
<1> QED
  BY <1>1, <1>2, <1>3, <1>4, <1>5 DEF IInv

\* A 201 is answered for an account that is in the table.
LEMMA SendAcceptedPreserves ==
    ASSUME IInv, NEW r \in Regs, SendAccepted(r)
    PROVE  IInv'
<1>1. Shape'
  BY DEF IInv, Shape, TypeOK, Roles, Answered, SendAccepted
<1>2. Lives'
  BY DEF IInv, Lives, Fresh, Existing, Attempts, Targets, SendAccepted
<1>3. Locks'
  BY DEF IInv, Locks, Writes, Exclusive, Account, SendAccepted
<1>4. KeysUnique'
  BY DEF IInv, KeysUnique, Holders, SendAccepted
<1>5. Outcomes'
  BY DEF IInv, Outcomes, InvitationsMatch, CreatedIsKept,
          FailureLeavesNoAccount, Lives, Existing, SendAccepted
<1> QED
  BY <1>1, <1>2, <1>3, <1>4, <1>5 DEF IInv

\* A failed attempt may still make the token known.
LEMMA SendFailsPreserves ==
    ASSUME IInv, NEW r \in Regs, SendFails(r)
    PROVE  IInv'
<1>1. Shape'
  BY RetriesAssumption DEF IInv, Shape, TypeOK, Roles, Answered, Lives,
          Attempts, SendFails
<1>2. Lives'
  BY DEF IInv, Lives, Fresh, Existing, Attempts, Targets, Shape, TypeOK,
          SendFails
<1>3. Locks'
  BY DEF IInv, Locks, Writes, Exclusive, Account, SendFails
<1>4. KeysUnique'
  BY DEF IInv, KeysUnique, Holders, SendFails
<1>5. Outcomes'
  BY DEF IInv, Outcomes, InvitationsMatch, CreatedIsKept,
          FailureLeavesNoAccount, SendFails
<1> QED
  BY <1>1, <1>2, <1>3, <1>4, <1>5 DEF IInv

\* The loop goes on below MaxRetries and ends at it.
LEMMA WakeUpPreserves ==
    ASSUME IInv, NEW r \in Regs, WakeUp(r)
    PROVE  IInv'
<1>1. Shape'
  BY DEF IInv, Shape, TypeOK, Roles, Answered, WakeUp
<1>2. Lives'
  BY DEF IInv, Lives, Fresh, Existing, Attempts, Targets, WakeUp
<1>3. Locks'
  BY DEF IInv, Locks, Writes, Exclusive, Account, WakeUp
<1>4. KeysUnique'
  BY DEF IInv, KeysUnique, Holders, WakeUp
<1>5. Outcomes'
  BY DEF IInv, Outcomes, InvitationsMatch, CreatedIsKept,
          FailureLeavesNoAccount, WakeUp
<1> QED
  BY <1>1, <1>2, <1>3, <1>4, <1>5 DEF IInv

\* The Delete is skipped only for a context that is done.
LEMMA CompensatePreserves ==
    ASSUME IInv, NEW r \in Regs, Compensate(r)
    PROVE  IInv'
<1>1. Shape'
  BY DEF IInv, Shape, TypeOK, Roles, Answered, Compensate
<1>2. Lives'
  BY DEF IInv, Lives, Fresh, Existing, Attempts, Targets, Shape, TypeOK,
          Compensate
<1>3. Locks'
  BY DEF IInv, Locks, Writes, Exclusive, Shape, TypeOK, Account, Compensate
<1>4. KeysUnique'
  BY DEF IInv, KeysUnique, Shape, TypeOK, Holders, Compensate
<1>5. Outcomes'
  BY DEF IInv, Outcomes, InvitationsMatch, CreatedIsKept,
          FailureLeavesNoAccount, Shape, TypeOK, ContextAlive, Compensate
<1> QED
  BY <1>1, <1>2, <1>3, <1>4, <1>5 DEF IInv

\* The deleted row is locked by nobody and referenced by no post.
LEMMA DeleteUserPreserves ==
    ASSUME IInv, NEW r \in Regs, DeleteUser(r)
    PROVE  IInv'
<1>1. Shape'
  BY DEF IInv, Shape, TypeOK, Roles, Answered, DeleteUser
<1>2. Lives'
  BY DEF IInv, Lives, Fresh, Existing, Attempts, Targets, Shape, TypeOK,
          DeleteUser
<1>3. Locks'
  BY DEF IInv, Locks, Writes, Exclusive, Shape, Lives, TypeOK, Existing,
          Locked, Account, DeleteUser
<1>4. KeysUnique'
  BY DEF IInv, KeysUnique, Shape, TypeOK, Holders, DeleteUser
<1>5. Outcomes'
  BY DEF IInv, Outcomes, InvitationsMatch, CreatedIsKept,
          FailureLeavesNoAccount, Shape, TypeOK, DeleteUser
<1> QED
  BY <1>1, <1>2, <1>3, <1>4, <1>5 DEF IInv

\* The invitation is locked by nobody, as its user row is not.
LEMMA DeleteInvitesPreserves ==
    ASSUME IInv, NEW r \in Regs, DeleteInvites(r)
    PROVE  IInv'
<1>1. Shape'
  BY DEF IInv, Shape, TypeOK, Roles, Answered, DeleteInvites
<1>2. Lives'
  BY DEF IInv, Lives, Fresh, Existing, Attempts, Targets, DeleteInvites
<1>3. Locks'
  BY DEF IInv, Locks, Writes, Exclusive, Shape, TypeOK, Account, DeleteInvites
<1>4. KeysUnique'
  BY DEF IInv, KeysUnique, Holders, DeleteInvites
<1>5. Outcomes'
  BY DEF IInv, Outcomes, InvitationsMatch, CreatedIsKept,
          FailureLeavesNoAccount, DeleteInvites
<1> QED
  BY <1>1, <1>2, <1>3, <1>4, <1>5 DEF IInv

\* The account goes with its invitation, by its own registration.
LEMMA CommitDeletePreserves ==
    ASSUME IInv, NEW r \in Regs, CommitDelete(r)
    PROVE  IInv'
<1>1. Shape'
  BY DEF IInv, Shape, TypeOK, Roles, Answered, Locks, Writes, ApplyDelete,
          CommitDelete
<1>2. Lives'
  BY DEF IInv, Lives, Fresh, Existing, Attempts, Targets, Shape, TypeOK,
          ApplyDelete, CommitDelete
<1>3. Locks'
  BY ProcsAssumption DEF IInv, Locks, Writes, Exclusive, Shape, TypeOK,
          Account, ApplyDelete, CommitDelete
<1>4. KeysUnique'
  BY DEF IInv, KeysUnique, ApplyDelete, Holders, CommitDelete
<1>5. Outcomes'
  BY DEF IInv, Outcomes, InvitationsMatch, CreatedIsKept,
          FailureLeavesNoAccount, Shape, Locks, Answered, Writes, ApplyDelete,
          CommitDelete
<1> QED
  BY <1>1, <1>2, <1>3, <1>4, <1>5 DEF IInv

\* An activation starts with a token that somebody knows.
LEMMA ActivatePreserves ==
    ASSUME IInv, NEW a \in Acts, NEW r \in Regs, Activate(a, r)
    PROVE  IInv'
<1>1. Shape'
  BY ProcsAssumption DEF IInv, Shape, TypeOK, Roles, Answered, Activate
<1>2. Lives'
  BY DEF IInv, Lives, Fresh, Existing, Attempts, Targets, Shape, TypeOK,
          Activate
<1>3. Locks'
  BY DEF IInv, Locks, Writes, Exclusive, Account, Activate
<1>4. KeysUnique'
  BY DEF IInv, KeysUnique, Holders, Activate
<1>5. Outcomes'
  BY DEF IInv, Outcomes, InvitationsMatch, CreatedIsKept,
          FailureLeavesNoAccount, Activate
<1> QED
  BY <1>1, <1>2, <1>3, <1>4, <1>5 DEF IInv

\* Reading the invitation takes no lock and writes nothing.
LEMMA ReadInvitePreserves ==
    ASSUME IInv, NEW a \in Acts, ReadInvite(a)
    PROVE  IInv'
<1>1. Shape'
  BY DEF IInv, Shape, TypeOK, Roles, Answered, ReadInvite
<1>2. Lives'
  BY DEF IInv, Lives, Fresh, Existing, Attempts, Targets, Shape, TypeOK,
          ReadInvite
<1>3. Locks'
  BY DEF IInv, Locks, Writes, Exclusive, Shape, TypeOK, Account, ReadInvite
<1>4. KeysUnique'
  BY DEF IInv, KeysUnique, Shape, TypeOK, Holders, ReadInvite
<1>5. Outcomes'
  BY DEF IInv, Outcomes, InvitationsMatch, CreatedIsKept,
          FailureLeavesNoAccount, Shape, TypeOK, ReadInvite
<1> QED
  BY <1>1, <1>2, <1>3, <1>4, <1>5 DEF IInv

\* The update takes the row if it still is there, and waits for it.
LEMMA UpdateUserPreserves ==
    ASSUME IInv, NEW a \in Acts, UpdateUser(a)
    PROVE  IInv'
<1>1. Shape'
  BY DEF IInv, Shape, TypeOK, Roles, Answered, UpdateUser
<1>2. Lives'
  BY DEF IInv, Lives, Fresh, Existing, Attempts, Targets, UpdateUser
<1>3. Locks'
  BY ProcsAssumption DEF IInv, Locks, Writes, Exclusive, Shape, TypeOK,
          Locked, Account, UpdateUser
<1>4. KeysUnique'
  BY DEF IInv, KeysUnique, Holders, UpdateUser
<1>5. Outcomes'
  BY DEF IInv, Outcomes, InvitationsMatch, CreatedIsKept,
          FailureLeavesNoAccount, UpdateUser
<1> QED
  BY <1>1, <1>2, <1>3, <1>4, <1>5 DEF IInv

\* The invitation is there exactly if the activation locked its user.
LEMMA CleanInvitesPreserves ==
    ASSUME IInv, NEW a \in Acts, CleanInvites(a)
    PROVE  IInv'
<1>1. Shape'
  BY DEF IInv, Shape, TypeOK, Roles, Answered, CleanInvites
<1>2. Lives'
  BY DEF IInv, Lives, Fresh, Existing, Attempts, Targets, CleanInvites
<1>3. Locks'
  BY DEF IInv, Locks, Writes, Exclusive, Shape, TypeOK, Account, CleanInvites
<1>4. KeysUnique'
  BY DEF IInv, KeysUnique, Holders, CleanInvites
<1>5. Outcomes'
  BY DEF IInv, Outcomes, InvitationsMatch, CreatedIsKept,
          FailureLeavesNoAccount, CleanInvites
<1> QED
  BY <1>1, <1>2, <1>3, <1>4, <1>5 DEF IInv

\* The account becomes active as its invitation goes.
LEMMA CommitActivatePreserves ==
    ASSUME IInv, NEW a \in Acts, CommitActivate(a)
    PROVE  IInv'
<1>1. Shape'
  BY DEF IInv, Shape, TypeOK, Roles, Answered, Locks, Writes, ApplyActivate,
          CommitActivate
<1>2. Lives'
  BY DEF IInv, Lives, Fresh, Existing, Attempts, Targets, ApplyActivate,
          CommitActivate
<1>3. Locks'
  BY ProcsAssumption DEF IInv, Locks, Writes, Exclusive, Shape, TypeOK,
          Account, ApplyActivate, CommitActivate
<1>4. KeysUnique'
  BY DEF IInv, KeysUnique, ApplyActivate, Holders, CommitActivate
<1>5. Outcomes'
  BY DEF IInv, Outcomes, InvitationsMatch, CreatedIsKept,
          FailureLeavesNoAccount, Locks, Writes, ApplyActivate, CommitActivate
<1> QED
  BY <1>1, <1>2, <1>3, <1>4, <1>5 DEF IInv

\* A post refers to an account that no open Delete has locked.
LEMMA PostPreserves ==
    ASSUME IInv, NEW r \in Regs, Post(r)
    PROVE  IInv'
<1>1. Shape'
  BY DEF IInv, Shape, TypeOK, Roles, Answered, Post
<1>2. Lives'
  BY DEF IInv, Lives, Fresh, Existing, Attempts, Targets, Post
<1>3. Locks'
  BY DEF IInv, Locks, Writes, Exclusive, Account, Post
<1>4. KeysUnique'
  BY DEF IInv, KeysUnique, Holders, Post
<1>5. Outcomes'
  BY DEF IInv, Outcomes, InvitationsMatch, CreatedIsKept,
          FailureLeavesNoAccount, Post
<1> QED
  BY <1>1, <1>2, <1>3, <1>4, <1>5 DEF IInv

\* Expiry changes no table.
LEMMA ExpirePreserves ==
    ASSUME IInv, NEW r \in Regs, Expire(r)
    PROVE  IInv'
<1>1. Shape'
  BY DEF IInv, Shape, TypeOK, Roles, Answered, Expire
<1>2. Lives'
  BY DEF IInv, Lives, Fresh, Existing, Attempts, Targets, Expire
<1>3. Locks'
  BY DEF IInv, Locks, Writes, Exclusive, Account, Expire
<1>4. KeysUnique'
  BY DEF IInv, KeysUnique, Holders, Expire
<1>5. Outcomes'
  BY DEF IInv, Outcomes, InvitationsMatch, CreatedIsKept,
          FailureLeavesNoAccount, Expire
<1> QED
  BY <1>1, <1>2, <1>3, <1>4, <1>5 DEF IInv

\* Cancelling changes no table.
LEMMA CancelPreserves ==
    ASSUME IInv, NEW r \in Regs, Cancel(r)
    PROVE  IInv'
<1>1. Shape'
  BY DEF IInv, Shape, TypeOK, Roles, Answered, Cancel
<1>2. Lives'
  BY DEF IInv, Lives, Fresh, Existing, Attempts, Targets, Cancel
<1>3. Locks'
  BY DEF IInv, Locks, Writes, Exclusive, Account, Cancel
<1>4. KeysUnique'
  BY DEF IInv, KeysUnique, Holders, Cancel
<1>5. Outcomes'
  BY DEF IInv, Outcomes, InvitationsMatch, CreatedIsKept,
          FailureLeavesNoAccount, Cancel
<1> QED
  BY <1>1, <1>2, <1>3, <1>4, <1>5 DEF IInv

\* A rolled-back transaction leaves the tables as they were.
LEMMA TxFailsPreserves ==
    ASSUME IInv, NEW p \in Procs, TxFails(p)
    PROVE  IInv'
<1>1. Shape'
  BY DEF IInv, Shape, TypeOK, Roles, Answered, TxFails
<1>2. Lives'
  BY DEF IInv, Lives, Fresh, Existing, Attempts, Targets, TxFails
<1>3. Locks'
  BY DEF IInv, Locks, Writes, Exclusive, Shape, TypeOK, Account, TxFails
<1>4. KeysUnique'
  BY DEF IInv, KeysUnique, Holders, TxFails
<1>5. Outcomes'
  BY DEF IInv, Outcomes, InvitationsMatch, CreatedIsKept,
          FailureLeavesNoAccount, ContextAlive, TxFails
<1> QED
  BY <1>1, <1>2, <1>3, <1>4, <1>5 DEF IInv

\* An unacknowledged commit is a commit to everybody else.
LEMMA CommitUnacknowledgedPreserves ==
    ASSUME IInv, NEW p \in Procs, CommitUnacknowledged(p)
    PROVE  IInv'
<1>1. Shape'
  BY DEF IInv, Shape, TypeOK, Roles, Answered, Locks, Writes, ApplyCreate,
          ApplyActivate, CommitUnacknowledged
<1>2. Lives'
  BY DEF IInv, Lives, Fresh, Existing, Attempts, Targets, Shape, TypeOK,
          ApplyCreate, ApplyActivate, CommitUnacknowledged
<1>3. Locks'
  BY DEF IInv, Locks, Writes, Exclusive, Shape, Lives, TypeOK, Roles, Fresh,
          Targets, Account, ApplyCreate, ApplyActivate, CommitUnacknowledged
<1>4. KeysUnique'
  BY DEF IInv, KeysUnique, Shape, Roles, ApplyCreate, ApplyActivate, Holders,
          CommitUnacknowledged
<1>5. Outcomes'
  BY DEF IInv, Outcomes, InvitationsMatch, CreatedIsKept,
          FailureLeavesNoAccount, Shape, Lives, Locks, TypeOK, Roles, Fresh,
          Writes, ApplyCreate, ApplyActivate, CommitUnacknowledged
<1> QED
  BY <1>1, <1>2, <1>3, <1>4, <1>5 DEF IInv

\* A crash rolls back every open transaction.
LEMMA CrashPreserves ==
    ASSUME IInv, Crash
    PROVE  IInv'
<1>1. Shape'
  BY DEF IInv, Shape, TypeOK, Roles, Answered, Crash
<1>2. Lives'
  BY DEF IInv, Lives, Fresh, Existing, Attempts, Targets, InFlight, Crash
<1>3. Locks'
  BY DEF IInv, Locks, Writes, Exclusive, InFlight, Crash
<1>4. KeysUnique'
  BY DEF IInv, KeysUnique, Holders, Crash
<1>5. Outcomes'
  BY DEF IInv, Outcomes, InvitationsMatch, CreatedIsKept,
          FailureLeavesNoAccount, Crash
<1> QED
  BY <1>1, <1>2, <1>3, <1>4, <1>5 DEF IInv

\* A step that changes nothing keeps the invariant.
LEMMA StutterPreserves ==
    ASSUME IInv, UNCHANGED vars
    PROVE  IInv'
<1>1. Shape'
  BY DEF IInv, Shape, TypeOK, Roles, Answered, vars
<1>2. Lives'
  BY DEF IInv, Lives, Fresh, Existing, Attempts, Targets, vars
<1>3. Locks'
  BY DEF IInv, Locks, Writes, Exclusive, Account, vars
<1>4. KeysUnique'
  BY DEF IInv, KeysUnique, Holders, vars
<1>5. Outcomes'
  BY DEF IInv, Outcomes, InvitationsMatch, CreatedIsKept,
         FailureLeavesNoAccount, vars
<1> QED
  BY <1>1, <1>2, <1>3, <1>4, <1>5 DEF IInv

\* Every step keeps the invariant.
LEMMA NextPreserves == IInv /\ [Next]_vars => IInv'
<1> SUFFICES ASSUME IInv, [Next]_vars PROVE IInv'
  OBVIOUS
<1>1. CASE \E r \in Regs : CreateStep(r)
  BY <1>1, RegisterPreserves, InsertUserPreserves, InsertInvitePreserves,
     CommitCreatePreserves DEF CreateStep
<1>2. CASE \E r \in Regs : MailStep(r)
  BY <1>2, SendAcceptedPreserves, SendFailsPreserves, WakeUpPreserves,
     CompensatePreserves DEF MailStep
<1>3. CASE \E r \in Regs : DeleteStep(r)
  BY <1>3, DeleteUserPreserves, DeleteInvitesPreserves,
     CommitDeletePreserves DEF DeleteStep
<1>4. CASE \E a \in Acts : ActivateStep(a)
  BY <1>4, ReadInvitePreserves, UpdateUserPreserves, CleanInvitesPreserves,
     CommitActivatePreserves DEF ActivateStep
<1>5. CASE \E a \in Acts, r \in Regs : Activate(a, r)
  BY <1>5, ActivatePreserves
<1>6. CASE \E r \in Regs : Post(r) \/ Expire(r) \/ Cancel(r)
  BY <1>6, PostPreserves, ExpirePreserves, CancelPreserves
<1>7. CASE \E p \in Procs : TxFails(p) \/ CommitUnacknowledged(p)
  BY <1>7, TxFailsPreserves, CommitUnacknowledgedPreserves
<1>8. CASE Crash
  BY <1>8, CrashPreserves
<1>9. CASE UNCHANGED vars
  BY <1>9, StutterPreserves
<1> QED
  BY <1>1, <1>2, <1>3, <1>4, <1>5, <1>6, <1>7, <1>8, <1>9 DEF Next

\* The invariant holds in every reachable state.
THEOREM Invariance == Spec => []IInv
  BY InitIInv, NextPreserves, PTL DEF Spec

\* Types, and that active accounts, invitations and authors of posts all are
\* accounts of the table: Delete never leaves an invitation or a post behind.
THEOREM TypeCorrect == Spec => []TypeOK
<1>1. IInv => TypeOK
  BY DEF IInv, Shape
<1> QED
  BY <1>1, Invariance, PTL

\* In every reachable state exactly the inactive accounts have an invitation,
\* whatever activations, roll-backs and failures overlap.
THEOREM InvitationsAlwaysMatch == Spec => []InvitationsMatch
<1>1. IInv => InvitationsMatch
  BY DEF IInv, Outcomes
<1> QED
  BY <1>1, Invariance, PTL

\* An account whose registration answered 201 is never lost.
THEOREM CreatedIsAlwaysKept == Spec => []CreatedIsKept
<1>1. IInv => CreatedIsKept
  BY DEF IInv, Outcomes
<1> QED
  BY <1>1, Invariance, PTL

\* A failed registration leaves an account only by the ways out that
\* FailureLeavesNoAccount lists.
THEOREM FailureAlwaysAccounted == Spec => []FailureLeavesNoAccount
<1>1. IInv => FailureLeavesNoAccount
  BY DEF IInv, Outcomes
<1> QED
  BY <1>1, Invariance, PTL
-----------------------------------------------------------------------------
(* Registration implements Accounts.                                       *)

Mapped == [u \in Regs |-> Status(u)]

\* CommitCreate is Create: nobody live has the keys of the new account.
LEMMA CreateRefines ==
    ASSUME IInv, NEW r \in Regs, pc[r] = "commit_create", ApplyCreate(r),
           UNCHANGED attempt
    PROVE  Abstract!Create(r)
<1>1. r \notin users /\ r \notin active /\ attempt[r] = 0
  BY DEF IInv, Shape, TypeOK, Lives, Fresh
<1>2. \A v \in users : ~Conflict(r, v)
  BY <1>1 DEF IInv, KeysUnique, Holders
<1>3. \A v \in Abstract!Live :
         EmailOf[v] # EmailOf[r] /\ NameOf[v] # NameOf[r]
  BY <1>2 DEF Abstract!Live, Status, Conflict, IInv, Shape, TypeOK
<1>4. Mapped[r] = "absent"
  BY <1>1 DEF Mapped, Status
<1>5. Mapped' = [Mapped EXCEPT ![r] = "pending"]
  BY <1>1 DEF Mapped, Status, ApplyCreate
<1> QED
  BY <1>3, <1>4, <1>5 DEF Abstract!Create, Abstract!Become, Mapped

\* CommitActivate is Accept, or changes nothing: the account is gone, or
\* another activation was first.
LEMMA ActivateRefines ==
    ASSUME IInv, NEW a \in Acts, pc[a] = "commit_activate", ApplyActivate(a),
           UNCHANGED attempt
    PROVE  Abstract!Accept(target[a]) \/ Mapped' = Mapped
<1>1. target[a] \in Regs /\ ("user" \in tx[a] <=> target[a] \in users)
  BY DEF IInv, Shape, TypeOK, Lives, Targets, Locks, Writes
<1>2. CASE target[a] \in users \ active
  <2>1. Mapped[target[a]] = "pending"
    BY <1>1, <1>2 DEF Mapped, Status
  <2>2. Mapped' = [Mapped EXCEPT ![target[a]] = "active"]
    BY <1>1, <1>2 DEF Mapped, Status, ApplyActivate
  <2> QED
    BY <2>1, <2>2 DEF Abstract!Accept, Abstract!Become, Mapped
<1>3. CASE target[a] \notin users \ active
  BY <1>1, <1>3 DEF Mapped, Status, ApplyActivate, IInv, Shape, TypeOK
<1> QED
  BY <1>2, <1>3

\* CommitDelete is Withdraw.
LEMMA DeleteRefines ==
    ASSUME IInv, NEW r \in Regs, CommitDelete(r)
    PROVE  Abstract!Withdraw(r)
<1>1. r \in users /\ attempt[r] > 0
  BY DEF IInv, Lives, Existing, Attempts, CommitDelete
<1>2. Mapped[r] \in {"pending", "active"}
  BY <1>1 DEF Mapped, Status
<1>3. Mapped' = [Mapped EXCEPT ![r] = "removed"]
  BY <1>1 DEF Mapped, Status, CommitDelete, ApplyDelete
<1> QED
  BY <1>2, <1>3 DEF Abstract!Withdraw, Abstract!Become, Mapped

\* A step that leaves the tables alone leaves every account where it is: a
\* failed attempt to send the mail concerns an account that exists.
LEMMA SilentRefines ==
    ASSUME IInv, UNCHANGED tables,
           UNCHANGED attempt \/ \E r \in Regs : SendFails(r)
    PROVE  Mapped' = Mapped
<1>1. CASE UNCHANGED attempt
  BY <1>1 DEF Mapped, Status
<1>2. ASSUME NEW r \in Regs, SendFails(r) PROVE Mapped' = Mapped
  <2>1. r \in users
    BY <1>2 DEF IInv, Lives, Existing, SendFails
  <2>2. \A u \in Regs : attempt'[u] = attempt[u] \/ u \in users
    BY <1>2, <2>1 DEF IInv, Shape, TypeOK, SendFails
  <2> QED
    BY <2>2 DEF Mapped, Status
<1> QED
  BY <1>1, <1>2

\* Every step is a step of Accounts or leaves all accounts where they are.
LEMMA StepRefines == IInv /\ [Next]_vars => [Abstract!Next]_Mapped
<1> SUFFICES ASSUME IInv, [Next]_vars
             PROVE  Abstract!Next \/ Mapped' = Mapped
  OBVIOUS
<1>1. ASSUME NEW r \in Regs, CommitCreate(r) PROVE Abstract!Next
  BY <1>1, CreateRefines DEF CommitCreate, Abstract!Next
<1>2. ASSUME NEW a \in Acts, CommitActivate(a)
      PROVE  Abstract!Next \/ Mapped' = Mapped
  BY <1>2, ActivateRefines
     DEF CommitActivate, Abstract!Next, IInv, Shape, TypeOK, Lives, Targets
<1>3. ASSUME NEW r \in Regs, CommitDelete(r) PROVE Abstract!Next
  BY <1>3, DeleteRefines DEF Abstract!Next
<1>4. ASSUME NEW p \in Procs, CommitUnacknowledged(p)
      PROVE  Abstract!Next \/ Mapped' = Mapped
  <2>1. CASE pc[p] = "commit_create" /\ ApplyCreate(p)
    <3>1. p \in Regs
      BY <2>1 DEF IInv, Shape, Roles
    <3> QED
      BY <1>4, <2>1, <3>1, CreateRefines
         DEF CommitUnacknowledged, Abstract!Next
  <2>2. CASE pc[p] = "commit_activate" /\ ApplyActivate(p)
    <3>1. p \in Acts /\ target[p] \in Regs
      BY <2>2 DEF IInv, Shape, Roles, TypeOK, Lives, Targets
    <3> QED
      BY <1>4, <2>2, <3>1, ActivateRefines
         DEF CommitUnacknowledged, Abstract!Next
  <2> QED
    BY <1>4, <2>1, <2>2 DEF CommitUnacknowledged
<1>5. ASSUME UNCHANGED tables,
             UNCHANGED attempt \/ \E r \in Regs : SendFails(r)
      PROVE  Mapped' = Mapped
  BY <1>5, SilentRefines
<1>6. CASE \E r \in Regs : CreateStep(r)
  BY <1>1, <1>5, <1>6 DEF CreateStep, Register, InsertUser, InsertInvite
<1>7. CASE \E r \in Regs : MailStep(r)
  BY <1>5, <1>7 DEF MailStep, SendAccepted, SendFails, WakeUp, Compensate
<1>8. CASE \E r \in Regs : DeleteStep(r)
  BY <1>3, <1>5, <1>8 DEF DeleteStep, DeleteUser, DeleteInvites
<1>9. CASE \E a \in Acts : ActivateStep(a) \/ \E r \in Regs : Activate(a, r)
  BY <1>2, <1>5, <1>9
     DEF ActivateStep, Activate, ReadInvite, UpdateUser, CleanInvites
<1>10. CASE \E r \in Regs : Post(r) \/ Expire(r) \/ Cancel(r)
  BY <1>5, <1>10 DEF Post, Expire, Cancel
<1>11. CASE \E p \in Procs : TxFails(p) \/ CommitUnacknowledged(p)
  BY <1>4, <1>5, <1>11 DEF TxFails
<1>12. CASE Crash \/ UNCHANGED vars
  BY <1>5, <1>12 DEF Crash, vars
<1> QED
  BY <1>6, <1>7, <1>8, <1>9, <1>10, <1>11, <1>12 DEF Next

\* The registration flow, with its transactions, locks, retries and failures,
\* implements the lifecycle of Accounts: no two live accounts share a key, an
\* account is activated once at most, and one that was removed stays so.
THEOREM ImplementsAccounts == Spec => AccountsSpec
<1>1. Init => Abstract!Init
  BY DEF Init, Abstract!Init, Status
<1>2. IInv /\ [Next]_vars => [Abstract!Next]_Mapped
  BY StepRefines
<1> QED
  BY <1>1, <1>2, Invariance, PTL DEF Spec, AccountsSpec, Abstract!Spec, Mapped
-----------------------------------------------------------------------------
(***************************************************************************)
(* Deadlocks.  EveryRequestAnswered needs fairness, and that no requests   *)
(* wait for each other; the second is what the order of the statements in  *)
(* CreateAndInvite, Activate and Delete is good for.                       *)
(***************************************************************************)
\* The next statement of p waits for a row, or a key, that q has written.
WaitsFor(p, q) ==
    /\ p # q
    /\ \/ /\ pc[p] = "insert_user" /\ q \in Regs /\ Conflict(p, q)
          /\ pc[q] \in {"insert_invite", "commit_create"}
       \/ /\ pc[p] \in {"delete_user", "update_user"}
          /\ Account(q) = Account(p) /\ "user" \in tx[q]
       \/ /\ pc[p] \in {"delete_invites", "clean_invites"}
          /\ Account(q) = Account(p) /\ "invitation" \in tx[q]

\* How far a transaction is: users, user_invitations, COMMIT.
Stage(p) ==
    IF pc[p] \in {"insert_invite", "delete_invites", "clean_invites"} THEN 2
    ELSE IF pc[p] \in {"commit_create", "commit_delete", "commit_activate"}
    THEN 3 ELSE 1

\* A transaction waits only for one that is further on than itself.
LockOrder == \A p, q \in Procs : WaitsFor(p, q) => Stage(p) < Stage(q)

\* Some transaction can always go on, if there is one.
NoDeadlock ==
    (\E p \in Procs : pc[p] \in TxSteps)
        => \E p \in Procs : /\ pc[p] \in TxSteps
                            /\ \A q \in Procs : ~WaitsFor(p, q)

\* To wait is what the guards of the statements say.
LEMMA WaitingIsLocked ==
    ASSUME NEW p \in Procs
    PROVE  /\ pc[p] \in {"delete_user", "update_user"} =>
                  (Locked(p, Account(p), "user")
                       <=> \E q \in Procs : WaitsFor(p, q))
           /\ pc[p] \in {"delete_invites", "clean_invites"} =>
                  (Locked(p, Account(p), "invitation")
                       <=> \E q \in Procs : WaitsFor(p, q))
  BY DEF Locked, WaitsFor

\* What a transaction has written tells how far it is.
LEMMA OrderOfLocks == IInv => LockOrder
<1> SUFFICES ASSUME IInv, NEW p \in Procs, NEW q \in Procs, WaitsFor(p, q)
             PROVE  Stage(p) < Stage(q)
  BY DEF LockOrder
<1>1. Writes
  BY DEF IInv, Locks
<1>2. "user" \in tx[q] => Stage(q) > 1
  BY <1>1 DEF Writes, Stage
<1>3. "invitation" \in tx[q] => Stage(q) = 3
  BY <1>1 DEF Writes, Stage
<1> QED
  BY <1>2, <1>3 DEF WaitsFor, Stage

\* Of the transactions that are furthest on, none waits.
LEMMA FurthestRuns == LockOrder => NoDeadlock
<1> SUFFICES ASSUME LockOrder, NEW p \in Procs, pc[p] \in TxSteps
             PROVE  \E r \in Procs : /\ pc[r] \in TxSteps
                                     /\ \A q \in Procs : ~WaitsFor(r, q)
  BY DEF NoDeadlock
<1>1. \A r, q \in Procs : WaitsFor(r, q) => pc[q] \in TxSteps
  BY DEF LockOrder, Stage
<1>2. PICK n \in {1, 2, 3} :
          /\ \E r \in Procs : pc[r] \in TxSteps /\ Stage(r) = n
          /\ \A r \in Procs : pc[r] \in TxSteps => Stage(r) <= n
  BY DEF Stage
<1>3. PICK r \in Procs : pc[r] \in TxSteps /\ Stage(r) = n
  BY <1>2
<1>4. ASSUME NEW q \in Procs, WaitsFor(r, q) PROVE FALSE
  <2>1. Stage(r) < Stage(q) /\ Stage(q) <= n
    BY <1>1, <1>2, <1>4 DEF LockOrder
  <2> QED
    BY <1>3, <2>1 DEF Stage
<1> QED
  BY <1>3, <1>4

\* Activate, Delete and CreateAndInvite write users before user_invitations: of
\* the transactions that are open, whatever rows they share, one can go on.
THEOREM TransactionsNeverDeadlock == Spec => [](LockOrder /\ NoDeadlock)
<1>1. IInv => LockOrder /\ NoDeadlock
  BY OrderOfLocks, FurthestRuns
<1> QED
  BY <1>1, Invariance, PTL
=============================================================================
