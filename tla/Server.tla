-------------------------------- MODULE Server --------------------------------
(***************************************************************************)
(* The life of the API process: run of cmd/api/api.go, its main goroutine  *)
(* and the one that waits for a signal, and the connections net/http       *)
(* serves for it.  What run returns is passed to Fatal (cmd/api/main.go),  *)
(* so the process ends when run returns, with whatever is under way.       *)
(***************************************************************************)
EXTENDS Integers

CONSTANTS Conns,       \* connections at one time
          Grace        \* the timeout of the context of Shutdown

\* What the constants are taken to be.
Parameters == Grace \in Nat \ {0}

VARIABLES main,        \* the goroutine of run
          waiter,      \* the goroutine run starts
          quit,        \* signals in the channel, whose buffer has room for one
          clock,       \* time since the signal was caught
          result,      \* what Shutdown returned
          conn,        \* conn[c]: the state net/http has for connection c
          exit,        \* how the process ended
          cut          \* history: connections with a request at that time

vars == <<main, waiter, quit, clock, result, conn, exit, cut>>

TypeOK ==
    /\ main \in {"start", "serving", "failing", "failed", "closed",
                "returned"}
    /\ waiter \in {"start", "waiting", "draining", "sending", "done"}
    /\ quit \in 0..1 /\ clock \in 0..Grace
    /\ result \in {"none", "nil", "deadline"}
    /\ conn \in [Conns -> {"none", "new", "active", "idle"}]
    /\ exit \in {"running", "killed", "error", "stopped"}
    /\ cut \subseteq Conns

Init ==
    /\ main = "start" /\ waiter = "start"
    /\ quit = 0 /\ clock = 0 /\ result = "none"
    /\ conn = [c \in Conns |-> "none"]
    /\ exit = "running" /\ cut = {}

Running == exit = "running"
ShuttingDown == waiter \in {"draining", "sending", "done"}
In(state) == {c \in Conns : conn[c] = state}

\* Requests under way are not waited for.
End(how) ==
    /\ exit' = how /\ cut' = In("active")
    /\ conn' = [c \in Conns |-> "none"]
-----------------------------------------------------------------------------
(* The goroutine that waits for a signal                                   *)

Notify ==
    /\ Running /\ waiter = "start" /\ waiter' = "waiting"
    /\ UNCHANGED <<main, quit, clock, result, conn, exit, cut>>

\* A signal waits in the channel; while one does, further ones are dropped.
Queued == 1

\* SIGINT or SIGTERM.  Before Notify it ends the process.
Signal ==
    /\ Running
    /\ IF waiter = "start" THEN End("killed") /\ UNCHANGED quit
       ELSE quit' = Queued /\ UNCHANGED <<conn, exit, cut>>
    /\ UNCHANGED <<main, waiter, clock, result>>

\* Shutdown begins: no connection is accepted from now on.
Catch ==
    /\ Running /\ waiter = "waiting" /\ quit = 1
    /\ waiter' = "draining" /\ quit' = 0
    /\ UNCHANGED <<main, clock, result, conn, exit, cut>>

Tick ==
    /\ Running /\ waiter = "draining" /\ clock < Grace
    /\ clock' = clock + 1
    /\ UNCHANGED <<main, waiter, quit, result, conn, exit, cut>>

Returns(err) == waiter' = "sending" /\ result' = err

\* One look at the connections: those without a request are closed, except new
\* ones, which are given a few seconds to send one.
Poll ==
    /\ Running /\ waiter = "draining"
    /\ \E kept \in SUBSET In("new") :
        /\ conn' = [c \in Conns |->
               IF conn[c] = "active" \/ c \in kept THEN conn[c] ELSE "none"]
        /\ IF In("active") \cup kept = {} THEN Returns("nil")
           ELSE UNCHANGED <<waiter, result>>
    /\ UNCHANGED <<main, quit, clock, exit, cut>>

\* Faulty variant: the context has no timeout.
Deadline_Never == FALSE

Deadline == clock = Grace

GiveUp ==
    /\ Running /\ waiter = "draining" /\ Deadline
    /\ Returns("deadline")
    /\ UNCHANGED <<main, quit, clock, conn, exit, cut>>
-----------------------------------------------------------------------------
(* The goroutine of run                                                    *)

\* ListenAndServe: it serves, unless Shutdown was called already.
Listen ==
    /\ Running /\ main = "start"
    /\ main' = IF ShuttingDown THEN "closed" ELSE "serving"
    /\ UNCHANGED <<waiter, quit, clock, result, conn, exit, cut>>

\* An error of Listen, or one of Accept that does not pass; an Accept that fails
\* because of Shutdown is no such error.
Fail ==
    /\ Running
    /\ main = "start" \/ (main = "serving" /\ ~ShuttingDown)
    /\ main' = "failing"
    /\ UNCHANGED <<waiter, quit, clock, result, conn, exit, cut>>

\* run returns what is not ErrServerClosed without a look at the goroutine that
\* waits for signals, which may have caught one by now.
ReturnError ==
    /\ Running /\ main = "failing"
    /\ main' = "failed" /\ End("error")
    /\ UNCHANGED <<waiter, quit, clock, result>>

\* ErrServerClosed, as soon as Shutdown has closed the listener.
Closed ==
    /\ Running /\ main = "serving" /\ ShuttingDown
    /\ main' = "closed"
    /\ UNCHANGED <<waiter, quit, clock, result, conn, exit, cut>>

\* Faulty variant: the answer of Shutdown is not waited for.
MayReturn_AtOnce == main = "closed"

\* The channel shutdown has no buffer: both sides go on at once.
MayReturn == main = "closed" /\ waiter = "sending"

Return ==
    /\ Running /\ MayReturn
    /\ main' = "returned" /\ waiter' = "done"
    /\ End(IF result = "deadline" THEN "error" ELSE "stopped")
    /\ UNCHANGED <<quit, clock, result>>
-----------------------------------------------------------------------------
(* Connections                                                             *)

Transition(c, from, to) ==
    /\ Running /\ conn[c] = from /\ conn' = [conn EXCEPT ![c] = to]
    /\ UNCHANGED <<main, waiter, quit, clock, result, exit, cut>>

Accept(c) == main = "serving" /\ ~ShuttingDown /\ Transition(c, "none", "new")

Request(c) == \E from \in {"new", "idle"} : Transition(c, from, "active")

\* The handler returns; a connection is not kept once Shutdown was called.
Respond(c) == Transition(c, "active", IF ShuttingDown THEN "none" ELSE "idle")

\* By the client, or by IdleTimeout or ReadTimeout.
Close(c) == \E from \in {"new", "idle"} : Transition(c, from, "none")

Next ==
    \/ Notify \/ Signal \/ Catch \/ Tick \/ Poll \/ GiveUp
    \/ Listen \/ Fail \/ ReturnError \/ Closed \/ Return
    \/ \E c \in Conns : Accept(c) \/ Request(c) \/ Respond(c) \/ Close(c)

\* Time passes and both goroutines go on; clients and handlers owe nothing.
Fairness ==
    /\ WF_vars(Notify) /\ WF_vars(Catch) /\ WF_vars(Tick) /\ WF_vars(GiveUp)
    /\ WF_vars(Listen) /\ WF_vars(ReturnError) /\ WF_vars(Closed)
    /\ WF_vars(Return)

Spec == Init /\ [][Next]_vars /\ Fairness
-----------------------------------------------------------------------------
(* Properties                                                              *)

\* Shutdown, its timeout and the channel: the process ends with requests under
\* way only when they had all the time of the context, when the signal came
\* before anyone waited for one, or when Accept had failed.
CutOnlyAfterGrace ==
    cut # {} => \/ waiter = "start"
                \/ main = "failed"
                \/ result = "deadline" /\ clock = Grace

\* A signal that was caught ends the process, whatever clients and handlers do.
SignalEnds == (quit = 1 /\ waiter = "waiting") ~> ~Running
=============================================================================
