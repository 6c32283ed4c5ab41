------------------------------ MODULE Goroutines -------------------------------
(***************************************************************************)
(* The goroutines of the process beside those of the requests: the resets  *)
(* of the limiter (FixedWindow), and the two that start and stop the       *)
(* server (Server).  They share no state: each behaviour is one of one of  *)
(* them.                                                                   *)
(***************************************************************************)
EXTENDS FixedWindow

CONSTANTS Conns, Grace

VARIABLES part, main, waiter, quit, clock, result, conn, exit, cut

server == <<main, waiter, quit, clock, result, conn, exit, cut>>

Process == INSTANCE Server

ASSUME GoroutinesAssumption == Process!Parameters

GoroutinesInit == part \in {"limiter", "server"} /\ Init /\ Process!Init

GoroutinesNext ==
    \/ part = "limiter" /\ Next /\ UNCHANGED <<part, server>>
    \/ part = "server" /\ Process!Next /\ UNCHANGED <<part, vars>>

GoroutinesSpec ==
    /\ GoroutinesInit /\ [][GoroutinesNext]_<<part, vars, server>>
    /\ part = "limiter" => Fairness
    /\ part = "server" => Process!Fairness
-----------------------------------------------------------------------------
\* No request is cut off before the five seconds of a shutdown are over, as long
\* as accepting connections does not fail: then run returns at once.
CutOnlyAfterGrace == Process!CutOnlyAfterGrace

\* A signal ends the process.
SignalEnds == Process!SignalEnds
=============================================================================
