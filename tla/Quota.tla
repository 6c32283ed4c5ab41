-------------------------------- MODULE Quota --------------------------------
(***************************************************************************)
(* What a fixed-window rate limiter promises each client: a window opens   *)
(* with an admitted request, admits at most PerWindow requests, refuses    *)
(* only when these are used up, and closes Window units of time after it   *)
(* opened or later.                                                        *)
(***************************************************************************)
EXTENDS Integers

CONSTANTS Clients, Window, PerWindow

VARIABLES now,
          used,        \* used[c]: requests admitted in the window; 0 if none
          opened,      \* opened[c]: when the window of c opened
          answer       \* answer[c]: the last answer to c

Init ==
    /\ now = 0
    /\ used = [c \in Clients |-> 0]
    /\ opened = [c \in Clients |-> 0]
    /\ answer = [c \in Clients |-> "none"]

Open(c) ==
    /\ used[c] = 0
    /\ used' = [used EXCEPT ![c] = 1]
    /\ opened' = [opened EXCEPT ![c] = now]
    /\ answer' = [answer EXCEPT ![c] = "allow"]
    /\ UNCHANGED now

Admit(c) ==
    /\ used[c] \in 1..PerWindow - 1
    /\ used' = [used EXCEPT ![c] = @ + 1]
    /\ answer' = [answer EXCEPT ![c] = "allow"]
    /\ UNCHANGED <<now, opened>>

Refuse(c) ==
    /\ used[c] = PerWindow
    /\ answer' = [answer EXCEPT ![c] = "deny"]
    /\ UNCHANGED <<now, used, opened>>

Close(c) ==
    /\ used[c] > 0 /\ now >= opened[c] + Window
    /\ used' = [used EXCEPT ![c] = 0]
    /\ UNCHANGED <<now, opened, answer>>

Tick == now' = now + 1 /\ UNCHANGED <<used, opened, answer>>

Next ==
    \/ \E c \in Clients : Open(c) \/ Admit(c) \/ Refuse(c) \/ Close(c)
    \/ Tick

Spec == Init /\ [][Next]_<<now, used, opened, answer>>
=============================================================================
