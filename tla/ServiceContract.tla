--------------------------- MODULE ServiceContract ---------------------------
(***************************************************************************)
(* What a supervised service promises to the callers of StartService,      *)
(* StopService, RestartService and Status, without the loop, its timers    *)
(* and its channels: requests are accepted one at a time, a request that   *)
(* was refused changed nothing, a process comes up only while the service  *)
(* is wanted and none is up, and stop and restart answer only when the     *)
(* process they were aimed at is gone.                                     *)
(***************************************************************************)
EXTENDS Integers

CONSTANT Clients

VARIABLES
    wanted,   \* the service is meant to run
    up,       \* a process of the service runs
    gen,      \* starts attempted so far
    call      \* per client: [st, kind, seen, pid, desired]

vars == <<wanted, up, gen, call>>

Kinds == {"start", "stop", "restart", "status"}

NoCall == [st |-> "none", kind |-> "status", seen |-> 0, pid |-> 0, desired |-> FALSE]

Init ==
    /\ wanted \in BOOLEAN /\ up = FALSE /\ gen = 0
    /\ call = [c \in Clients |-> NoCall]

Ask(c, k) ==
    /\ call[c].st = "none"
    /\ call' = [call EXCEPT ![c] = [NoCall EXCEPT !.st = "offered", !.kind = k, !.seen = gen]]
    /\ UNCHANGED <<wanted, up, gen>>

Refuse(c) ==
    /\ call[c].st = "offered"
    /\ call' = [call EXCEPT ![c].st = "refused"]
    /\ UNCHANGED <<wanted, up, gen>>

Accept(c) ==
    /\ call[c].st = "offered"
    /\ \A d \in Clients : call[d].st # "accepted"
    /\ call' = [call EXCEPT ![c].st = "accepted"]
    /\ wanted' = CASE call[c].kind \in {"start", "restart"} -> TRUE
                   [] call[c].kind = "stop" -> FALSE
                   [] call[c].kind = "status" -> wanted
    /\ UNCHANGED <<up, gen>>

Answer(c) ==
    /\ call[c].st = "accepted"
    /\ \E pid \in 0..gen :
         /\ call[c].kind = "stop" => ~wanted /\ ~up /\ pid = 0
         /\ call[c].kind = "restart" => (pid = 0 \/ pid > call[c].seen)
                                         /\ (up => gen > call[c].seen)
         /\ call' = [call EXCEPT ![c] = [@ EXCEPT !.st = "answered", !.pid = pid,
                                                  !.desired = wanted]]
    /\ UNCHANGED <<wanted, up, gen>>

Return(c) ==
    /\ call[c].st \in {"answered", "refused"}
    /\ call' = [call EXCEPT ![c] = NoCall]
    /\ UNCHANGED <<wanted, up, gen>>

Attempt == wanted /\ ~up /\ gen' = gen + 1 /\ UNCHANGED <<wanted, up, call>>

ComeUp == wanted /\ ~up /\ up' = TRUE /\ UNCHANGED <<wanted, gen, call>>

GoDown == up /\ up' = FALSE /\ UNCHANGED <<wanted, gen, call>>

\* The program does not exist: the service is not wanted any more.
GiveUp == wanted /\ ~up /\ wanted' = FALSE /\ UNCHANGED <<up, gen, call>>

Next ==
    \/ Attempt \/ ComeUp \/ GoDown \/ GiveUp
    \/ \E c \in Clients :
         Refuse(c) \/ Accept(c) \/ Answer(c) \/ Return(c) \/ \E k \in Kinds : Ask(c, k)

Spec == Init /\ [][Next]_vars
=============================================================================
