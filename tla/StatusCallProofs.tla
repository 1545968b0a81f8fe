--------------------------- MODULE StatusCallProofs ---------------------------
(***************************************************************************)
(* Supervisor.Status returns in time and completely, for any callers,      *)
(* services, orders of registration and timeout.                           *)
(***************************************************************************)
EXTENDS StatusCall, TLAPS

Results == [name : Services, version : Nat, unresponsive : BOOLEAN] \cup {NoResult}

TypeOK ==
    /\ order \in Seq(Services)
    /\ version \in [Services -> Nat]
    /\ elapsed \in [Callers -> -1..CtrlTimeout]
    /\ asker \in [Callers -> [Positions -> {"new", "offers", "accepted", "done"}]]
    /\ age \in [Callers -> [Positions -> Nat]]
    /\ out \in [Callers -> [Positions -> Results]]
    /\ began \in [Callers -> [Services -> Nat]]

\* All goroutines of a call offer their messages before time passes, and so they all
\* come to their timeouts with it.
TimeInv ==
    \A c \in Callers, i \in Positions :
        /\ ~In(c) => asker[c][i] = "done" /\ age[c][i] = 0
        /\ In(c) /\ asker[c][i] \in {"new", "offers"} => age[c][i] = elapsed[c]
        /\ asker[c][i] = "new" => elapsed[c] = 0

\* A goroutine that is done has written its own position, with what its service's loop
\* showed since the call began.
AnswerInv ==
    \A c \in Callers : In(c) =>
        /\ \A s \in Services : began[c][s] <= version[s]
        /\ \A i \in Positions : asker[c][i] = "done" =>
              /\ out[c][i].name = order[i]
              /\ \/ out[c][i].unresponsive
                 \/ out[c][i].version \in began[c][order[i]]..version[order[i]]

IInv == TypeOK /\ TimeInv /\ AnswerInv

LEMMA InitStatus == Init => IInv
<1> SUFFICES ASSUME Init PROVE IInv
    OBVIOUS
<1>1. order \in Seq(Services) /\ -1 \in -1..CtrlTimeout
    BY StatusAssumption DEF Init
<1>2. TypeOK
    BY <1>1 DEF Init, TypeOK, NoVersions, NoResults, Results
<1>3. TimeInv /\ AnswerInv
    BY DEF Init, TimeInv, AnswerInv, In
<1> QED BY <1>2, <1>3 DEF IInv

\* Everything about a call stays as it is while the loops do something else.
LEMMA StepLoop ==
    ASSUME IInv, UNCHANGED <<order, callVars>>, version' \in [Services -> Nat],
           \A s \in Services : version[s] <= version'[s]
    PROVE  IInv'
<1>1. TypeOK' /\ TimeInv'
    BY DEF IInv, TypeOK, TimeInv, In, Positions, callVars
<1>2. AnswerInv'
    <2> SUFFICES ASSUME NEW c \in Callers, In(c)
                 PROVE  /\ \A s \in Services : began[c][s] <= version'[s]
                        /\ \A i \in Positions : asker[c][i] = "done" =>
                              /\ out[c][i].name = order[i]
                              /\ \/ out[c][i].unresponsive
                                 \/ out[c][i].version \in began[c][order[i]]..version'[order[i]]
        BY DEF AnswerInv, In, Positions, callVars
    <2>1. \A s \in Services : began[c][s] \in Nat /\ version[s] \in Nat /\ version'[s] \in Nat
        BY DEF IInv, TypeOK
    <2>2. \A i \in Positions : order[i] \in Services
        BY DEF IInv, TypeOK, Positions
    <2> QED BY <2>1, <2>2 DEF IInv, AnswerInv
<1> QED BY <1>1, <1>2 DEF IInv

\* One goroutine of a call goes on.
LEMMA StepAsker ==
    ASSUME IInv, NEW c \in Callers, NEW i \in Positions, Step(c, i)
    PROVE  IInv'
<1>1. /\ UNCHANGED <<order, version, elapsed, age, began>> /\ In(c) /\ order[i] \in Services
    BY DEF Step, Offer, MayAsk, Accept, Reply, TimeOut, loopVars, IInv, TypeOK, TimeInv, Positions
<1>2. PICK st \in {"offers", "accepted", "done"} : asker' = [asker EXCEPT ![c][i] = st]
    BY DEF Step, Offer, Accept, Reply, TimeOut
<1>3. /\ st = "offers" => asker[c][i] = "new"
      /\ st # "done" => out' = out
      /\ st = "done" => \/ out' = [out EXCEPT ![c][i] = Answer(order[i], version[order[i]])]
                        \/ out' = [out EXCEPT ![c][i] = Unresponsive(order[i])]
    BY <1>2 DEF Step, Offer, Accept, Reply, TimeOut, Put, IInv, TypeOK
<1>4. \A d \in Callers, j \in Positions :
         asker'[d][j] = IF d = c /\ j = i THEN st ELSE asker[d][j]
    BY <1>2 DEF IInv, TypeOK
<1>5. \A d \in Callers, j \in Positions : d # c \/ j # i => out'[d][j] = out[d][j]
    BY <1>3 DEF IInv, TypeOK
<1>6. st = "done" =>
         /\ out'[c][i].name = order[i]
         /\ \/ out'[c][i].unresponsive
            \/ out'[c][i].version = version[order[i]]
    BY <1>3 DEF IInv, TypeOK, Answer, Unresponsive
<1>7. TypeOK'
    <2>1. asker' \in [Callers -> [Positions -> {"new", "offers", "accepted", "done"}]]
        BY <1>2 DEF IInv, TypeOK
    <2>2. out' \in [Callers -> [Positions -> Results]]
        <3>1. Answer(order[i], version[order[i]]) \in Results /\ Unresponsive(order[i]) \in Results
            BY <1>1 DEF IInv, TypeOK, Answer, Unresponsive, Results
        <3>2. ASSUME NEW r \in Results, out' = [out EXCEPT ![c][i] = r]
              PROVE  out' \in [Callers -> [Positions -> Results]]
            BY <3>2 DEF IInv, TypeOK
        <3> QED BY <1>3, <3>1, <3>2 DEF IInv, TypeOK
    <2> QED BY <1>1, <2>1, <2>2 DEF IInv, TypeOK, Positions
<1>8. TimeInv'
    BY <1>1, <1>3, <1>4 DEF IInv, TimeInv, In, Positions
<1>9. AnswerInv'
    <2> SUFFICES ASSUME NEW d \in Callers, In(d)
                 PROVE  /\ \A s \in Services : began[d][s] <= version[s]
                        /\ \A j \in Positions : asker'[d][j] = "done" =>
                              /\ out'[d][j].name = order[j]
                              /\ \/ out'[d][j].unresponsive
                                 \/ out'[d][j].version \in began[d][order[j]]..version[order[j]]
        BY <1>1 DEF AnswerInv, In, Positions
    <2>1. \A s \in Services : began[d][s] <= version[s]
        BY DEF IInv, AnswerInv
    <2>2. ASSUME NEW j \in Positions, asker'[d][j] = "done", d # c \/ j # i
          PROVE  /\ out'[d][j].name = order[j]
                 /\ \/ out'[d][j].unresponsive
                    \/ out'[d][j].version \in began[d][order[j]]..version[order[j]]
        BY <1>4, <1>5, <2>2 DEF IInv, AnswerInv
    <2>3. ASSUME d = c, asker'[c][i] = "done"
          PROVE  /\ out'[c][i].name = order[i]
                 /\ \/ out'[c][i].unresponsive
                    \/ out'[c][i].version \in began[c][order[i]]..version[order[i]]
        <3>1. /\ began[c][order[i]] <= version[order[i]]
              /\ began[c][order[i]] \in Nat /\ version[order[i]] \in Nat
            BY <1>1, <2>1, <2>3 DEF IInv, TypeOK
        <3>2. st = "done"
            BY <1>4, <2>3
        <3> QED BY <1>6, <3>1, <3>2
    <2> QED BY <2>1, <2>2, <2>3
<1> QED BY <1>7, <1>8, <1>9 DEF IInv

LEMMA StepStatus == IInv /\ [Next]_vars => IInv'
<1> SUFFICES ASSUME IInv, [Next]_vars PROVE IInv'
    OBVIOUS
<1>1. ASSUME NEW s \in Services, GetsBusy(s) \/ GetsIdle(s) \/ LoopEnds(s) PROVE IInv'
    <2>1. /\ UNCHANGED <<order, callVars>> /\ version' \in [Services -> Nat]
          /\ \A t \in Services : version[t] <= version'[t]
        <3>1. CASE GetsBusy(s) \/ LoopEnds(s)
            BY <3>1 DEF GetsBusy, LoopEnds, IInv, TypeOK
        <3>2. CASE GetsIdle(s)
            BY <3>2 DEF GetsIdle, IInv, TypeOK
        <3> QED BY <1>1, <3>1, <3>2
    <2> QED BY <2>1, StepLoop
<1>2. ASSUME NEW c \in Callers, Call(c) PROVE IInv'
    <2>1. TypeOK'
        BY <1>2, StatusAssumption DEF Call, loopVars, IInv, TypeOK, Positions
    <2>2. TimeInv'
        BY <1>2 DEF Call, loopVars, IInv, TypeOK, TimeInv, In, Positions
    <2>3. AnswerInv'
        BY <1>2 DEF Call, loopVars, IInv, TypeOK, AnswerInv, In, Positions
    <2> QED BY <2>1, <2>2, <2>3 DEF IInv
<1>3. ASSUME NEW c \in Callers, Return(c) PROVE IInv'
    <2>1. TypeOK'
        BY <1>3, StatusAssumption
        DEF Return, loopVars, IInv, TypeOK, Positions, NoResults, NoVersions, Results
    <2>2. TimeInv'
        BY <1>3 DEF Return, AllDone, loopVars, IInv, TypeOK, TimeInv, In, Positions
    <2>3. AnswerInv'
        BY <1>3 DEF Return, loopVars, IInv, TypeOK, AnswerInv, In, Positions
    <2> QED BY <2>1, <2>2, <2>3 DEF IInv
<1>4. ASSUME NEW c \in Callers, NEW i \in Positions, Step(c, i) PROVE IInv'
    BY <1>4, StepAsker
<1>5. CASE Tick
    <2>1. UNCHANGED <<order, version, asker, out, began>>
        BY <1>5 DEF Tick, loopVars
    <2>2. ASSUME NEW c \in Callers, In(c) PROVE elapsed[c] < CtrlTimeout
        <3>1. PICK i \in Positions : asker[c][i] # "done"
            BY <1>5, <2>2 DEF Tick, Prompt, AllDone
        <3>2. asker[c][i] = "offers" /\ age[c][i] # CtrlTimeout
            BY <1>5, <2>2, <3>1 DEF Tick, Prompt, MayAsk, IInv, TypeOK
        <3> QED BY <2>2, <3>2, StatusAssumption DEF IInv, TypeOK, TimeInv
    <2>3. TypeOK'
        <3>1. elapsed' \in [Callers -> -1..CtrlTimeout]
            BY <1>5, <2>2, StatusAssumption DEF Tick, IInv, TypeOK, In
        <3>2. age' \in [Callers -> [Positions -> Nat]]
            BY <1>5 DEF Tick, IInv, TypeOK
        <3> QED BY <2>1, <3>1, <3>2 DEF IInv, TypeOK, Positions
    <2>4. TimeInv'
        <3> SUFFICES ASSUME NEW c \in Callers, NEW i \in Positions
                     PROVE  /\ ~In(c)' => asker[c][i] = "done" /\ age'[c][i] = 0
                            /\ In(c)' /\ asker[c][i] \in {"new", "offers"} => age'[c][i] = elapsed'[c]
                            /\ asker[c][i] = "new" => elapsed'[c] = 0
            BY <2>1 DEF TimeInv, Positions
        <3>1. elapsed'[c] = IF In(c) THEN elapsed[c] + 1 ELSE -1
            BY <1>5 DEF Tick
        <3>2. age'[c][i] = IF asker[c][i] = "offers" THEN age[c][i] + 1 ELSE age[c][i]
            BY <1>5 DEF Tick
        <3>3. In(c)' <=> In(c)
            BY <3>1 DEF In, IInv, TypeOK
        <3>4. In(c) => asker[c][i] # "new"
            BY <1>5 DEF Tick, Prompt, MayAsk
        <3> QED BY <3>1, <3>2, <3>3, <3>4 DEF IInv, TypeOK, TimeInv
    <2>5. AnswerInv'
        <3>1. \A c \in Callers : In(c)' <=> In(c)
            BY <1>5 DEF Tick, In, IInv, TypeOK
        <3> QED BY <2>1, <3>1 DEF IInv, AnswerInv, Positions
    <2> QED BY <2>3, <2>4, <2>5 DEF IInv
<1>6. CASE UNCHANGED vars
    BY <1>6, StepLoop DEF vars, loopVars, IInv, TypeOK
<1> QED BY <1>1, <1>2, <1>3, <1>4, <1>5, <1>6 DEF Next

\* The invariant holds in every reachable state.
THEOREM Invariance == Spec => []IInv
BY InitStatus, StepStatus, PTL DEF Spec

\* A call of Status takes no longer than one timeout, for any number of services and
\* of other callers, whichever loops are blocked.
THEOREM StatusInTime == Spec => []OneTimeout
<1>1. IInv => OneTimeout
    BY StatusAssumption DEF IInv, TypeOK, OneTimeout
<1> QED BY <1>1, Invariance, PTL

\* Status answers for every service, in the order of registration, with a state of its
\* during the call or that it is unresponsive.
THEOREM StatusAnswersForAll == Spec => StatusIsComplete
<1>1. IInv /\ [Next]_vars =>
        [\A c \in Callers : Return(c) =>
            \A i \in Positions :
               /\ out[c][i].name = order[i]
               /\ \/ out[c][i].unresponsive
                  \/ out[c][i].version \in began[c][order[i]]..version[order[i]]]_vars
    BY DEF IInv, AnswerInv, Return, AllDone
<1> QED BY <1>1, Invariance, PTL DEF Spec, StatusIsComplete
===============================================================================
