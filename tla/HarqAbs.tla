------------------------------ MODULE HarqAbs -------------------------------
(***************************************************************************)
(* What a set of HARQ processes promises, whatever schedules them:         *)
(* stop-and-wait. A block is idle, sent, or known to be lost. New data is  *)
(* put only into an idle block; only a block in use is retransmitted, by   *)
(* one process at a time; a block known to be lost always has a            *)
(* transmission left. Processes may be given up at any time.               *)
(***************************************************************************)
EXTENDS Naturals

CONSTANTS Procs, TBs, MaxRetx

VARIABLE tb

Idle == [st |-> "idle", n |-> 0]

Init == tb = [p \in Procs |-> [b \in TBs |-> Idle]]

\* Counts above MaxRetx are not told apart.
Count(n) == IF n > MaxRetx THEN n ELSE n + 1

InUse(p) == {b \in TBs : tb[p][b].st # "idle"}

\* Feedback of the blocks "heard" of one process: those in "lost" are to be retransmitted,
\* the others arrived or are given up.
Feedback(p) ==
    \E heard \in SUBSET TBs : \E lost \in SUBSET heard :
        /\ \A b \in lost : tb[p][b].n + 1 < MaxRetx
        /\ tb' = [tb EXCEPT ![p] = [b \in TBs |->
                    IF b \in lost THEN [st |-> "nacked", n |-> tb[p][b].n]
                    ELSE IF b \in heard THEN [st |-> "idle", n |-> tb[p][b].n]
                    ELSE tb[p][b]]]

\* One process transmits new data in idle blocks and retransmits blocks in use; others may
\* be given up. Without retransmissions a block is not kept.
Transmit(p) ==
    \E fresh \in SUBSET (TBs \ InUse(p)), again \in SUBSET InUse(p),
       dropped \in SUBSET (Procs \ {p}) :
        tb' = [q \in Procs |->
                IF q = p THEN [b \in TBs |->
                    IF b \in fresh THEN [st |-> IF MaxRetx > 0 THEN "sent" ELSE "idle", n |-> 0]
                    ELSE IF b \in again THEN [st |-> "sent", n |-> Count(tb[p][b].n)]
                    ELSE tb[p][b]]
                ELSE IF q \in dropped THEN [b \in TBs |-> Idle] ELSE tb[q]]

GiveUp ==
    \E dropped \in SUBSET Procs :
        tb' = [p \in Procs |-> IF p \in dropped THEN [b \in TBs |-> Idle] ELSE tb[p]]

Next == GiveUp \/ \E p \in Procs : Feedback(p) \/ Transmit(p)

Spec == Init /\ [][Next]_tb
=============================================================================
