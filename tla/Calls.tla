-------------------------------- MODULE Calls --------------------------------
(* What a connection promises to those who call through it: a call ends with   *)
(* the answer to its own question or with an error, and it ends once. A caller *)
(* may stop waiting, a lost connection fails several calls together, and a     *)
(* process that dies takes its calls with it.                                  *)
CONSTANTS None, Error, Callers, Questions

VARIABLE calls  \* of each caller, None or [question, answer]

Init == calls = [c \in Callers |-> None]

Waiting == {c \in Callers : calls[c] # None /\ calls[c].answer = None}

Ask(c) ==
    /\ calls[c] = None
    /\ \E q \in Questions :
           calls' = [calls EXCEPT ![c] = [question |-> q, answer |-> None]]

Answer(c) == c \in Waiting /\ calls' = [calls EXCEPT ![c].answer = calls[c].question]

Fail(lost) ==
    calls' = [c \in Callers |-> IF c \in lost THEN [calls[c] EXCEPT !.answer = Error]
                                ELSE calls[c]]

Forget(gone) == calls' = [c \in Callers |-> IF c \in gone THEN None ELSE calls[c]]

Next ==
    \/ \E c \in Callers : Ask(c) \/ Answer(c) \/ Forget({c})
    \/ \E lost \in SUBSET Waiting : Fail(lost)
    \/ Forget(Callers)

Spec == Init /\ [][Next]_calls
=============================================================================
