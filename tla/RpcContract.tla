----------------------------- MODULE RpcContract -----------------------------
(***************************************************************************)
(* What a caller of the Agent methods relies on: a call is carried out by  *)
(* the agent at most once, and the caller gets the outcome of its own call *)
(* and only after the agent has carried it out.  AgentRpc implements it.   *)
(***************************************************************************)
CONSTANTS Call,     \* calls of Agent methods, one message UUID each
          Outcome   \* what a handler can answer: data, or status -1

VARIABLES outcome,  \* what the agent did with each call, "none" before
          result    \* what each caller has got back, "none" before

cvars == <<outcome, result>>

Init == /\ outcome = [k \in Call |-> "none"]
        /\ result = [k \in Call |-> "none"]

\* The agent carries the call out.
Serve(k, v) ==
    /\ outcome[k] = "none"
    /\ outcome' = [outcome EXCEPT ![k] = v]
    /\ UNCHANGED result

\* The caller gets the outcome.
Return(k) ==
    /\ outcome[k] # "none" /\ result[k] = "none"
    /\ result' = [result EXCEPT ![k] = outcome[k]]
    /\ UNCHANGED outcome

Next == \E k \in Call : Return(k) \/ \E v \in Outcome : Serve(k, v)

Spec == Init /\ [][Next]_cvars
=============================================================================
