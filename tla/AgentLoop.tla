----------------------------- MODULE AgentLoop -----------------------------
(***************************************************************************)
(* What a chat run promises about its tool loop, independently of how      *)
(* ChatRuntime.runChat carries it out: a run alternates between waiting    *)
(* for the provider and executing the tools the provider asked for, it     *)
(* completes at most MaxToolIterations rounds, it never goes back to the   *)
(* provider once a tool call of the run was refused, and it always closes. *)
(***************************************************************************)
EXTENDS Naturals

CONSTANTS
    Runs,               \* the chat requests being served
    MaxToolIterations   \* AppConfig.maxToolIterations

VARIABLES
    phase,              \* where each run stands
    rounds,             \* tool rounds whose results went back to the provider
    clean               \* no tool call of the run was refused so far

vars == <<phase, rounds, clean>>

Init ==
    /\ phase = [r \in Runs |-> "open"]
    /\ rounds = [r \in Runs |-> 0]
    /\ clean = [r \in Runs |-> TRUE]

Goto(r, from, to) ==
    /\ phase[r] = from
    /\ phase' = [phase EXCEPT ![r] = to]

\* The request was admitted and its prompt compiled.
Begin(r) ==
    /\ Goto(r, "open", "thinking")
    /\ UNCHANGED <<rounds, clean>>

\* The provider asked for tools and the run may still afford a round.
Act(r) ==
    /\ rounds[r] < MaxToolIterations
    /\ Goto(r, "thinking", "acting")
    /\ UNCHANGED <<rounds, clean>>

\* A tool call of the round was denied, failed or wants a confirmation.
Refuse(r) ==
    /\ phase[r] = "acting"
    /\ clean[r]
    /\ clean' = [clean EXCEPT ![r] = FALSE]
    /\ UNCHANGED <<phase, rounds>>

\* Every call of the round completed: its results go back to the provider.
Resume(r) ==
    /\ clean[r]
    /\ Goto(r, "acting", "thinking")
    /\ rounds' = [rounds EXCEPT ![r] = @ + 1]
    /\ UNCHANGED clean

\* Nothing more to do, no further round allowed, or a call was refused.
WindDown(r) ==
    /\ \/ Goto(r, "thinking", "closing") /\ UNCHANGED clean
       \/ /\ Goto(r, "acting", "closing")
          /\ clean' = [clean EXCEPT ![r] = FALSE]
    /\ UNCHANGED rounds

\* The run returned, or it was rejected by a failing call.
Close(r) ==
    /\ phase[r] # "closed"
    /\ phase' = [phase EXCEPT ![r] = "closed"]
    /\ UNCHANGED <<rounds, clean>>

Step(r) == Begin(r) \/ Act(r) \/ Refuse(r) \/ Resume(r) \/ WindDown(r) \/ Close(r)

Next == \E r \in Runs : Step(r)

Spec == Init /\ [][Next]_vars

FairSpec == Spec /\ \A r \in Runs : WF_vars(Step(r))
=============================================================================
