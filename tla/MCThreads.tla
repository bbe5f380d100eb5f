------------------------------ MODULE MCThreads ------------------------------
(***************************************************************************)
(* Two places where a thread of higher priority comes between the steps of *)
(* another, for TLC: send() of the main thread in the handlers of the      *)
(* adapter, and the reader thread in the looks of Videoswitcher::run().    *)
(* They share no state: a behaviour runs one of the modules and the other  *)
(* rests in its initial state, which satisfies the properties.             *)
(***************************************************************************)
EXTENDS TcpAdapterPreemption, Videoswitcher

VARIABLE part   \* "adapter" or "keys"

all == <<part, vars, vsVars>>

MCInit == part \in {"adapter", "keys"} /\ Init /\ VsInit

InAdapter == part = "adapter" /\ UNCHANGED <<part, vsVars>>
InKeys == part = "keys" /\ UNCHANGED <<part, vars>>

MCNext == (InAdapter /\ Next) \/ (InKeys /\ VsNext)

\* The fairness of the two modules, of each in its part.
MCFairness ==
    /\ WF_all((InAdapter /\ LwipThread) \/ (InKeys /\ Step))
    /\ WF_all((InAdapter /\ Send) \/ (InKeys /\ Found))
    /\ SF_all(InAdapter /\ Poll) /\ SF_all(InAdapter /\ Sent) /\ SF_all(InAdapter /\ Connected)
    /\ WF_all(InAdapter /\ Elapse)

MCSpec == MCInit /\ [][MCNext]_all /\ MCFairness
==============================================================================
