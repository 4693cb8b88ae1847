---------------------------- MODULE MCControlPlane ----------------------------
(***************************************************************************)
(* What the relay tells and asks the control plane in the long run, for    *)
(* TLC: the usage meter and the entitlement gate.  They share no state, so *)
(* one is explored while the other has not begun: part says which.         *)
(*                                                                         *)
(* meter: two accounts with one unit each, at most one account on the      *)
(*   meter and one batch in the retry queue, one crash or restart.         *)
(* gate: a public request and the sweep consult the gate over and over.    *)
(***************************************************************************)
EXTENDS UsageMeter, EntitlementGate

CONSTANTS a1, a2, u1, u2, g1, g2

VARIABLE part

MCOwner == [u \in Units |-> IF u = u1 THEN a1 ELSE a2]
MCKinds == {[c \in Callers |-> IF c = g1 THEN "sweep" ELSE "continue"]}

\* Nobody waits for an account over quota.
MCInit ==
    /\ part \in {"meter", "gate"}
    /\ Init
    /\ GateInit /\ (part # "gate" => cp = "over")

MCNext ==
    /\ UNCHANGED part
    /\ \/ part = "meter" /\ Next /\ UNCHANGED gateVars
       \/ part = "gate" /\ GateNext /\ UNCHANGED vars

\* Fairness and GateFairness.  Only the actions of one part are ever enabled, so
\* fairness of a disjunction is fairness of the disjunct of the part that runs, and
\* two conditions, one of each part, are stated as one.
Either(a, b) == \/ part = "meter" /\ a /\ UNCHANGED gateVars
                \/ part = "gate" /\ b /\ UNCHANGED vars
bothVars == <<vars, gateVars>>

MCFairness ==
    /\ WF_bothVars(Either(flushStep, gateTick))
    /\ WF_bothVars(Either(FALSE, markOverQuota))
    /\ \A c \in Callers :
          LET u == IF c = g1 THEN u1 ELSE u2
          IN  /\ WF_bothVars(Either(FALSE, call(c)))
              /\ WF_bothVars(Either(FALSE, callerStep(c)))
              /\ SF_bothVars(Either(\E b \in net : u \in b.items /\ cpReceive(b),
                                    EntitlementForAccount(c)))
              /\ SF_bothVars(Either(ReportUsageOK /\ u \in Head(batches).items, refresh(c)))

MCSpec == MCInit /\ [][MCNext]_<<part, vars, gateVars>> /\ MCFairness
=============================================================================
