----------------------------- MODULE MCOutbound ----------------------------
(***************************************************************************)
(* Three requests of one account: the second has an 8-bit body, the third  *)
(* uses an address of another identity.                                    *)
(***************************************************************************)
EXTENDS Outbound

Ask(account, ik, from, eightbit) ==
    [account |-> account, ik |-> ik, from |-> from,
     dest |-> <<"dest", "org">>, renders |-> TRUE, utf8 |-> FALSE,
     eightbit |-> eightbit]
MCRequest == [r \in Reqs |->
                CASE r = "q1" -> Ask("ann", "ika", "ann@x", FALSE)
                  [] r = "q2" -> Ask("ann", "ika", "ann@x", TRUE)
                  [] r = "q3" -> Ask("ann", "ika", "bob@x", FALSE)]
MCOwner == [f \in {"ann@x", "bob@x"} |->
               IF f = "ann@x" THEN "ika" ELSE "ikb"]

Line(k, v) == [k |-> k, v |-> v]
Enforce == <<Line("version", "STSv1"), Line("mode", "enforce"),
            Line("mx", <<"*", "dest", "org">>)>>
Sts(text) == [signaled |-> TRUE, fetched |-> TRUE, text |-> text]
MCStsAnswers == {Sts(Enforce), [Sts(Enforce) EXCEPT !.fetched = FALSE]}

Mx(pref, host) == [pref |-> pref, host |-> host]
MCMxAnswers ==
    {[ok |-> FALSE, hosts |-> <<>>],
     [ok |-> TRUE, hosts |-> <<Mx(20, <<"mx", "dest", "org">>),
                              Mx(10, <<"a", "mx", "dest", "org">>)>>]}
MCCapSets == {{"STARTTLS"}, {"8BITMIME"}}
MCForbidden == {<<"dest", "org">>}
=============================================================================
