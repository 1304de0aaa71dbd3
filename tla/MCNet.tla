------------------------------- MODULE MCNet -------------------------------
\* Instances of Net for model checking.  One server names a name server on the
\* local network, the other the public one beyond the router, so that a late
\* frame changes the hop; one host name is the router's, one is far.
EXTENDS Net, TLC

CONSTANTS static, lease, router, near, far, nearname, farname, badname, s1, s2

MCHosts == {static, lease, router, near, far}
MCNames == {nearname, farname, badname}
MCBadNames == {badname}
MCAddressOf == (nearname :> router) @@ (farname :> far) @@ (badname :> far)
MCLocalNet == {static, lease, router, near}
MCLeaseOf == [s \in Servers |-> IF s = s1 THEN lease ELSE static]
MCDnsOf == [s \in Servers |-> IF s = s1 THEN near ELSE far]

\* Nothing of s2 is left in the state.
OnlyFirst ==
    /\ bound \subseteq {s1}
    /\ dhcp.server # s2 /\ nic.dns # MCDnsOf[s2]
    /\ \A f \in air : f.via # s2

\* Two servers, whose frames may come at any time, with one call; one of them with
\* two.  The bound is on the start of a call and on frames received in the second,
\* so that it never keeps a wait from ending.
MCNext == Next /\ (calls < 2 \/ OnlyFirst)'

MCSpec == Init /\ [][MCNext]_vars /\ WF_vars(WaitEnds)
=============================================================================
