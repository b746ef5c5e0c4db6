--------------------------- MODULE MCLeaseIssuer ---------------------------
(***************************************************************************)
(* LeaseIssuer for TLC: two threads while time passes and the connection   *)
(* may be lost, or three threads at one instant, which is what it takes to *)
(* close the same sender twice.                                            *)
(***************************************************************************)
EXTENDS LeaseIssuer, Sequences

CONSTANTS t3, l1, l2, l3

VARIABLE crowd      \* three threads call, and the clock stands still

\* Leases are alike: of those the service can grant it takes the first.
Order == <<l1, l2, l3>>
Free(l) == left[l] = 0 /\ thread[l] = "none" /\ l \notin {mine[t] : t \in Threads}
InOrder ==
    \A t \in Threads, i, j \in DOMAIN Order :
        i < j /\ Free(Order[i]) /\ mine'[t] = Order[j] => mine[t] = Order[j]

\* The third thread and its lease stay out of it; what a thread that finds a lease does is done
\* by one of the others.
Two ==
    /\ pc'[t3] = "idle" /\ left'[l3] = 0
    /\ got' # got => \E t \in Threads \ {t3} : pc[t] \in {"idle", "return"}

Three == outages' = 0 /\ left' \in [Leases -> {0, TTL}]

MCInit == Init /\ crowd \in BOOLEAN

MCNext ==
    /\ Next
    /\ InOrder
    /\ IF crowd THEN Three ELSE Two
    /\ UNCHANGED crowd

\* Fairness obliges the clock to run: LeasesEnd is about the behaviours in which it does.
MCSpec == MCInit /\ [][MCNext]_<<vars, crowd>> /\ Fairness

=============================================================================
