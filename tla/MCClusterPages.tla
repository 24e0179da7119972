--------------------------- MODULE MCClusterPages ---------------------------
(* ClusterPages on a small instance: two machines on one host, a third on  *)
(* another, and a host elsewhere.                                          *)
EXTENDS ClusterPages, TLC

CONSTANTS m1, m2, m3, h1, h2, h3

TheHosts == [m \in Machine |-> IF m \in {m1, m2} THEN h1 ELSE h2]

Off      == [mode |-> "off", port |-> DEFAULT_CLUSTER_SERVER_PORT, target |-> NoAddress]
Serving(p)  == [Off EXCEPT !.mode = "server", !.port = p]
Using(h, p) == [Off EXCEPT !.mode = "client", !.target = [host |-> h, port |-> p]]
Clicks   == [p \in Page |-> CASE p = "assign" -> 2 [] p = "servers" -> 3
                              [] p = "single" -> 3 [] p = "clients" -> 4]
Symmetry == Permutations(Slot)

\* All machines off; a server with a client; two servers on one host, one of
\* them with a client; clients of a server elsewhere and one of none.
Cases ==
    {[m \in Machine |-> Off],
     [m \in Machine |-> IF m = m3 THEN Using(h1, 8) ELSE IF m = m1 THEN Serving(8) ELSE Off],
     [m \in Machine |-> IF m = m3 THEN Using(h1, 8) ELSE IF m = m1 THEN Serving(9) ELSE Serving(8)],
     [m \in Machine |-> IF m = m1 THEN [Off EXCEPT !.mode = "client"] ELSE Using(h3, 8)]}
=============================================================================
