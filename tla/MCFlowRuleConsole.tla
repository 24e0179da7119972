------------------------- MODULE MCFlowRuleConsole -------------------------
(* FlowRuleConsole on small instances.  Applications, sessions, threads    *)
(* and bodies of one kind are interchangeable.                             *)
EXTENDS FlowRuleConsole, TLC

Symmetry == Permutations(Session) \cup Permutations(Thread) \cup Permutations(App)
            \cup Permutations(ClusterBody) \cup Permutations(Body \ ClusterBody)
=============================================================================
