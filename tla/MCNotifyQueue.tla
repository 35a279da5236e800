---------------------------- MODULE MCNotifyQueue ----------------------------
EXTENDS NotifyQueue, TLC

\* Messages, workers and templates are told apart by their names only.
Interchangeable ==
    Permutations(Chains) \cup Permutations(Workers) \cup Permutations(Templates)

\* Safety needs no fairness.
SafeSpec == Init /\ [][Next]_vars
=============================================================================
