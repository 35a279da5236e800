--------------------------- MODULE DurableSettings ---------------------------
(***************************************************************************)
(* What the configuration manager promises to the rest of the panel, with   *)
(* no word on files, keys, locks or merge windows.                          *)
(*                                                                         *)
(* Settings change as a whole and one change after the other: a change is   *)
(* kept first and seen next.  However the process ends, the next one serves *)
(* the settings that are kept: those seen last, or those of the change that *)
(* was under way.  Reports about an item belong to who reports: a change    *)
(* takes none back, but an item that is removed leaves none behind.         *)
(***************************************************************************)

CONSTANTS Items,     \* what may be set
          Values,    \* what an item may be set to
          Absent,    \* the item is not set
          Reports,   \* what may be reported of an item
          NoReport   \* nothing was

VARIABLES serving,   \* the panel runs
          seen,      \* the settings callers see
          kept,      \* the settings a restart would serve
          reports    \* what callers see of every item

durableVars == <<serving, seen, kept, reports>>

Settings == [Items -> Values \cup {Absent}]
Nothing == [i \in Items |-> NoReport]

\* Reports stay with the items that stay.
Staying(old, new) ==
    [i \in Items |-> IF Absent \in {old[i], new[i]} THEN NoReport ELSE reports[i]]

Init ==
    /\ ~serving
    /\ kept \in Settings /\ seen = kept
    /\ reports = Nothing

\* The panel serves what is kept; how many reports come back is another matter.
Start ==
    /\ ~serving /\ serving'
    /\ reports' \in [Items -> Reports]
    /\ \A i \in Items : seen[i] = Absent => reports'[i] = NoReport
    /\ UNCHANGED <<seen, kept>>

\* A change is kept while the one before it is seen.
Keep ==
    /\ serving /\ kept = seen
    /\ kept' \in Settings
    /\ UNCHANGED <<serving, seen, reports>>

\* It is seen when it is kept.
Show ==
    /\ serving
    /\ seen' = kept /\ reports' = Staying(seen, kept)
    /\ UNCHANGED <<serving, kept>>

Report(i) ==
    /\ serving /\ seen[i] # Absent
    /\ \E r \in Reports : reports' = [reports EXCEPT ![i] = r]
    /\ UNCHANGED <<serving, seen, kept>>

Stop ==
    /\ serving /\ ~serving'
    /\ seen' = kept /\ reports' = Nothing
    /\ UNCHANGED kept

Next == Start \/ Keep \/ Show \/ (\E i \in Items : Report(i)) \/ Stop

Spec == Init /\ [][Next]_durableVars
=============================================================================
