--------------------------- MODULE SessionService ---------------------------
(***************************************************************************)
(* What a session promises: it begins for everybody when everybody is in,  *)
(* ends when everybody has finished, and then the next one gathers.        *)
(***************************************************************************)
EXTENDS FiniteSets, Naturals

CONSTANTS Procs, NEp

VARIABLES
  members,       \* the processes of the session
  begun,         \* those of all sessions that have been told of the others
  finished       \* those that have finished

vars == <<members, begun, finished>>

Init == members = {} /\ begun = {} /\ finished = {}

Join(p) ==
  /\ p \notin members \cup finished
  /\ Cardinality(members) < NEp
  /\ members' = members \cup {p}
  /\ UNCHANGED <<begun, finished>>

Begin(p) ==
  /\ p \in members \ begun
  /\ Cardinality(members) = NEp
  /\ begun' = begun \cup {p}
  /\ UNCHANGED <<members, finished>>

Finish(p) ==
  /\ p \in members \cap begun
  /\ p \notin finished
  /\ finished' = finished \cup {p}
  /\ UNCHANGED <<members, begun>>

End ==
  /\ Cardinality(members) = NEp /\ members \subseteq finished
  /\ members' = {}
  /\ UNCHANGED <<begun, finished>>

Next == (\E p \in Procs : Join(p) \/ Begin(p) \/ Finish(p)) \/ End

Spec == Init /\ [][Next]_vars
=============================================================================
