------------------------------ MODULE RunOnce ------------------------------
(***************************************************************************)
(* What run-once mode promises, without saying how: the objects that exist *)
(* when the process lists them are each processed at most once, and the    *)
(* process stops only when all of them have been.  A process that failed   *)
(* promises nothing except that it does not report success.                *)
(***************************************************************************)
CONSTANT Objects

VARIABLES
    exists,    \* the objects there are; users change them at any time
    state,     \* "listing", "processing", "stopped" or "failed"
    listed,    \* the objects this process answers for
    processed  \* the objects it has processed

vars == <<exists, state, listed, processed>>

Init ==
    /\ exists \in SUBSET Objects
    /\ state = "listing"
    /\ listed = {}
    /\ processed = {}

Users ==
    /\ exists' \in SUBSET Objects
    /\ UNCHANGED <<state, listed, processed>>

List ==
    /\ state = "listing"
    /\ state' = "processing"
    /\ listed' = exists
    /\ UNCHANGED <<exists, processed>>

Process(o) ==
    /\ state = "processing"
    /\ o \in listed \ processed
    /\ processed' = processed \cup {o}
    /\ UNCHANGED <<exists, state, listed>>

Stop ==
    /\ state = "processing"
    /\ listed \subseteq processed
    /\ state' = "stopped"
    /\ UNCHANGED <<exists, listed, processed>>

Fail ==
    /\ state \in {"listing", "processing"}
    /\ state' = "failed"
    /\ UNCHANGED <<exists, listed, processed>>

Astray ==
    /\ state = "failed"
    /\ processed' \in SUBSET Objects
    /\ UNCHANGED <<exists, state, listed>>

Next ==
    \/ Users \/ List \/ Stop \/ Fail \/ Astray
    \/ \E o \in Objects : Process(o)

Spec == Init /\ [][Next]_vars
=============================================================================
