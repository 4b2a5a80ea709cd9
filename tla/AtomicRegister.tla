---------------------------- MODULE AtomicRegister ----------------------------
(***************************************************************************)
(* What StaticRCU promises: update() replaces the shared value at one      *)
(* instant, and read() gives the value of one instant, whole.              *)
(***************************************************************************)
CONSTANT Readers

VARIABLES
    handed,   \* the value last given to update()
    value,    \* the most recent version
    seen      \* per reader: the version its last read() referred to

registerVars == <<handed, value, seen>>

Init ==
    /\ value = handed
    /\ seen = [r \in Readers |-> handed]

Hand == UNCHANGED <<value, seen>>

Update ==
    /\ value' = handed
    /\ UNCHANGED <<handed, seen>>

Read(r) ==
    /\ seen' = [seen EXCEPT ![r] = value]
    /\ UNCHANGED <<handed, value>>

Next == Hand \/ Update \/ \E r \in Readers : Read(r)

Spec == Init /\ [][Next]_registerVars
=============================================================================
