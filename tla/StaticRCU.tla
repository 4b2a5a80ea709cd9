------------------------------- MODULE StaticRCU -------------------------------
(***************************************************************************)
(* StaticRCU<ValueType, num_versions>: one writer, several readers and no  *)
(* lock.  A value is a record whose parts the processor copies one by one, *)
(* in any order, both when update() assigns it to a buffer and when a      *)
(* reader copies, or prints, what the reference of read() points to.       *)
(* m_versions[i] always points to m_buffer[i] and is not modelled.         *)
(***************************************************************************)
EXTENDS Integers

CONSTANTS
    NumVersions,   \* num_versions
    Readers,       \* threads that call read()
    Parts, Value,  \* parts of a value, and the values
    FirstValue,    \* the value all versions are constructed with
    MaxBehind      \* an update begins at most so many updates after a read that
                   \* still copies: the pace of writer and readers

\* The weakest bound on the pace that keeps the writer away from a version
\* somebody copies.
RCUConstants ==
    /\ NumVersions \in Nat /\ NumVersions >= 2
    /\ MaxBehind \in Nat /\ MaxBehind <= NumVersions - 2
    /\ FirstValue \in Value
    /\ \A v \in Value : v = [p \in Parts |-> v[p]]

VARIABLES
    m_buffer,          \* [version -> [part -> data]]
    m_current_index,
    update,            \* the writer: the value it was given, parts not yet stored
    copy,              \* per reader: version, parts not yet copied, parts copied
    behind             \* history: updates published since a reader's last read()

rcuVars == <<m_buffer, m_current_index, update, copy, behind>>

Versions == 0..(NumVersions - 1)

\* Faulty variant: the version that is published is overwritten in place.
NewIndexInPlace == m_current_index

\* (m_current_index + 1) % num_versions
NewIndex == IF m_current_index = NumVersions - 1 THEN 0 ELSE m_current_index + 1

Updating == update.open
Copying(r) == copy[r].left # {}

InPace == \A r \in Readers : Copying(r) => behind[r] <= MaxBehind

Init ==
    /\ m_buffer = [i \in Versions |-> FirstValue]
    /\ m_current_index = 0
    /\ update = [open |-> FALSE, value |-> FirstValue, left |-> {}]
    /\ copy = [r \in Readers |-> [index |-> 0, left |-> {}, got |-> FirstValue]]
    /\ behind = [r \in Readers |-> 0]

\* update(v) begins ...
BeginUpdate(v) ==
    /\ ~Updating /\ InPace
    /\ update' = [open |-> TRUE, value |-> v, left |-> Parts]
    /\ UNCHANGED <<m_buffer, m_current_index, copy, behind>>

\* ... stores the value part by part in the version after the current one ...
StorePart(p) ==
    /\ p \in update.left
    /\ m_buffer' = [m_buffer EXCEPT ![NewIndex][p] = update.value[p]]
    /\ update' = [update EXCEPT !.left = @ \ {p}]
    /\ UNCHANGED <<m_current_index, copy, behind>>

\* ... and publishes it.
Publish ==
    /\ Updating /\ update.left = {}
    /\ m_current_index' = NewIndex
    /\ update' = [update EXCEPT !.open = FALSE]
    /\ behind' = [r \in Readers |-> IF Copying(r) THEN behind[r] + 1 ELSE behind[r]]
    /\ UNCHANGED <<m_buffer, copy>>

\* read() gives reader r a reference ...
Read(r) ==
    /\ ~Copying(r)
    /\ copy' = [copy EXCEPT ![r] = [index |-> m_current_index, left |-> Parts, got |-> @.got]]
    /\ behind' = [behind EXCEPT ![r] = 0]
    /\ UNCHANGED <<m_buffer, m_current_index, update>>

\* ... through which the parts of the value are copied.
CopyPart(r, p) ==
    /\ p \in copy[r].left
    /\ copy' = [copy EXCEPT ![r] =
           [index |-> @.index, left |-> @.left \ {p},
            got |-> [@.got EXCEPT ![p] = m_buffer[copy[r].index][p]]]]
    /\ UNCHANGED <<m_buffer, m_current_index, update, behind>>

Next ==
    \/ \E v \in Value : BeginUpdate(v)
    \/ \E p \in Parts : StorePart(p)
    \/ Publish
    \/ \E r \in Readers : Read(r) \/ \E p \in Parts : CopyPart(r, p)

Spec == Init /\ [][Next]_rcuVars

\* What reader r has copied of its version, completed by what it would copy now.
Seen(r) == [p \in Parts |-> IF p \in copy[r].left THEN m_buffer[copy[r].index][p]
                            ELSE copy[r].got[p]]

Register == INSTANCE AtomicRegister WITH
    handed <- update.value,
    value <- m_buffer[m_current_index],
    seen <- [r \in Readers |-> Seen(r)]

\* However reads and updates overlap, no reader ever gets parts of different
\* updates, or less than the version that was current when it called read():
\* StaticRCU (m_current_index is stored after the data it selects, and a
\* version is reused only NumVersions - 1 updates later) is an atomic register.
ReadsAreAtomic == Register!Spec
=============================================================================
