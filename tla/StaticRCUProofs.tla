---------------------------- MODULE StaticRCUProofs ----------------------------
(***************************************************************************)
(* StaticRCU implements an atomic register, for any number of readers,     *)
(* parts and versions, as long as no update begins while a reader still    *)
(* copies a version NumVersions - 1 updates old.  The inductive invariant  *)
(* says where a copying reader's version lies: behind[r] places before the *)
(* current one in the ring, which is never the place the writer fills.     *)
(***************************************************************************)
EXTENDS StaticRCU, TLAPS

\* What a part of a value can hold.
Data == {v[p] : v \in Value, p \in Parts}

\* The version k updates before the current one.
Back(k) == IF m_current_index >= k THEN m_current_index - k
           ELSE m_current_index - k + NumVersions

TypesOK ==
    /\ m_buffer \in [Versions -> [Parts -> Data]]
    /\ m_current_index \in Versions
    /\ update \in [open : BOOLEAN, value : Value, left : SUBSET Parts]
    /\ copy \in [Readers -> [index : Versions, left : SUBSET Parts, got : [Parts -> Data]]]
    /\ behind \in [Readers -> Nat]

\* What was stored so far is what update() was given.
StoredSoFar ==
    /\ ~Updating => update.left = {}
    /\ Updating => \A p \in Parts \ update.left : m_buffer[NewIndex][p] = update.value[p]

\* A reader copies the version that was current behind[r] updates ago, and
\* during an update the pace holds.
CopiesBehind ==
    \A r \in Readers : Copying(r) =>
        /\ behind[r] <= NumVersions - 1
        /\ Updating => behind[r] <= MaxBehind
        /\ copy[r].index = Back(behind[r])

IInv == TypesOK /\ StoredSoFar /\ CopiesBehind

-----------------------------------------------------------------------------
\* Every value is a function from the parts to what they can hold.
LEMMA ValueType ==
    ASSUME RCUConstants
    PROVE  Value \subseteq [Parts -> Data]
<1> SUFFICES ASSUME NEW v \in Value PROVE v \in [Parts -> Data]
  OBVIOUS
<1>1. v = [p \in Parts |-> v[p]]
  BY DEF RCUConstants
<1>2. \A p \in Parts : v[p] \in Data
  BY DEF Data
<1> QED
  BY <1>1, <1>2

\* The writer fills a version, and not the current one.
LEMMA NewIndexFacts ==
    ASSUME RCUConstants, m_current_index \in Versions
    PROVE  NewIndex \in Versions /\ NewIndex # m_current_index
BY DEF RCUConstants, Versions, NewIndex

\* The writer does not fill a version that somebody copies.
LEMMA NotCopied ==
    ASSUME RCUConstants, IInv, Updating, NEW r \in Readers, Copying(r)
    PROVE  copy[r].index # NewIndex
<1>1. behind[r] \in Nat /\ behind[r] <= NumVersions - 2
  BY DEF IInv, TypesOK, CopiesBehind, RCUConstants
<1>2. copy[r].index = Back(behind[r]) /\ m_current_index \in Versions
  BY DEF IInv, TypesOK, CopiesBehind
<1> QED
  BY <1>1, <1>2 DEF Back, NewIndex, Versions, RCUConstants

LEMMA InitInv ==
    ASSUME RCUConstants, Init
    PROVE  IInv
<1>1. FirstValue \in Value /\ FirstValue \in [Parts -> Data]
  BY ValueType DEF RCUConstants
<1>2. 0 \in Versions
  BY DEF Versions, RCUConstants
<1> QED
  BY <1>1, <1>2 DEF Init, IInv, TypesOK, StoredSoFar, CopiesBehind, Updating, Copying

-----------------------------------------------------------------------------
LEMMA BeginUpdateInv ==
    ASSUME RCUConstants, IInv, NEW v \in Value, BeginUpdate(v)
    PROVE  IInv'
<1>1. TypesOK'
  BY DEF IInv, TypesOK, BeginUpdate, Versions
<1>2. StoredSoFar'
  BY DEF IInv, StoredSoFar, BeginUpdate, Updating
<1>3. CopiesBehind'
  BY DEF IInv, CopiesBehind, BeginUpdate, Updating, InPace, Copying, Back
<1> QED
  BY <1>1, <1>2, <1>3 DEF IInv

LEMMA StorePartInv ==
    ASSUME RCUConstants, IInv, NEW p \in Parts, StorePart(p)
    PROVE  IInv'
<1>1. NewIndex \in Versions /\ NewIndex # m_current_index
  BY NewIndexFacts DEF IInv, TypesOK
<1>2. update.value \in [Parts -> Data] /\ update.left \subseteq Parts /\ p \in update.left
  BY ValueType DEF IInv, TypesOK, StorePart
<1>3. Updating
  BY <1>2 DEF IInv, StoredSoFar
<1>4. update' = [open |-> update.open, value |-> update.value, left |-> update.left \ {p}]
  BY DEF StorePart, IInv, TypesOK
<1>5. NewIndex' = NewIndex
  BY DEF StorePart, NewIndex
<1>6. TypesOK'
  <2>1. m_buffer' \in [Versions -> [Parts -> Data]]
    BY <1>1, <1>2 DEF IInv, TypesOK, StorePart
  <2>2. update' \in [open : BOOLEAN, value : Value, left : SUBSET Parts]
    BY <1>4 DEF IInv, TypesOK
  <2>3. m_current_index' = m_current_index /\ copy' = copy /\ behind' = behind
    BY DEF StorePart
  <2> QED
    BY <2>1, <2>2, <2>3 DEF IInv, TypesOK, Versions
<1>7. StoredSoFar'
  <2> SUFFICES ASSUME NEW q \in Parts \ update'.left
               PROVE  m_buffer'[NewIndex'][q] = update'.value[q]
    BY <1>3, <1>4 DEF StoredSoFar, Updating
  <2>1. m_buffer'[NewIndex] = [m_buffer[NewIndex] EXCEPT ![p] = update.value[p]]
    BY <1>1 DEF StorePart, IInv, TypesOK
  <2>2. m_buffer[NewIndex] \in [Parts -> Data]
    BY <1>1 DEF IInv, TypesOK
  <2>3. CASE q = p
    BY <2>1, <2>2, <2>3, <1>4, <1>5
  <2>4. CASE q # p
    <3>1. q \in Parts \ update.left
      BY <2>4, <1>4
    <3> QED
      BY <3>1, <2>1, <2>2, <2>4, <1>3, <1>4, <1>5 DEF IInv, StoredSoFar
  <2> QED
    BY <2>3, <2>4
<1>8. CopiesBehind'
  BY <1>4 DEF IInv, CopiesBehind, StorePart, Updating, Copying, Back
<1> QED
  BY <1>6, <1>7, <1>8 DEF IInv

LEMMA PublishInv ==
    ASSUME RCUConstants, IInv, Publish
    PROVE  IInv'
<1>1. NewIndex \in Versions /\ m_current_index' = NewIndex
  BY NewIndexFacts DEF IInv, TypesOK, Publish
<1>2. update' = [open |-> FALSE, value |-> update.value, left |-> {}]
  BY DEF Publish, IInv, TypesOK
<1>3. TypesOK'
  <2>1. behind' \in [Readers -> Nat]
    BY DEF Publish, IInv, TypesOK
  <2>2. update' \in [open : BOOLEAN, value : Value, left : SUBSET Parts]
    BY <1>2 DEF IInv, TypesOK
  <2>3. m_buffer' = m_buffer /\ copy' = copy
    BY DEF Publish
  <2> QED
    BY <1>1, <2>1, <2>2, <2>3 DEF IInv, TypesOK, Versions
<1>4. StoredSoFar'
  BY <1>2 DEF StoredSoFar, Updating
<1>5. CopiesBehind'
  <2> SUFFICES ASSUME NEW r \in Readers, Copying(r)'
               PROVE  /\ behind'[r] <= NumVersions - 1
                      /\ Updating' => behind'[r] <= MaxBehind
                      /\ copy'[r].index = Back(behind[r])' 
    BY DEF CopiesBehind
  <2>1. Copying(r) /\ copy' = copy /\ ~Updating'
    BY <1>2 DEF Publish, Copying, Updating
  <2>2. behind'[r] = behind[r] + 1 /\ behind[r] \in Nat
    BY <2>1 DEF Publish, IInv, TypesOK
  <2>3. behind[r] <= MaxBehind /\ copy[r].index = Back(behind[r])
    BY <2>1 DEF IInv, CopiesBehind, Publish
  <2>4. m_current_index \in Versions
    BY DEF IInv, TypesOK
  <2>5. behind'[r] <= NumVersions - 1
    BY <2>2, <2>3 DEF RCUConstants
  <2>6. copy'[r].index = Back(behind[r])'
    BY <1>1, <2>1, <2>2, <2>3, <2>4 DEF Back, NewIndex, Versions, RCUConstants
  <2> QED
    BY <2>1, <2>5, <2>6
<1> QED
  BY <1>3, <1>4, <1>5 DEF IInv

LEMMA ReadInv ==
    ASSUME RCUConstants, IInv, NEW r \in Readers, Read(r)
    PROVE  IInv'
<1>1. copy' = [copy EXCEPT ![r] = [index |-> m_current_index, left |-> Parts,
                                   got |-> copy[r].got]]
  BY DEF Read
<1>2. copy[r].got \in [Parts -> Data] /\ m_current_index \in Versions
  BY DEF IInv, TypesOK
<1>3. TypesOK'
  BY <1>1, <1>2 DEF IInv, TypesOK, Read, Versions
<1>4. StoredSoFar'
  BY DEF IInv, StoredSoFar, Read, Updating, NewIndex
<1>5. CopiesBehind'
  <2> SUFFICES ASSUME NEW q \in Readers, Copying(q)'
               PROVE  /\ behind'[q] <= NumVersions - 1
                      /\ Updating' => behind'[q] <= MaxBehind
                      /\ copy'[q].index = Back(behind[q])'
    BY DEF CopiesBehind
  <2>1. CASE q = r
    <3>1. behind'[q] = 0 /\ copy'[q].index = m_current_index
      BY <1>1, <2>1 DEF Read, IInv, TypesOK
    <3> QED
      BY <3>1, <1>2 DEF Read, Back, Versions, RCUConstants
  <2>2. CASE q # r
    <3>1. behind'[q] = behind[q] /\ copy'[q] = copy[q]
      BY <1>1, <2>2 DEF Read, IInv, TypesOK
    <3> QED
      BY <3>1 DEF Read, IInv, CopiesBehind, Copying, Updating, Back
  <2> QED
    BY <2>1, <2>2
<1> QED
  BY <1>3, <1>4, <1>5 DEF IInv

LEMMA CopyPartInv ==
    ASSUME RCUConstants, IInv, NEW r \in Readers, NEW p \in Parts, CopyPart(r, p)
    PROVE  IInv'
<1> DEFINE d == m_buffer[copy[r].index][p]
<1>1. d \in Data /\ copy[r].got \in [Parts -> Data] /\ copy[r].index \in Versions
      /\ copy[r].left \subseteq Parts
  BY DEF IInv, TypesOK
<1>2. copy' = [copy EXCEPT ![r] = [index |-> copy[r].index, left |-> copy[r].left \ {p},
                                   got |-> [copy[r].got EXCEPT ![p] = d]]]
  BY DEF CopyPart
<1> HIDE DEF d
<1>3. TypesOK'
  <2>1. [copy[r].got EXCEPT ![p] = d] \in [Parts -> Data]
    BY <1>1
  <2>2. copy' \in [Readers -> [index : Versions, left : SUBSET Parts, got : [Parts -> Data]]]
    BY <1>1, <1>2, <2>1 DEF IInv, TypesOK
  <2>3. UNCHANGED <<m_buffer, m_current_index, update, behind>>
    BY DEF CopyPart
  <2> QED
    BY <2>2, <2>3 DEF IInv, TypesOK, Versions
<1>4. StoredSoFar'
  BY DEF IInv, StoredSoFar, CopyPart, Updating, NewIndex
<1>5. \A q \in Readers : /\ copy'[q].index = copy[q].index
                         /\ copy'[q].left \subseteq copy[q].left
  BY <1>2 DEF IInv, TypesOK
<1>6. CopiesBehind'
  BY <1>5 DEF IInv, CopiesBehind, CopyPart, Copying, Updating, Back
<1> QED
  BY <1>3, <1>4, <1>6 DEF IInv

LEMMA NextInv ==
    ASSUME RCUConstants, IInv, [Next]_rcuVars
    PROVE  IInv'
<1>1. CASE UNCHANGED rcuVars
  BY <1>1 DEF rcuVars, IInv, TypesOK, StoredSoFar, CopiesBehind, Updating, Copying,
              NewIndex, Back, Versions
<1>2. CASE Next
  BY <1>2, BeginUpdateInv, StorePartInv, PublishInv, ReadInv, CopyPartInv DEF Next
<1> QED
  BY <1>1, <1>2

-----------------------------------------------------------------------------
\* A reader's version is whole when nothing of it was copied yet.
LEMMA InitRefines ==
    ASSUME RCUConstants, Init
    PROVE  Register!Init
<1>1. FirstValue = [p \in Parts |-> FirstValue[p]] /\ 0 \in Versions
  BY DEF RCUConstants, Versions
<1>2. m_buffer[m_current_index] = update.value
  BY <1>1 DEF Init
<1>3. \A r \in Readers : Seen(r) = update.value
  BY <1>1 DEF Init, Seen
<1> QED
  BY <1>2, <1>3 DEF Register!Init

\* What a step leaves alone of the register: the current value and what the
\* readers are taken to see.
ValueStays == m_buffer'[m_current_index'] = m_buffer[m_current_index]
SeenStays == \A r \in Readers : Seen(r)' = Seen(r)

\* update() is handed its value and changes nothing yet.
LEMMA BeginUpdateHands ==
    ASSUME NEW v \in Value, BeginUpdate(v)
    PROVE  update'.value = v /\ ValueStays /\ SeenStays
BY DEF BeginUpdate, ValueStays, SeenStays, Seen

\* Nobody sees the version that is being written.
LEMMA StorePartHidden ==
    ASSUME RCUConstants, IInv, NEW p \in Parts, StorePart(p)
    PROVE  update'.value = update.value /\ ValueStays /\ SeenStays
<1>1. Updating
  BY DEF IInv, StoredSoFar, StorePart
<1>2. update'.value = update.value
  BY DEF StorePart, IInv, TypesOK
<1>3. \A i \in Versions : i # NewIndex => m_buffer'[i] = m_buffer[i]
  BY DEF StorePart, IInv, TypesOK
<1>4. ValueStays
  BY <1>3, NewIndexFacts DEF StorePart, IInv, TypesOK, ValueStays
<1>5. ASSUME NEW r \in Readers PROVE Seen(r)' = Seen(r)
  <2>1. copy' = copy /\ copy[r].index \in Versions
    BY DEF StorePart, IInv, TypesOK
  <2>2. CASE Copying(r)
    BY <1>1, <1>3, <2>1, <2>2, NotCopied DEF Seen
  <2>3. CASE ~Copying(r)
    BY <2>1, <2>3 DEF Seen, Copying
  <2> QED
    BY <2>2, <2>3
<1> QED
  BY <1>2, <1>4, <1>5 DEF SeenStays

\* The moment of an update is the one at which its version becomes current.
LEMMA PublishUpdates ==
    ASSUME RCUConstants, IInv, Publish
    PROVE  /\ update'.value = update.value
           /\ m_buffer'[m_current_index'] = update.value
           /\ SeenStays
<1>1. m_buffer[NewIndex] \in [Parts -> Data] /\ update.value \in [Parts -> Data]
  BY NewIndexFacts, ValueType DEF IInv, TypesOK
<1>2. \A p \in Parts : m_buffer[NewIndex][p] = update.value[p]
  BY DEF Publish, IInv, StoredSoFar
<1>3. m_buffer[NewIndex] = update.value
  BY <1>1, <1>2
<1>4. update'.value = update.value /\ m_buffer'[m_current_index'] = m_buffer[NewIndex]
  BY DEF Publish, IInv, TypesOK
<1>5. SeenStays
  BY DEF Publish, Seen, SeenStays
<1> QED
  BY <1>3, <1>4, <1>5

\* The moment of a read is that of read(), whenever its parts are copied.
LEMMA ReadReads ==
    ASSUME RCUConstants, IInv, NEW r \in Readers, Read(r)
    PROVE  /\ update' = update /\ ValueStays
           /\ Seen(r)' = m_buffer[m_current_index]
           /\ \A q \in Readers \ {r} : Seen(q)' = Seen(q)
<1>1. UNCHANGED <<m_buffer, m_current_index, update>>
  BY DEF Read
<1>2. \A q \in Readers \ {r} : copy'[q] = copy[q]
  BY DEF Read, IInv, TypesOK
<1>3. copy'[r].left = Parts /\ copy'[r].index = m_current_index
  BY DEF Read, IInv, TypesOK
<1>4. Seen(r)' = [p \in Parts |-> m_buffer[m_current_index][p]]
  BY <1>1, <1>3 DEF Seen
<1>5. m_buffer[m_current_index] \in [Parts -> Data]
  BY DEF IInv, TypesOK
<1>6. Seen(r)' = m_buffer[m_current_index]
  BY <1>4, <1>5
<1>7. \A q \in Readers \ {r} : Seen(q)' = Seen(q)
  BY <1>1, <1>2 DEF Seen
<1> QED
  BY <1>1, <1>6, <1>7 DEF ValueStays

\* What is copied was already seen.
LEMMA CopyPartHidden ==
    ASSUME RCUConstants, IInv, NEW r \in Readers, NEW p \in Parts, CopyPart(r, p)
    PROVE  update' = update /\ ValueStays /\ SeenStays
<1>1. UNCHANGED <<m_buffer, m_current_index, update>>
  BY DEF CopyPart
<1>2. \A q \in Readers \ {r} : copy'[q] = copy[q]
  BY DEF CopyPart, IInv, TypesOK
<1>3. /\ copy'[r].index = copy[r].index /\ copy'[r].left = copy[r].left \ {p}
      /\ copy'[r].got = [copy[r].got EXCEPT ![p] = m_buffer[copy[r].index][p]]
  BY DEF CopyPart, IInv, TypesOK
<1>4. copy[r].got \in [Parts -> Data] /\ p \in copy[r].left
  BY DEF CopyPart, IInv, TypesOK
<1>5. \A q \in Parts : (IF q \in copy'[r].left THEN m_buffer'[copy'[r].index][q]
                        ELSE copy'[r].got[q])
                     = (IF q \in copy[r].left THEN m_buffer[copy[r].index][q]
                        ELSE copy[r].got[q])
  BY <1>1, <1>3, <1>4
<1>6. Seen(r)' = Seen(r)
  BY <1>5 DEF Seen
<1>7. \A q \in Readers \ {r} : Seen(q)' = Seen(q)
  BY <1>1, <1>2 DEF Seen
<1> QED
  BY <1>1, <1>6, <1>7 DEF ValueStays, SeenStays

\* Nothing happens.
LEMMA StutterHidden ==
    ASSUME UNCHANGED rcuVars
    PROVE  update' = update /\ ValueStays /\ SeenStays
BY DEF rcuVars, ValueStays, SeenStays, Seen

\* Every step of StaticRCU is a step of the register, or none.
LEMMA NextRefines ==
    ASSUME RCUConstants, IInv, [Next]_rcuVars
    PROVE  [Register!Next]_Register!registerVars
<1> USE DEF Register!Next, Register!registerVars, ValueStays, SeenStays
<1>1. CASE UNCHANGED rcuVars
  BY <1>1, StutterHidden
<1>2. ASSUME NEW v \in Value, BeginUpdate(v)
      PROVE  Register!Hand
  BY <1>2, BeginUpdateHands DEF Register!Hand
<1>3. ASSUME NEW p \in Parts, StorePart(p)
      PROVE  UNCHANGED Register!registerVars
  BY <1>3, StorePartHidden
<1>4. ASSUME Publish
      PROVE  Register!Update
  BY <1>4, PublishUpdates DEF Register!Update
<1>5. ASSUME NEW r \in Readers, Read(r)
      PROVE  Register!Read(r)
  BY <1>5, ReadReads DEF Register!Read
<1>6. ASSUME NEW r \in Readers, NEW p \in Parts, CopyPart(r, p)
      PROVE  UNCHANGED Register!registerVars
  BY <1>6, CopyPartHidden
<1> QED
  BY <1>1, <1>2, <1>3, <1>4, <1>5, <1>6 DEF Next

\* StaticRCU::read and update are atomic, whatever overlaps: no reader gets
\* parts of different updates, as long as an update begins at most
\* NumVersions - 2 updates after the last read() that is still being used.
THEOREM ReadsAtomic ==
    ASSUME RCUConstants
    PROVE  Spec => ReadsAreAtomic
<1>1. Spec => []IInv
  BY InitInv, NextInv, PTL DEF Spec
<1>2. Init => Register!Init
  BY InitRefines
<1>3. IInv /\ [Next]_rcuVars => [Register!Next]_Register!registerVars
  BY NextRefines
<1> QED
  BY <1>1, <1>2, <1>3, PTL DEF Spec, ReadsAreAtomic, Register!Spec
=============================================================================
