--------------------------- MODULE IPMXSenderProofs ---------------------------
(***************************************************************************)
(* What IPMXSender promises for any number of streams, chunks in a field   *)
(* and fields in the memory block, and any pace of the adapter.  The chunks *)
(* of a stream are numbered in the order of their commits; the tokens the  *)
(* adapter holds, and the completions that wait to be polled, are those of *)
(* consecutive numbers, and the counters of the stream say which.          *)
(***************************************************************************)
EXTENDS IPMXSender, FiniteSetTheorems, TLAPS

\* The field and the place in it of the n-th chunk, from zero, its token, and
\* the number of tracked chunks before it.
Field(n) == n \div ChunksInField
Offset(n) == n % ChunksInField
TokenOf(n) == IF Offset(n) = 0 THEN Field(n)
              ELSE IF Offset(n) = ChunksInField - 1 THEN LastChunkToken ELSE NoToken
TrackedBefore(n) == 2 * Field(n) + (IF Offset(n) = 0 THEN 0 ELSE 1)

\* The token of the k-th tracked chunk: first and last chunks alternate.
TrackedToken(k) == IF k % 2 = 0 THEN k \div 2 ELSE LastChunkToken

-----------------------------------------------------------------------------
(* Chunks, fields and tokens                                               *)

\* Field and offset of a chunk determine its number.
LEMMA QuotientRemainder ==
    ASSUME NEW q \in Nat, NEW k \in Nat \ {0}, NEW r \in 0..(k - 1)
    PROVE  (q * k + r) \div k = q /\ (q * k + r) % k = r
BY Z3

\* The chunk at a place has that place.
LEMMA Place ==
    ASSUME NEW f \in Nat, NEW o \in 0..(ChunksInField - 1)
    PROVE  Field(f * ChunksInField + o) = f /\ Offset(f * ChunksInField + o) = o
BY SettingsAssumption, QuotientRemainder DEF Field, Offset

\* Every chunk has a place.
LEMMA HasPlace ==
    ASSUME NEW n \in Nat
    PROVE  /\ Field(n) \in Nat /\ Offset(n) \in 0..(ChunksInField - 1)
           /\ n = Field(n) * ChunksInField + Offset(n)
<1>1. ChunksInField \in Nat /\ ChunksInField >= 2
  BY SettingsAssumption
<1>2. \A k \in Nat \ {0} : /\ n \div k \in Nat /\ n % k \in 0..(k - 1)
                           /\ n = (n \div k) * k + (n % k)
  BY Z3
<1> QED
  BY <1>1, <1>2 DEF Field, Offset

\* The chunk after a chunk is next in its field, or begins the next field.
LEMMA NextPlace ==
    ASSUME NEW n \in Nat
    PROVE  /\ Offset(n) < ChunksInField - 1
                  => Field(n + 1) = Field(n) /\ Offset(n + 1) = Offset(n) + 1
           /\ Offset(n) = ChunksInField - 1
                  => Field(n + 1) = Field(n) + 1 /\ Offset(n + 1) = 0
<1>1. ChunksInField \in Nat /\ ChunksInField >= 2
  BY SettingsAssumption
<1>2. /\ Field(n) \in Nat /\ Offset(n) \in 0..(ChunksInField - 1)
      /\ n = Field(n) * ChunksInField + Offset(n)
  BY HasPlace
<1>3. CASE Offset(n) < ChunksInField - 1
  <2>1. n + 1 = Field(n) * ChunksInField + (Offset(n) + 1)
    BY <1>1, <1>2
  <2>2. Offset(n) + 1 \in 0..(ChunksInField - 1)
    BY <1>1, <1>2, <1>3
  <2> QED
    BY <1>1, <1>2, <1>3, <2>1, <2>2, Place
<1>4. CASE Offset(n) = ChunksInField - 1
  <2>1. n + 1 = (Field(n) + 1) * ChunksInField + 0
    <3>1. \A f, k \in Nat : f * k + k = (f + 1) * k
      BY Z3
    <3>2. n + 1 = Field(n) * ChunksInField + ChunksInField
      BY <1>1, <1>2, <1>4
    <3> QED
      BY <1>1, <1>2, <3>1, <3>2
  <2>2. 0 \in 0..(ChunksInField - 1) /\ Field(n) + 1 \in Nat
    BY <1>1, <1>2
  <2> QED
    BY <1>1, <1>2, <1>4, <2>1, <2>2, Place
<1> QED
  BY <1>1, <1>2, <1>3, <1>4

\* The first and the last chunk of a field are the next tracked ones.
LEMMA TrackedNext ==
    ASSUME NEW n \in Nat
    PROVE  /\ TrackedBefore(n) \in Nat
           /\ IF TokenOf(n) = NoToken THEN TrackedBefore(n + 1) = TrackedBefore(n)
              ELSE /\ TokenOf(n) = TrackedToken(TrackedBefore(n))
                   /\ TrackedBefore(n + 1) = TrackedBefore(n) + 1
<1>1. ChunksInField \in Nat /\ ChunksInField >= 2
  BY SettingsAssumption
<1>2. Field(n) \in Nat /\ Offset(n) \in 0..(ChunksInField - 1)
  BY HasPlace
<1>3. /\ (2 * Field(n)) % 2 = 0 /\ (2 * Field(n)) \div 2 = Field(n)
      /\ (2 * Field(n) + 1) % 2 = 1
  BY <1>2
<1>4. CASE Offset(n) = 0
  BY <1>1, <1>2, <1>3, <1>4, NextPlace
     DEF TokenOf, TrackedBefore, TrackedToken, NoToken, LastChunkToken
<1>5. CASE Offset(n) = ChunksInField - 1
  BY <1>1, <1>2, <1>3, <1>5, NextPlace
     DEF TokenOf, TrackedBefore, TrackedToken, NoToken, LastChunkToken
<1>6. CASE Offset(n) # 0 /\ Offset(n) # ChunksInField - 1
  BY <1>1, <1>2, <1>6, NextPlace DEF TokenOf, TrackedBefore, NoToken, LastChunkToken
<1> QED
  BY <1>4, <1>5, <1>6

\* First chunks have the even numbers among the tracked ones.
LEMMA TokenParity ==
    ASSUME NEW f \in Nat
    PROVE  TrackedToken(2 * f) = f /\ TrackedToken(2 * f + 1) = LastChunkToken
BY DEF TrackedToken

-----------------------------------------------------------------------------
(* Counting in sequences                                                   *)

\* Where the elements of a sequence that are in S stand.
Positions(q, S) == {i \in DOMAIN q : q[i] \in S}

\* Occurrences counts the positions.
LEMMA OccurrencesAre ==
    ASSUME NEW q, NEW S
    PROVE  Occurrences(q, S) = Cardinality(Positions(q, S))
BY DEF Occurrences, Positions

\* A sequence is finite, and so is what is counted in it; the empty one has none.
LEMMA OccurrencesType ==
    ASSUME NEW X, NEW q \in Seq(X), NEW S
    PROVE  /\ IsFiniteSet(Positions(q, S))
           /\ Occurrences(q, S) \in Nat
           /\ q = <<>> => Occurrences(q, S) = 0
<1>1. DOMAIN q = 1..Len(q) /\ Len(q) \in Nat
  OBVIOUS
<1>2. IsFiniteSet(DOMAIN q)
  BY <1>1, FS_Interval
<1>3. Positions(q, S) \in SUBSET DOMAIN q
  BY DEF Positions
<1>4. IsFiniteSet(Positions(q, S))
  BY <1>2, <1>3, FS_Subset
<1>5. q = <<>> => Positions(q, S) = {}
  BY <1>1 DEF Positions
<1> QED
  BY <1>4, <1>5, FS_CardinalityType, FS_EmptySet, OccurrencesAre

\* An appended element counts if it is in the set.
LEMMA OccurrencesAppend ==
    ASSUME NEW X, NEW q \in Seq(X), NEW x \in X, NEW S
    PROVE  Occurrences(Append(q, x), S) = Occurrences(q, S) + IF x \in S THEN 1 ELSE 0
<1>1. /\ Len(q) \in Nat /\ DOMAIN q = 1..Len(q) /\ DOMAIN Append(q, x) = 1..(Len(q) + 1)
      /\ Append(q, x)[Len(q) + 1] = x
      /\ \A i \in 1..Len(q) : Append(q, x)[i] = q[i]
  OBVIOUS
<1>2. Positions(Append(q, x), S)
          = IF x \in S THEN Positions(q, S) \cup {Len(q) + 1} ELSE Positions(q, S)
  BY <1>1 DEF Positions
<1>3. Len(q) + 1 \notin Positions(q, S)
  BY <1>1 DEF Positions
<1>4. IsFiniteSet(Positions(q, S))
  BY OccurrencesType
<1>5. Cardinality(Positions(q, S) \cup {Len(q) + 1}) = Cardinality(Positions(q, S)) + 1
  BY <1>3, <1>4, FS_AddElement
<1>6. Occurrences(q, S) \in Nat
  BY OccurrencesType
<1>7. CASE x \in S
  BY <1>2, <1>5, <1>7, OccurrencesAre
<1>8. CASE x \notin S
  BY <1>2, <1>6, <1>8, OccurrencesAre
<1> QED
  BY <1>7, <1>8

\* And the first counts no longer when it is taken away.
LEMMA OccurrencesTail ==
    ASSUME NEW X, NEW q \in Seq(X), q # <<>>, NEW S
    PROVE  Occurrences(q, S) = Occurrences(Tail(q), S) + IF Head(q) \in S THEN 1 ELSE 0
<1> DEFINE all == Positions(q, S)
           rest == Positions(Tail(q), S)
           shift == [i \in rest |-> i + 1]
<1>1. /\ Len(q) \in Nat \ {0} /\ DOMAIN q = 1..Len(q) /\ DOMAIN Tail(q) = 1..(Len(q) - 1)
      /\ Head(q) = q[1] /\ Tail(q) \in Seq(X)
      /\ \A i \in 1..(Len(q) - 1) : Tail(q)[i] = q[i + 1]
  OBVIOUS
<1>2. IsFiniteSet(all) /\ IsFiniteSet(rest)
  BY <1>1, OccurrencesType
<1>3. Cardinality(all) \in Nat /\ Cardinality(rest) \in Nat
  BY <1>2, FS_CardinalityType
<1>4. shift \in Bijection(rest, all \ {1})
  <2>1. shift \in [rest -> all \ {1}]
    BY <1>1 DEF Positions
  <2>2. \A i, j \in rest : shift[i] = shift[j] => i = j
    BY <1>1 DEF Positions
  <2>3. \A k \in all \ {1} : k - 1 \in rest /\ shift[k - 1] = k
    BY <1>1 DEF Positions
  <2> QED
    BY <2>1, <2>2, <2>3 DEF Bijection, Injection, Surjection, IsInjective
<1>5. IsFiniteSet(all \ {1})
      /\ Cardinality(all \ {1}) = IF 1 \in all THEN Cardinality(all) - 1 ELSE Cardinality(all)
  BY <1>2, FS_RemoveElement
<1>6. Cardinality(all \ {1}) = Cardinality(rest)
  BY <1>2, <1>4, FS_Bijection DEF ExistsBijection
<1>7. 1 \in all <=> Head(q) \in S
  BY <1>1 DEF Positions
<1> HIDE DEF all, rest
<1>8. Cardinality(all) = Cardinality(rest) + IF Head(q) \in S THEN 1 ELSE 0
  BY <1>3, <1>5, <1>6, <1>7
<1> QED
  BY <1>8, OccurrencesAre DEF all, rest

\* Where the elements of a shortened or extended sequence come from.
LEMMA SequenceSteps ==
    ASSUME NEW X, NEW q \in Seq(X)
    PROVE  /\ Len(q) \in Nat /\ \A i \in 1..Len(q) : q[i] \in X
           /\ \A x \in X : /\ Append(q, x) \in Seq(X) /\ Len(Append(q, x)) = Len(q) + 1
                           /\ Append(q, x)[Len(q) + 1] = x
                           /\ \A i \in 1..Len(q) : Append(q, x)[i] = q[i]
           /\ q # <<>> => /\ Head(q) = q[1] /\ Head(q) \in X /\ Len(q) >= 1
                          /\ Tail(q) \in Seq(X) /\ Len(Tail(q)) = Len(q) - 1
                          /\ \A i \in 1..(Len(q) - 1) : Tail(q)[i] = q[i + 1]
           /\ q = <<>> <=> Len(q) = 0
OBVIOUS

-----------------------------------------------------------------------------
(* One stream: its counters c, the tokens q of the chunks the adapter has,  *)
(* and the completions d that wait to be polled                            *)

Tokens == TrackedTokens \cup {NoToken}

CommittedChunks(c) == c.committed_fields * ChunksInField + c.chunk_in_field_counter
SentChunks(c, q) == CommittedChunks(c) - Len(q)
FinishedTracked(c) == c.finished_first_chunks + c.finished_fields

\* First chunks lead fields by the one under way, on either side.
CountersAgree(c) ==
    /\ c.committed_first_chunks
           = c.committed_fields + (IF c.chunk_in_field_counter = 0 THEN 0 ELSE 1)
    /\ c.finished_first_chunks \in {c.finished_fields, c.finished_fields + 1}
    /\ c.committed_first_chunks <= c.finished_fields + FieldsInMemBlock

\* The adapter holds the last chunks committed, in order.
QueueAgrees(c, q) ==
    /\ SentChunks(c, q) \in Nat
    /\ \A i \in 1..Len(q) : q[i] = TokenOf(SentChunks(c, q) + i - 1)

\* The tracked ones among those it sent are finished or wait, in order.
DoneAgrees(c, q, d) ==
    /\ FinishedTracked(c) + Len(d) = TrackedBefore(SentChunks(c, q))
    /\ \A i \in 1..Len(d) : d[i] = TrackedToken(FinishedTracked(c) + i - 1)

\* First and last chunks committed and not finished, in total.
InFlight(c, q, d) ==
    Len(d) + Occurrences(q, TrackedTokens) + c.finished_first_chunks + c.finished_fields
        = c.committed_first_chunks + c.committed_fields

Aligned(c, q, d) ==
    CountersAgree(c) /\ QueueAgrees(c, q) /\ DoneAgrees(c, q, d) /\ InFlight(c, q, d)

\* Facts about the counters that every step on a stream uses.
LEMMA CounterTypes ==
    ASSUME NEW c \in Counters
    PROVE  /\ c.committed_fields \in Nat /\ c.finished_fields \in Nat
           /\ c.committed_first_chunks \in Nat /\ c.finished_first_chunks \in Nat
           /\ c.committed_reports \in Nat /\ c.finished_reports \in Nat
           /\ c.chunk_in_field_counter \in 0..(ChunksInField - 1)
           /\ ChunksInField \in Nat /\ ChunksInField >= 2 /\ FieldsInMemBlock \in Nat \ {0}
           /\ CommittedChunks(c) \in Nat /\ FinishedTracked(c) \in Nat
           /\ Field(CommittedChunks(c)) = c.committed_fields
           /\ Offset(CommittedChunks(c)) = c.chunk_in_field_counter
<1>1. /\ c.committed_fields \in Nat /\ c.finished_fields \in Nat
      /\ c.committed_first_chunks \in Nat /\ c.finished_first_chunks \in Nat
      /\ c.committed_reports \in Nat /\ c.finished_reports \in Nat
      /\ c.chunk_in_field_counter \in 0..(ChunksInField - 1)
      /\ ChunksInField \in Nat /\ ChunksInField >= 2 /\ FieldsInMemBlock \in Nat \ {0}
  BY SettingsAssumption DEF Counters
<1>2. \A a, b \in Nat : a * b \in Nat
  BY Z3
<1>3. CommittedChunks(c) \in Nat /\ FinishedTracked(c) \in Nat
  BY <1>1, <1>2 DEF CommittedChunks, FinishedTracked
<1>4. /\ Field(CommittedChunks(c)) = c.committed_fields
      /\ Offset(CommittedChunks(c)) = c.chunk_in_field_counter
  BY <1>1, Place DEF CommittedChunks
<1> QED
  BY <1>1, <1>3, <1>4

\* TokenFor gives the next chunk its token.
LEMMA TokenOfNext ==
    ASSUME NEW c \in Counters,
           c.committed_first_chunks
               = c.committed_fields + (IF c.chunk_in_field_counter = 0 THEN 0 ELSE 1)
    PROVE  TokenFor(c) = TokenOf(CommittedChunks(c)) /\ TokenFor(c) \in Tokens
BY CounterTypes DEF TokenFor, TokenOf, Tokens, TrackedTokens

\* What committing and finishing do to the counters, one by one.
LEMMA CommittedFields ==
    ASSUME NEW c \in Counters
    PROVE  LET e == Committed(c)
           IN  /\ e \in Counters
               /\ e.committed_reports = c.committed_reports
               /\ e.finished_reports = c.finished_reports
               /\ e.finished_fields = c.finished_fields
               /\ e.finished_first_chunks = c.finished_first_chunks
               /\ e.committed_first_chunks
                      = IF c.chunk_in_field_counter = 0 THEN c.committed_first_chunks + 1
                        ELSE c.committed_first_chunks
               /\ IF c.chunk_in_field_counter + 1 = ChunksInField
                  THEN e.chunk_in_field_counter = 0 /\ e.committed_fields = c.committed_fields + 1
                  ELSE /\ e.chunk_in_field_counter = c.chunk_in_field_counter + 1
                       /\ e.committed_fields = c.committed_fields
<1> DEFINE n == c.chunk_in_field_counter + 1
           first == IF n = 1 THEN c.committed_first_chunks + 1 ELSE c.committed_first_chunks
           place == IF n = ChunksInField THEN 0 ELSE n
           fields == IF n = ChunksInField THEN c.committed_fields + 1 ELSE c.committed_fields
           e == [[[[c EXCEPT !.chunk_pending = FALSE] EXCEPT !.committed_first_chunks = first]
                   EXCEPT !.chunk_in_field_counter = place] EXCEPT !.committed_fields = fields]
<1>1. Committed(c) = e
  BY Zenon DEF Committed
<1>2. /\ c.committed_fields \in Nat /\ c.committed_first_chunks \in Nat
      /\ c.chunk_in_field_counter \in 0..(ChunksInField - 1)
      /\ ChunksInField \in Nat /\ ChunksInField >= 2
  BY CounterTypes
<1>3. first \in Nat /\ place \in 0..(ChunksInField - 1) /\ fields \in Nat
  BY <1>2
<1>4. first = IF c.chunk_in_field_counter = 0 THEN c.committed_first_chunks + 1
              ELSE c.committed_first_chunks
  BY <1>2
<1> HIDE DEF first, place, fields
<1>5. /\ e \in Counters
      /\ e.committed_reports = c.committed_reports /\ e.finished_reports = c.finished_reports
      /\ e.finished_fields = c.finished_fields
      /\ e.finished_first_chunks = c.finished_first_chunks
      /\ e.committed_first_chunks = first /\ e.chunk_in_field_counter = place
      /\ e.committed_fields = fields
  BY <1>3 DEF Counters
<1> HIDE DEF e
<1> QED
  BY <1>1, <1>4, <1>5 DEF place, fields

\* The counters after process_media_completion.
LEMMA FinishedFields ==
    ASSUME NEW c \in Counters, NEW token
    PROVE  LET e == Finished(c, token)
           IN  /\ e \in Counters
               /\ e.committed_reports = c.committed_reports
               /\ e.finished_reports = c.finished_reports
               /\ e.committed_fields = c.committed_fields
               /\ e.committed_first_chunks = c.committed_first_chunks
               /\ e.chunk_in_field_counter = c.chunk_in_field_counter
               /\ IF token = LastChunkToken
                  THEN /\ e.finished_fields = c.finished_fields + 1
                       /\ e.finished_first_chunks = c.finished_first_chunks
                  ELSE /\ e.finished_fields = c.finished_fields
                       /\ e.finished_first_chunks = c.finished_first_chunks + 1
<1>1. c.finished_fields + 1 \in Nat /\ c.finished_first_chunks + 1 \in Nat
  BY CounterTypes
<1>2. CASE token = LastChunkToken
  BY <1>1, <1>2 DEF Finished, Counters
<1>3. CASE token # LastChunkToken
  BY <1>1, <1>3 DEF Finished, Counters
<1> QED
  BY <1>2, <1>3

\* The products of the numbering are linear in the number of fields.
LEMMA NextMultiple ==
    ASSUME NEW f \in Nat, NEW k \in Nat
    PROVE  f * k \in Nat /\ (f + 1) * k = f * k + k
BY Z3

\* Multiples add up and keep the order.
LEMMA AddMultiples ==
    ASSUME NEW f \in Nat, NEW g \in Nat, NEW k \in Nat
    PROVE  (f + g) * k = f * k + g * k /\ (f <= g => f * k <= g * k)
BY Z3

\* One taken from the left summand, one added to another.
LEMMA OneMoved ==
    ASSUME NEW l \in Nat, NEW o \in Nat, NEW f \in Nat, NEW g \in Nat, l + o + f + g \in Nat
    PROVE  /\ (l - 1) + o + (f + 1) + g = l + o + f + g
           /\ (l - 1) + o + f + (g + 1) = l + o + f + g
OBVIOUS

\* The adapter sends the oldest chunk it has.
LEMMA AlignedSend ==
    ASSUME NEW c \in Counters, NEW q \in Seq(Tokens), NEW d \in Seq(TrackedTokens),
           Aligned(c, q, d), q # <<>>
    PROVE  Aligned(c, Tail(q), IF Head(q) = NoToken THEN d ELSE Append(d, Head(q)))
<1> DEFINE m == SentChunks(c, q)
           p == FinishedTracked(c)
           d2 == IF Head(q) = NoToken THEN d ELSE Append(d, Head(q))
<1>0. CountersAgree(c) /\ QueueAgrees(c, q) /\ DoneAgrees(c, q, d) /\ InFlight(c, q, d)
  BY DEF Aligned
<1>1. m \in Nat /\ p \in Nat /\ CommittedChunks(c) \in Nat
  BY <1>0, CounterTypes DEF QueueAgrees
<1>2. /\ Len(q) \in Nat /\ Len(q) >= 1 /\ Head(q) = q[1] /\ Head(q) \in Tokens
      /\ Tail(q) \in Seq(Tokens) /\ Len(Tail(q)) = Len(q) - 1
      /\ \A i \in 1..(Len(q) - 1) : Tail(q)[i] = q[i + 1]
  BY SequenceSteps
<1>3. SentChunks(c, Tail(q)) = m + 1
  BY <1>1, <1>2 DEF SentChunks
<1>4. Head(q) = TokenOf(m)
  BY <1>0, <1>1, <1>2 DEF QueueAgrees
<1>5. QueueAgrees(c, Tail(q))
  <2>1. ASSUME NEW i \in 1..(Len(q) - 1) PROVE Tail(q)[i] = TokenOf((m + 1) + i - 1)
    <3>1. i + 1 \in 1..Len(q) /\ m + (i + 1) - 1 = (m + 1) + i - 1
      BY <1>1, <1>2
    <3>2. q[i + 1] = TokenOf(m + (i + 1) - 1)
      BY <1>0, <3>1 DEF QueueAgrees
    <3> QED
      BY <1>2, <3>1, <3>2
  <2> QED
    BY <1>1, <1>2, <1>3, <2>1 DEF QueueAgrees
<1>6. Occurrences(q, TrackedTokens)
          = Occurrences(Tail(q), TrackedTokens) + IF Head(q) = NoToken THEN 0 ELSE 1
  <2>1. Head(q) \in TrackedTokens <=> Head(q) # NoToken
    BY <1>2 DEF Tokens, TrackedTokens, NoToken, LastChunkToken
  <2>2. Occurrences(q, TrackedTokens)
            = Occurrences(Tail(q), TrackedTokens) + IF Head(q) \in TrackedTokens THEN 1 ELSE 0
    BY OccurrencesTail
  <2> QED
    BY <2>1, <2>2
<1>7. /\ Occurrences(Tail(q), TrackedTokens) \in Nat /\ Len(d) \in Nat
  <2>1. Occurrences(Tail(q), TrackedTokens) \in Nat
    BY <1>2, OccurrencesType
  <2> QED
    BY <2>1, SequenceSteps
<1>8. TrackedBefore(m) \in Nat /\ p + Len(d) = TrackedBefore(m)
  BY <1>0, <1>1, TrackedNext DEF DoneAgrees
<1>9. CASE Head(q) = NoToken
  <2>1. TrackedBefore(m + 1) = TrackedBefore(m) /\ d2 = d
    BY <1>1, <1>4, <1>9, TrackedNext
  <2>2. DoneAgrees(c, Tail(q), d)
    BY <1>0, <1>3, <2>1 DEF DoneAgrees
  <2>3. InFlight(c, Tail(q), d)
    BY <1>0, <1>6, <1>7, <1>9 DEF InFlight
  <2> QED
    BY <1>0, <1>5, <2>1, <2>2, <2>3 DEF Aligned
<1>10. CASE Head(q) # NoToken
  <2>1. TrackedBefore(m + 1) = TrackedBefore(m) + 1 /\ Head(q) = TrackedToken(TrackedBefore(m))
    BY <1>1, <1>4, <1>10, TrackedNext
  <2>2. Head(q) \in TrackedTokens
    BY <1>2, <1>10 DEF Tokens
  <2>3. /\ d2 = Append(d, Head(q)) /\ Len(d2) = Len(d) + 1 /\ d2[Len(d) + 1] = Head(q)
        /\ \A i \in 1..Len(d) : d2[i] = d[i]
    BY <1>10, <2>2, SequenceSteps
  <2> HIDE DEF d2
  <2>4. ASSUME NEW i \in 1..(Len(d) + 1) PROVE d2[i] = TrackedToken(p + i - 1)
    <3>1. CASE i \in 1..Len(d)
      BY <1>0, <2>3, <3>1 DEF DoneAgrees
    <3>2. CASE i = Len(d) + 1
      <4>1. p + i - 1 = TrackedBefore(m)
        BY <1>1, <1>7, <1>8, <3>2
      <4> QED
        BY <2>1, <2>3, <3>2, <4>1
    <3> QED
      BY <1>7, <3>1, <3>2
  <2>5. p + Len(d2) = TrackedBefore(m + 1)
    BY <1>1, <1>7, <1>8, <2>1, <2>3
  <2>6. DoneAgrees(c, Tail(q), d2)
    BY <1>3, <2>3, <2>4, <2>5 DEF DoneAgrees
  <2>7. InFlight(c, Tail(q), d2)
    BY <1>0, <1>6, <1>7, <1>10, <2>3 DEF InFlight
  <2>8. Aligned(c, Tail(q), d2)
    BY <1>0, <1>5, <2>6, <2>7 DEF Aligned
  <2> QED
    BY <2>8 DEF d2
<1> QED
  BY <1>9, <1>10

\* The thread commits the next chunk, into a field there is room for.
LEMMA AlignedCommit ==
    ASSUME NEW c \in Counters, NEW q \in Seq(Tokens), NEW d \in Seq(TrackedTokens),
           Aligned(c, q, d), HasFreeFrameBuffer(c)
    PROVE  Aligned(Committed(c), Append(q, TokenFor(c)), d)
<1> DEFINE n == CommittedChunks(c)
           m == SentChunks(c, q)
           t == TokenFor(c)
           q2 == Append(q, t)
           k == c.chunk_in_field_counter
<1>0. CountersAgree(c) /\ QueueAgrees(c, q) /\ DoneAgrees(c, q, d) /\ InFlight(c, q, d)
  BY DEF Aligned
<1>1. /\ c.committed_fields \in Nat /\ c.finished_fields \in Nat
      /\ c.committed_first_chunks \in Nat /\ c.finished_first_chunks \in Nat
      /\ k \in 0..(ChunksInField - 1)
      /\ ChunksInField \in Nat /\ ChunksInField >= 2 /\ FieldsInMemBlock \in Nat
      /\ n \in Nat
  BY CounterTypes
<1>2. t = TokenOf(n) /\ t \in Tokens
  BY <1>0, TokenOfNext DEF CountersAgree
<1>3. /\ Len(q) \in Nat /\ Len(q2) = Len(q) + 1 /\ q2[Len(q) + 1] = t
      /\ \A i \in 1..Len(q) : q2[i] = q[i]
  BY <1>2, SequenceSteps
<1>4. PICK e \in Counters :
        /\ e = Committed(c)
        /\ e.finished_fields = c.finished_fields
        /\ e.finished_first_chunks = c.finished_first_chunks
        /\ e.committed_first_chunks
               = IF k = 0 THEN c.committed_first_chunks + 1 ELSE c.committed_first_chunks
        /\ IF k + 1 = ChunksInField
           THEN e.chunk_in_field_counter = 0 /\ e.committed_fields = c.committed_fields + 1
           ELSE /\ e.chunk_in_field_counter = k + 1
                /\ e.committed_fields = c.committed_fields
  BY CommittedFields
<1>5. /\ c.committed_first_chunks = c.committed_fields + (IF k = 0 THEN 0 ELSE 1)
      /\ c.finished_first_chunks \in {c.finished_fields, c.finished_fields + 1}
      /\ c.committed_fields < c.finished_fields + FieldsInMemBlock
      /\ c.committed_first_chunks <= c.finished_fields + FieldsInMemBlock
  BY <1>0 DEF CountersAgree, HasFreeFrameBuffer
<1>6. CountersAgree(e)
  <2>1. e.finished_fields = c.finished_fields /\ e.finished_first_chunks = c.finished_first_chunks
    BY <1>4
  <2>2. CASE k = 0
    <3>1. /\ e.committed_first_chunks = c.committed_first_chunks + 1
          /\ e.committed_fields = c.committed_fields /\ e.chunk_in_field_counter = 1
      BY <1>1, <1>4, <2>2
    <3> QED
      BY <1>1, <1>5, <2>1, <2>2, <3>1 DEF CountersAgree
  <2>3. CASE k = ChunksInField - 1
    <3>1. /\ e.committed_first_chunks = c.committed_first_chunks
          /\ e.committed_fields = c.committed_fields + 1 /\ e.chunk_in_field_counter = 0
      BY <1>1, <1>4, <2>3
    <3>2. c.committed_first_chunks = c.committed_fields + 1
      BY <1>1, <1>5, <2>3
    <3> QED
      BY <1>1, <1>5, <2>1, <3>1, <3>2 DEF CountersAgree
  <2>4. CASE k # 0 /\ k # ChunksInField - 1
    <3>1. /\ e.committed_first_chunks = c.committed_first_chunks
          /\ e.committed_fields = c.committed_fields /\ e.chunk_in_field_counter = k + 1
      BY <1>1, <1>4, <2>4
    <3> QED
      BY <1>1, <1>5, <2>1, <2>4, <3>1 DEF CountersAgree
  <2> QED
    BY <2>2, <2>3, <2>4
<1>7. CommittedChunks(e) = n + 1
  <2> DEFINE product == c.committed_fields * ChunksInField
  <2>1. product \in Nat /\ (c.committed_fields + 1) * ChunksInField = product + ChunksInField
    BY <1>1, NextMultiple
  <2>2. n = product + k
    BY DEF CommittedChunks
  <2>3. CASE k + 1 = ChunksInField
    <3>1. e.committed_fields = c.committed_fields + 1 /\ e.chunk_in_field_counter = 0
      BY <1>4, <2>3
    <3>2. CommittedChunks(e) = (product + ChunksInField) + 0
      BY <2>1, <3>1 DEF CommittedChunks
    <3>3. product \in Nat
      BY <2>1
    <3> HIDE DEF product, n
    <3> QED
      BY <1>1, <2>2, <2>3, <3>2, <3>3, SMTT(30)
  <2>4. CASE k + 1 # ChunksInField
    <3>1. CommittedChunks(e) = product + (k + 1)
      BY <1>4, <2>4 DEF CommittedChunks
    <3> HIDE DEF product, n
    <3> QED
      BY <1>1, <2>1, <2>2, <3>1
  <2> QED
    BY <2>3, <2>4
<1>8. SentChunks(e, q2) = m /\ m \in Nat /\ m + Len(q) = n
  <2>1. m \in Nat /\ m = n - Len(q) /\ SentChunks(e, q2) = CommittedChunks(e) - Len(q2)
    BY <1>0 DEF QueueAgrees, SentChunks
  <2> HIDE DEF m, n, q2
  <2> QED
    BY <1>1, <1>3, <1>7, <2>1
<1> HIDE DEF q2, m, n
<1>9. QueueAgrees(e, q2)
  <2>1. ASSUME NEW i \in 1..(Len(q) + 1) PROVE q2[i] = TokenOf(m + i - 1)
    <3>1. CASE i \in 1..Len(q)
      BY <1>0, <1>3, <3>1 DEF QueueAgrees, m
    <3>2. CASE i = Len(q) + 1
      <4>1. m + i - 1 = n
        BY <1>3, <1>8, <3>2
      <4> QED
        BY <1>2, <1>3, <3>2, <4>1
    <3> QED
      BY <1>3, <3>1, <3>2
  <2> QED
    BY <1>3, <1>8, <2>1 DEF QueueAgrees
<1>10. DoneAgrees(e, q2, d)
  <2>1. FinishedTracked(e) = FinishedTracked(c)
    BY <1>4 DEF FinishedTracked
  <2> QED
    BY <1>0, <1>8, <2>1 DEF DoneAgrees, m
<1>11. InFlight(e, q2, d)
  <2>1. Occurrences(q2, TrackedTokens)
            = Occurrences(q, TrackedTokens) + IF t \in TrackedTokens THEN 1 ELSE 0
    BY <1>2, OccurrencesAppend DEF q2
  <2>2. Occurrences(q, TrackedTokens) \in Nat /\ Len(d) \in Nat
    BY OccurrencesType, SequenceSteps
  <2>3. t \in TrackedTokens <=> k = 0 \/ k = ChunksInField - 1
    BY <1>1 DEF TokenFor, TrackedTokens, NoToken, LastChunkToken
  <2>4. Len(d) + Occurrences(q, TrackedTokens) + c.finished_first_chunks + c.finished_fields
            = c.committed_first_chunks + c.committed_fields
    BY <1>0 DEF InFlight
  <2>8. e.finished_fields = c.finished_fields /\ e.finished_first_chunks = c.finished_first_chunks
    BY <1>4
  <2>9. /\ Len(d) + (Occurrences(q, TrackedTokens) + 1) + c.finished_first_chunks + c.finished_fields
               = (c.committed_first_chunks + 1) + c.committed_fields
        /\ Len(d) + (Occurrences(q, TrackedTokens) + 1) + c.finished_first_chunks + c.finished_fields
               = c.committed_first_chunks + (c.committed_fields + 1)
    <3> DEFINE l == Len(d)
               o == Occurrences(q, TrackedTokens)
               f == c.finished_first_chunks
               g == c.finished_fields
               x == c.committed_first_chunks
               y == c.committed_fields
    <3>1. l \in Nat /\ o \in Nat /\ f \in Nat /\ g \in Nat /\ x \in Nat /\ y \in Nat
      BY <1>1, <2>2
    <3>2. l + o + f + g = x + y
      BY <2>4
    <3> HIDE DEF l, o, f, g, x, y
    <3>3. l + (o + 1) + f + g = (x + 1) + y /\ l + (o + 1) + f + g = x + (y + 1)
      BY <3>1, <3>2
    <3> QED
      BY <3>3 DEF l, o, f, g, x, y
  <2> HIDE DEF t
  <2>5. CASE k = 0
    <3>1. /\ e.committed_first_chunks = c.committed_first_chunks + 1
          /\ e.committed_fields = c.committed_fields
      BY <1>1, <1>4, <2>5
    <3>2. Occurrences(q2, TrackedTokens) = Occurrences(q, TrackedTokens) + 1
      BY <2>1, <2>2, <2>3, <2>5
    <3> QED
      BY <2>8, <2>9, <3>1, <3>2 DEF InFlight
  <2>6. CASE k = ChunksInField - 1
    <3>1. /\ e.committed_first_chunks = c.committed_first_chunks
          /\ e.committed_fields = c.committed_fields + 1
      BY <1>1, <1>4, <2>6
    <3>2. Occurrences(q2, TrackedTokens) = Occurrences(q, TrackedTokens) + 1
      BY <2>1, <2>2, <2>3, <2>6
    <3> QED
      BY <2>8, <2>9, <3>1, <3>2 DEF InFlight
  <2>7. CASE k # 0 /\ k # ChunksInField - 1
    <3>1. /\ e.committed_first_chunks = c.committed_first_chunks
          /\ e.committed_fields = c.committed_fields
      BY <1>1, <1>4, <2>7
    <3>2. Occurrences(q2, TrackedTokens) = Occurrences(q, TrackedTokens) + 0
      BY <2>1, <2>2, <2>3, <2>7
    <3> QED
      BY <1>1, <2>2, <2>4, <2>8, <3>1, <3>2 DEF InFlight
  <2> QED
    BY <2>5, <2>6, <2>7
<1>12. Aligned(e, q2, d)
  BY <1>6, <1>9, <1>10, <1>11 DEF Aligned
<1> QED
  BY <1>4, <1>12 DEF q2

\* A polled completion carries the token the thread expects, and counting it
\* keeps the stream aligned.
LEMMA AlignedFinish ==
    ASSUME NEW c \in Counters, NEW q \in Seq(Tokens), NEW d \in Seq(TrackedTokens),
           Aligned(c, q, d), d # <<>>
    PROVE  /\ Head(d) \in {LastChunkToken, c.finished_first_chunks}
           /\ Aligned(Finished(c, Head(d)), q, Tail(d))
<1> DEFINE p == FinishedTracked(c)
           d2 == Tail(d)
<1>0. CountersAgree(c) /\ QueueAgrees(c, q) /\ DoneAgrees(c, q, d) /\ InFlight(c, q, d)
  BY DEF Aligned
<1>1. /\ c.finished_fields \in Nat /\ c.finished_first_chunks \in Nat /\ p \in Nat
      /\ c.committed_fields \in Nat /\ c.committed_first_chunks \in Nat
      /\ FieldsInMemBlock \in Nat
  BY CounterTypes
<1>2. /\ Len(d) \in Nat /\ Len(d) >= 1 /\ Head(d) = d[1]
      /\ Len(d2) = Len(d) - 1 /\ \A i \in 1..(Len(d) - 1) : d2[i] = d[i + 1]
  BY SequenceSteps
<1>3. Head(d) = TrackedToken(p)
  BY <1>0, <1>1, <1>2 DEF DoneAgrees
<1>4. \/ c.finished_first_chunks = c.finished_fields /\ Head(d) = c.finished_first_chunks
      \/ c.finished_first_chunks = c.finished_fields + 1 /\ Head(d) = LastChunkToken
  <2>1. CASE c.finished_first_chunks = c.finished_fields
    <3>1. p = 2 * c.finished_first_chunks
      BY <1>1, <2>1 DEF FinishedTracked
    <3> QED
      BY <1>1, <1>3, <2>1, <3>1, TokenParity
  <2>2. CASE c.finished_first_chunks = c.finished_fields + 1
    <3>1. p = 2 * c.finished_fields + 1
      BY <1>1, <2>2 DEF FinishedTracked
    <3> QED
      BY <1>1, <1>3, <2>2, <3>1, TokenParity
  <2> QED
    BY <1>0, <2>1, <2>2 DEF CountersAgree
<1>5. PICK e \in Counters :
        /\ e = Finished(c, Head(d))
        /\ e.committed_fields = c.committed_fields
        /\ e.committed_first_chunks = c.committed_first_chunks
        /\ e.chunk_in_field_counter = c.chunk_in_field_counter
        /\ IF Head(d) = LastChunkToken
           THEN /\ e.finished_fields = c.finished_fields + 1
                /\ e.finished_first_chunks = c.finished_first_chunks
           ELSE /\ e.finished_fields = c.finished_fields
                /\ e.finished_first_chunks = c.finished_first_chunks + 1
  BY FinishedFields
<1>6. \/ /\ c.finished_first_chunks = c.finished_fields
         /\ e.finished_fields = c.finished_fields
         /\ e.finished_first_chunks = c.finished_first_chunks + 1
      \/ /\ c.finished_first_chunks = c.finished_fields + 1
         /\ e.finished_fields = c.finished_fields + 1
         /\ e.finished_first_chunks = c.finished_first_chunks
  BY <1>1, <1>4, <1>5 DEF LastChunkToken
<1>7. CountersAgree(e)
  <2>1. c.committed_first_chunks
            = c.committed_fields + (IF c.chunk_in_field_counter = 0 THEN 0 ELSE 1)
        /\ c.committed_first_chunks <= c.finished_fields + FieldsInMemBlock
    BY <1>0 DEF CountersAgree
  <2> QED
    BY <1>1, <1>5, <1>6, <2>1, SMTT(30) DEF CountersAgree
<1>8. FinishedTracked(e) = p + 1
  BY <1>1, <1>6 DEF FinishedTracked
<1>9. SentChunks(e, q) = SentChunks(c, q)
  BY <1>5 DEF SentChunks, CommittedChunks
<1>10. QueueAgrees(e, q)
  BY <1>0, <1>9 DEF QueueAgrees
<1> HIDE DEF d2, p
<1>11. DoneAgrees(e, q, d2)
  <2>1. ASSUME NEW i \in 1..(Len(d) - 1) PROVE d2[i] = TrackedToken((p + 1) + i - 1)
    <3>1. i + 1 \in 1..Len(d) /\ p + (i + 1) - 1 = (p + 1) + i - 1
      BY <1>1, <1>2
    <3>2. d[i + 1] = TrackedToken(p + (i + 1) - 1)
      BY <1>0, <3>1 DEF DoneAgrees, p
    <3> QED
      BY <1>2, <3>1, <3>2
  <2>2. p + Len(d) = TrackedBefore(SentChunks(c, q))
    BY <1>0 DEF DoneAgrees, p
  <2>3. (p + 1) + Len(d2) = p + Len(d)
    BY <1>1, <1>2
  <2> QED
    BY <1>2, <1>8, <1>9, <2>1, <2>2, <2>3 DEF DoneAgrees
<1>12. InFlight(e, q, d2)
  <2>1. Occurrences(q, TrackedTokens) \in Nat
    BY OccurrencesType
  <2>2. Len(d) + Occurrences(q, TrackedTokens) + c.finished_first_chunks + c.finished_fields
            = c.committed_first_chunks + c.committed_fields
    BY <1>0 DEF InFlight
  <2>3. /\ e.committed_fields = c.committed_fields
        /\ e.committed_first_chunks = c.committed_first_chunks
        /\ Len(d) \in Nat /\ Len(d2) = Len(d) - 1
    BY <1>2, <1>5
  <2>4. Len(d) + Occurrences(q, TrackedTokens) + c.finished_first_chunks + c.finished_fields \in Nat
    BY <1>1, <2>2
  <2>5. LET sum == Len(d) + Occurrences(q, TrackedTokens)
                       + c.finished_first_chunks + c.finished_fields
        IN  /\ (Len(d) - 1) + Occurrences(q, TrackedTokens)
                    + (c.finished_first_chunks + 1) + c.finished_fields = sum
            /\ (Len(d) - 1) + Occurrences(q, TrackedTokens)
                    + c.finished_first_chunks + (c.finished_fields + 1) = sum
    BY <1>1, <2>1, <2>3, <2>4, OneMoved, SMTT(30)
  <2>6. \/ /\ e.finished_fields = c.finished_fields
           /\ e.finished_first_chunks = c.finished_first_chunks + 1
        \/ /\ e.finished_fields = c.finished_fields + 1
           /\ e.finished_first_chunks = c.finished_first_chunks
    BY <1>6
  <2>7. Len(d2) + Occurrences(q, TrackedTokens) + e.finished_first_chunks + e.finished_fields
            = Len(d) + Occurrences(q, TrackedTokens) + c.finished_first_chunks + c.finished_fields
    BY <2>3, <2>5, <2>6
  <2> QED
    BY <2>2, <2>3, <2>7 DEF InFlight
<1>13. Aligned(e, q, d2)
  BY <1>7, <1>10, <1>11, <1>12 DEF Aligned
<1> QED
  BY <1>4, <1>5, <1>13 DEF d2

\* Nothing else in the counters concerns the chunks.
LEMMA AlignedSame ==
    ASSUME NEW c \in Counters, NEW e \in Counters, NEW q, NEW d, Aligned(c, q, d),
           e.committed_fields = c.committed_fields, e.finished_fields = c.finished_fields,
           e.committed_first_chunks = c.committed_first_chunks,
           e.finished_first_chunks = c.finished_first_chunks,
           e.chunk_in_field_counter = c.chunk_in_field_counter
    PROVE  Aligned(e, q, d)
BY DEF Aligned, CountersAgree, QueueAgrees, DoneAgrees, InFlight, SentChunks, CommittedChunks,
       FinishedTracked

\* When a field may be committed, a chunk of the memory block is free.
LEMMA RoomHasChunk ==
    ASSUME NEW c \in Counters, NEW q \in Seq(Tokens), NEW d \in Seq(TrackedTokens),
           Aligned(c, q, d), HasFreeFrameBuffer(c)
    PROVE  Len(q) < MediaChunks
<1> DEFINE m == SentChunks(c, q)
           K == ChunksInField
           F == FieldsInMemBlock
           ff == c.finished_fields
           cf == c.committed_fields
           k == c.chunk_in_field_counter
<1>1. /\ ff \in Nat /\ cf \in Nat /\ k \in 0..(K - 1) /\ K \in Nat /\ K >= 2 /\ F \in Nat \ {0}
      /\ c.finished_first_chunks \in Nat
  BY CounterTypes
<1>2. m \in Nat /\ Len(q) \in Nat /\ Len(d) \in Nat
  BY SequenceSteps DEF Aligned, QueueAgrees
<1>3. m = (cf * K + k) - Len(q)
  BY DEF SentChunks, CommittedChunks
<1>4. Field(m) \in Nat /\ Offset(m) \in 0..(K - 1) /\ m = Field(m) * K + Offset(m)
  BY <1>2, HasPlace
<1>5. ff <= Field(m)
  <2>1. c.finished_first_chunks + ff + Len(d) = 2 * Field(m) + (IF Offset(m) = 0 THEN 0 ELSE 1)
    BY DEF Aligned, DoneAgrees, FinishedTracked, TrackedBefore
  <2>2. ff <= c.finished_first_chunks
    BY <1>1 DEF Aligned, CountersAgree
  <2> HIDE DEF m, ff
  <2> QED
    BY <1>1, <1>2, <1>4, <2>1, <2>2, SMTT(30)
<1>6. cf + 1 <= ff + F
  BY <1>1 DEF HasFreeFrameBuffer
<1>7. /\ ff * K <= Field(m) * K /\ (cf + 1) * K <= (ff + F) * K
      /\ (ff + F) * K = ff * K + F * K /\ (cf + 1) * K = cf * K + K
  <2>1. ff * K <= Field(m) * K
    BY <1>1, <1>4, <1>5, AddMultiples
  <2>2. cf + 1 \in Nat /\ ff + F \in Nat
    BY <1>1
  <2>3. (cf + 1) * K <= (ff + F) * K
    BY <1>1, <1>6, <2>2, AddMultiples
  <2> QED
    BY <1>1, <2>1, <2>3, AddMultiples, NextMultiple, SMTT(30)
<1>8. /\ ff * K \in Nat /\ cf * K \in Nat /\ F * K \in Nat /\ Field(m) * K \in Nat
  <2>1. \A a, b \in Nat : a * b \in Nat
    BY Z3
  <2> QED
    BY <1>1, <1>4, <2>1
<1> DEFINE ffK == ff * K
           cfK == cf * K
           FK == F * K
           mK == Field(m) * K
           o == Offset(m)
<1>9. /\ ffK \in Nat /\ cfK \in Nat /\ FK \in Nat /\ mK \in Nat /\ o \in Nat
      /\ ffK <= mK /\ cfK + K <= ffK + FK /\ m = mK + o /\ m = (cfK + k) - Len(q)
  BY <1>1, <1>3, <1>4, <1>7, <1>8
<1> HIDE DEF ffK, cfK, FK, mK, o, m, k
<1>10. Len(q) < FK
  BY <1>1, <1>2, <1>9
<1> QED
  BY <1>10 DEF FK, MediaChunks

\* A completion that waits is of a last chunk, or of a field not yet counted.
LEMMA WaitingTokens ==
    ASSUME NEW c \in Counters, NEW q \in Seq(Tokens), NEW d \in Seq(TrackedTokens),
           Aligned(c, q, d), NEW i \in 1..Len(d)
    PROVE  d[i] = LastChunkToken \/ (d[i] \in Nat /\ c.finished_first_chunks <= d[i])
<1> DEFINE f == c.finished_first_chunks
           n == FinishedTracked(c) + i - 1
<1>1. f \in Nat /\ c.finished_fields \in Nat /\ Len(d) \in Nat
  BY CounterTypes, SequenceSteps
<1>2. f \in {c.finished_fields, c.finished_fields + 1} /\ d[i] = TrackedToken(n)
  BY DEF Aligned, CountersAgree, DoneAgrees
<1>3. n \in Nat /\ 2 * f <= n + 1
  <2>1. \A g, h, j \in Nat : j >= 1 /\ g \in {h, h + 1}
            => g + h + j - 1 \in Nat /\ 2 * g <= (g + h + j - 1) + 1
    OBVIOUS
  <2>2. i \in Nat /\ i >= 1 /\ n = f + c.finished_fields + i - 1
    BY <1>1 DEF FinishedTracked
  <2> QED
    BY <1>1, <1>2, <2>1, <2>2
<1> HIDE DEF f, n
<1>4. n % 2 = 0 => n \div 2 \in Nat /\ f <= n \div 2
  BY <1>1, <1>3
<1> QED
  BY <1>2, <1>4 DEF TrackedToken, f

\* While a first chunk or a field is committed and not counted, the adapter has
\* a chunk to send, unless completions wait; a first chunk only between fields.
LEMMA NextToSend ==
    ASSUME NEW c \in Counters, NEW q \in Seq(Tokens), Aligned(c, q, <<>>),
           \/ c.finished_first_chunks < c.committed_first_chunks
           \/ c.finished_fields < c.committed_fields
    PROVE  /\ q # <<>>
           /\ Head(q) \in {LastChunkToken, NoToken, c.finished_first_chunks}
           /\ c.finished_first_chunks = c.finished_fields + 1
                 => Head(q) \in {LastChunkToken, NoToken}
<1> DEFINE m == SentChunks(c, q)
           n == CommittedChunks(c)
           ffc == c.finished_first_chunks
           ff == c.finished_fields
           cf == c.committed_fields
           k == c.chunk_in_field_counter
<1>1. /\ ff \in Nat /\ cf \in Nat /\ ffc \in Nat /\ n \in Nat
      /\ c.committed_first_chunks \in Nat
      /\ Field(n) = cf /\ Offset(n) = k /\ k \in Nat
  BY CounterTypes
<1>2. /\ m \in Nat /\ m = n - Len(q) /\ Len(q) \in Nat
  BY SequenceSteps DEF Aligned, QueueAgrees, SentChunks
<1>3. /\ ffc \in {ff, ff + 1}
      /\ c.committed_first_chunks = cf + (IF k = 0 THEN 0 ELSE 1)
  BY DEF Aligned, CountersAgree
<1>4. ffc + ff = TrackedBefore(m)
  <2>1. ffc + ff + 0 = TrackedBefore(m)
    BY DEF Aligned, DoneAgrees, FinishedTracked
  <2> QED
    BY <1>1, <2>1
<1> HIDE DEF m
<1>5. q # <<>>
  <2> SUFFICES ASSUME q = <<>> PROVE FALSE
    OBVIOUS
  <2>1. m = n
    BY <1>1, <1>2, SequenceSteps
  <2>2. ffc + ff = 2 * cf + (IF k = 0 THEN 0 ELSE 1)
    BY <1>1, <1>4, <2>1 DEF TrackedBefore
  <2> HIDE DEF n, ffc, ff, cf, k
  <2> QED
    BY <1>1, <1>3, <2>2, SMTT(30) DEF ffc, ff, cf
<1>6. Head(q) = TokenOf(m)
  <2>1. Len(q) >= 1 /\ Head(q) = q[1]
    BY <1>5, SequenceSteps
  <2>2. q[1] = TokenOf(m + 1 - 1)
    BY <1>2, <2>1 DEF Aligned, QueueAgrees, m
  <2> QED
    BY <1>2, <2>1, <2>2
<1>7. Field(m) \in Nat
  BY <1>2, HasPlace
<1>8. Offset(m) = 0 => Field(m) = ffc
  BY <1>1, <1>3, <1>4, <1>7, SMTT(30) DEF TrackedBefore
<1>9. ffc = ff + 1 => Offset(m) # 0
  BY <1>1, <1>4, <1>7 DEF TrackedBefore
<1> QED
  BY <1>5, <1>6, <1>8, <1>9 DEF TokenOf

-----------------------------------------------------------------------------
(* The steps of the node and their types                                   *)

Types ==
    /\ TypeOK
    /\ clock >= -1
    /\ pc \in {"initial", "check", "track", "commit", "sleep"} => cur \in Streams

\* Steps that concern neither the counters of a stream nor chunks nor reports.
Bookkeeping ==
    \/ CreateStream \/ CreateFails
    \/ LoopEndsBySignal \/ NoReportCompletion \/ ReportPollFails
    \/ NoMediaCompletion \/ MediaPollFails
    \/ SkipCommit \/ CommitFails \/ Wake \/ DestroyRtcp \/ Tick \/ Signal

\* They leave these four variables as they are.
LEMMA BookkeepingFrame ==
    Bookkeeping => /\ sender' = sender /\ media' = media /\ report' = report
                   /\ m_pending_message_count' = m_pending_message_count
BY DEF Bookkeeping, CreateStream, CreateFails, LoopEndsBySignal, NoReportCompletion,
       ReportPollFails, NoMediaCompletion, MediaPollFails, SkipCommit, CommitFails, Wake,
       DestroyRtcp, Tick, Signal

\* Every step is one of these.
LEMMA StepCases ==
    ASSUME [Next]_vars
    PROVE  \/ Bookkeeping \/ vars' = vars
           \/ SendInitialReport \/ ReportCompletion \/ ProcessMediaCompletion
           \/ CommitMediaChunk \/ CommitQueueFull \/ StopMediaStream \/ StopFails
           \/ SendReport \/ \E s \in Streams : SendMediaChunk(s)
BY DEF Next, ThreadStep, Bookkeeping

\* What the types of the variables say of a stream.
LEMMA StreamTypes ==
    ASSUME TypeOK
    PROVE  /\ NumStreams \in Nat \ {0}
           /\ \A s \in Streams : /\ s \in Nat /\ s < NumStreams
                                 /\ sender[s] \in Counters
                                 /\ media[s].queue \in Seq(Tokens)
                                 /\ media[s].done \in Seq(TrackedTokens)
           /\ report.queue \in Seq(ReportsSent) /\ report.done \in Seq(Streams)
           /\ m_pending_message_count \in Nat /\ clock \in Int
           /\ cur \in Int /\ latest_wakeup_time \in Int
BY SettingsAssumption DEF TypeOK, Streams, Tokens, Rtcp

\* The end of the loop body.
LEMMA EndOfStreamEffect ==
    ASSUME Types, cur \in Streams, NEW c \in Counters, EndOfStream(c)
    PROVE  /\ pc' \in {"track", "check", "sleep"} /\ cur' \in Streams
           /\ all_senders_can_sleep' \in BOOLEAN /\ latest_wakeup_time' \in Int
           /\ why' = why
           /\ pc' = "track" => cur' = cur + 1
           /\ all_senders_can_sleep' =>
                  /\ all_senders_can_sleep
                  /\ latest_wakeup_time' <= latest_wakeup_time
                  /\ latest_wakeup_time' <= WakeupTime(cur, c)
           /\ pc' = "sleep" =>
                  all_senders_can_sleep' /\ latest_wakeup_time' > clock /\ cur = NumStreams - 1
<1>1. /\ c.finished_first_chunks \in Nat /\ latest_wakeup_time \in Int
      /\ all_senders_can_sleep \in BOOLEAN
      /\ NumStreams \in Nat \ {0} /\ cur \in 0..(NumStreams - 1) /\ clock \in Int
  BY CounterTypes, StreamTypes DEF Types, TypeOK, Streams
<1>2. /\ all_senders_can_sleep' = (all_senders_can_sleep /\ CanSleep(c))
      /\ latest_wakeup_time' =
             IF all_senders_can_sleep' /\ WakeupTime(cur, c) < latest_wakeup_time
             THEN WakeupTime(cur, c) ELSE latest_wakeup_time
      /\ why' = why
  BY DEF EndOfStream
<1>21. WakeupTime(cur, c) \in Int
  BY <1>1 DEF WakeupTime
<1>3. \/ cur < NumStreams - 1 /\ pc' = "track" /\ cur' = cur + 1
      \/ /\ ~(cur < NumStreams - 1) /\ cur' = 0
         /\ pc' = IF all_senders_can_sleep' /\ latest_wakeup_time' > clock
                  THEN "sleep" ELSE "check"
  BY DEF EndOfStream
<1>4. all_senders_can_sleep' \in BOOLEAN /\ (all_senders_can_sleep' => all_senders_can_sleep)
  BY <1>1, <1>2, Zenon DEF CanSleep
<1>5. latest_wakeup_time' \in Int /\ latest_wakeup_time' <= latest_wakeup_time
  BY <1>1, <1>2, <1>21
<1>6. all_senders_can_sleep' => latest_wakeup_time' <= WakeupTime(cur, c)
  BY <1>1, <1>2, <1>21
<1>7. pc' \in {"track", "check", "sleep"} /\ cur' \in Streams /\ (pc' = "track" => cur' = cur + 1)
  BY <1>1, <1>3 DEF Streams
<1>8. pc' = "sleep" =>
          all_senders_can_sleep' /\ latest_wakeup_time' > clock /\ cur = NumStreams - 1
  BY <1>1, <1>3
<1> QED
  BY <1>2, <1>4, <1>5, <1>6, <1>7, <1>8

\* A report of stream s, tracked or not, is handed to the adapter.
ReportAdded(s) ==
    \E marked \in BOOLEAN :
        report' = [report EXCEPT !.queue = Append(@, [of |-> s, tracked |-> marked])]

\* A sender report is committed, whether the library takes it or not, or refused
\* for want of a chunk or by a failing call.
LEMMA SenderReportEffect ==
    ASSUME TypeOK, NEW s \in Streams, NEW c \in Counters, NEW r, CommitSenderReport(s, c, r)
    PROVE  \E e \in Counters :
              /\ sender' = [sender EXCEPT ![s] = e]
              /\ e.committed_fields = c.committed_fields
              /\ e.finished_fields = c.finished_fields
              /\ e.committed_first_chunks = c.committed_first_chunks
              /\ e.finished_first_chunks = c.finished_first_chunks
              /\ e.chunk_in_field_counter = c.chunk_in_field_counter
              /\ e.finished_reports = c.finished_reports
              /\ \/ /\ r = "success"
                    /\ e.committed_reports = c.committed_reports + 1
                    /\ m_pending_message_count' = m_pending_message_count + 1
                    /\ \/ report' = report
                       \/ ReportAdded(s)
                 \/ /\ r # "success"
                    /\ r = "no_free_report" => ~(Len(report.queue) < NumStreams)
                    /\ r = "fault" => MayFail("report")
                    /\ e.committed_reports = c.committed_reports
                    /\ m_pending_message_count' = m_pending_message_count
                    /\ report' = report
<1>1. c.committed_reports \in Nat
  BY CounterTypes
<1>2. CASE /\ r = "success" /\ CommitMessage(s)
           /\ sender' = [sender EXCEPT ![s] = [c EXCEPT !.committed_reports = @ + 1]]
  <2> DEFINE n == c.committed_reports + 1
             e == [c EXCEPT !.committed_reports = n]
  <2>1. n \in Nat
    BY <1>1
  <2>2. sender' = [sender EXCEPT ![s] = e]
    BY <1>2
  <2> HIDE DEF n
  <2>3. /\ e \in Counters /\ e.committed_reports = n
        /\ e.committed_fields = c.committed_fields
        /\ e.finished_fields = c.finished_fields
        /\ e.committed_first_chunks = c.committed_first_chunks
        /\ e.finished_first_chunks = c.finished_first_chunks
        /\ e.chunk_in_field_counter = c.chunk_in_field_counter
        /\ e.finished_reports = c.finished_reports
    BY <2>1 DEF Counters
  <2> HIDE DEF e
  <2>4. /\ m_pending_message_count' = m_pending_message_count + 1
        /\ report' = report \/ ReportAdded(s)
    BY <1>2 DEF CommitMessage, ReportAdded
  <2> QED
    BY <1>2, <2>2, <2>3, <2>4 DEF n
<1>3. CASE /\ \/ ~FreeReportChunk /\ r = "no_free_report"
              \/ MayFail("report") /\ r = "fault"
           /\ sender' = [sender EXCEPT ![s] = c]
           /\ UNCHANGED <<report, m_pending_message_count>>
  BY <1>3, Zenon DEF FreeReportChunk, ReportChunks
<1> QED
  BY <1>2, <1>3 DEF CommitSenderReport

\* The types of the streams, chunks and reports.
DataTypes ==
    /\ sender \in [Streams -> Counters] /\ m_pending_message_count \in Nat
    /\ media \in [Streams -> [queue : Seq(Tokens), done : Seq(TrackedTokens)]]
    /\ report \in [queue : Seq(ReportsSent), done : Seq(Streams)]

\* And of the thread, the clock and the history.
ThreadTypes ==
    /\ pc \in {"start", "initial", "check", "track", "commit", "sleep", "stop", "done", "failed"}
    /\ cur \in Streams \cup {Rtcp}
    /\ pc \in {"initial", "check", "track", "commit", "sleep"} => cur \in Streams
    /\ created \subseteq Streams \cup {Rtcp}
    /\ all_senders_can_sleep \in BOOLEAN /\ latest_wakeup_time \in Int
    /\ clock \in Int /\ clock >= -1 /\ prompt \in BOOLEAN /\ signal \in BOOLEAN
    /\ why \in {"none", "signal", "fault", "out_of_order", "unsolicited",
                "no_free_media", "no_free_report"}
    /\ ownFailure \subseteq Streams \cup {Rtcp} /\ timed \subseteq Streams

\* Together they are Types.
LEMMA TypesAre == Types <=> DataTypes /\ ThreadTypes
BY DEF Types, TypeOK, DataTypes, ThreadTypes, Tokens

MediaState == [queue : Seq(Tokens), done : Seq(TrackedTokens)]
ReportState == [queue : Seq(ReportsSent), done : Seq(Streams)]

\* The adapter's record of one stream changes in one field.
LEMMA QueueChanged ==
    ASSUME NEW M \in [Streams -> MediaState], NEW s \in Streams, NEW q \in Seq(Tokens),
           NEW N, N = [M EXCEPT ![s].queue = q]
    PROVE  /\ N \in [Streams -> MediaState] /\ N[s].queue = q /\ N[s].done = M[s].done
           /\ \A u \in Streams \ {s} : N[u] = M[u]
BY DEF MediaState

\* The same for the completions that wait.
LEMMA DoneChanged ==
    ASSUME NEW M \in [Streams -> MediaState], NEW s \in Streams, NEW d \in Seq(TrackedTokens),
           NEW N, N = [M EXCEPT ![s].done = d]
    PROVE  /\ N \in [Streams -> MediaState] /\ N[s].done = d /\ N[s].queue = M[s].queue
           /\ \A u \in Streams \ {s} : N[u] = M[u]
BY DEF MediaState

\* Appending a report.
LEMMA ReportAppended ==
    ASSUME DataTypes, NEW s \in Streams, ReportAdded(s)
    PROVE  /\ report' \in ReportState
           /\ \E x \in ReportsSent :
                 /\ x.of = s
                 /\ report'.queue = Append(report.queue, x) /\ report'.done = report.done
<1>1. report \in ReportState
  BY DEF DataTypes, ReportState
<1>2. PICK marked \in BOOLEAN :
         report' = [report EXCEPT !.queue = Append(@, [of |-> s, tracked |-> marked])]
  BY DEF ReportAdded
<1> DEFINE x == [of |-> s, tracked |-> marked]
           q == Append(report.queue, x)
<1>3. x \in ReportsSent /\ x.of = s
  BY DEF ReportsSent
<1>4. q \in Seq(ReportsSent)
  BY <1>1, <1>3, SequenceSteps DEF ReportState
<1>5. report' = [report EXCEPT !.queue = q]
  BY <1>2
<1> HIDE DEF q
<1>6. report' \in ReportState /\ report'.queue = q /\ report'.done = report.done
  BY <1>1, <1>4, <1>5 DEF ReportState
<1> QED
  BY <1>3, <1>6 DEF q

\* The result of polling a report.
LEMMA ReportPolled ==
    ASSUME DataTypes, report.done # <<>>, report' = [report EXCEPT !.done = Tail(@)]
    PROVE  /\ report' \in ReportState
           /\ report'.done = Tail(report.done) /\ report'.queue = report.queue
<1>1. report \in ReportState
  BY DEF DataTypes, ReportState
<1> DEFINE d == Tail(report.done)
<1>2. d \in Seq(Streams)
  BY <1>1 DEF ReportState
<1>3. report' = [report EXCEPT !.done = d]
  OBVIOUS
<1> HIDE DEF d
<1>4. report' \in ReportState /\ report'.done = d /\ report'.queue = report.queue
  BY <1>1, <1>2, <1>3 DEF ReportState
<1> QED
  BY <1>4 DEF d

\* The first state is well typed.
LEMMA TypesInit == Init => Types
<1> SUFFICES ASSUME Init PROVE Types
  OBVIOUS
<1>1. 0 \in 0..(ChunksInField - 1) /\ NumStreams \in Nat \ {0}
  BY SettingsAssumption
<1>2. <<>> \in Seq(Tokens) /\ <<>> \in Seq(TrackedTokens) /\ <<>> \in Seq(Streams)
      /\ <<>> \in Seq(ReportsSent)
  OBVIOUS
<1>3. DataTypes
  BY <1>1, <1>2 DEF Init, DataTypes, Counters
<1>4. /\ pc = "start" /\ cur = Rtcp /\ created = {} /\ all_senders_can_sleep = FALSE
      /\ latest_wakeup_time = 0 /\ clock = -1 /\ prompt = TRUE /\ signal = FALSE
      /\ why = "none" /\ ownFailure = {} /\ timed = {}
  BY DEF Init
<1>5. ThreadTypes
  <2>1. clock \in Int /\ clock >= -1 /\ latest_wakeup_time \in Int
    BY <1>4
  <2> QED
    BY <1>4, <2>1, Zenon DEF ThreadTypes
<1> QED
  BY <1>3, <1>5, TypesAre

\* Leaving the loop, serving the streams, or going on with one.
LEMMA ControlTypes ==
    ASSUME ThreadTypes,
           \/ ServeStreams \/ (\E r : Abort(r) /\ why' \in {"signal", "fault", "out_of_order",
                                   "unsolicited", "no_free_media", "no_free_report"})
           \/ ContinueWith("commit") /\ cur \in Streams,
           UNCHANGED <<created, clock, prompt, signal, ownFailure, timed>>
    PROVE  ThreadTypes'
<1>1. NumStreams \in Nat \ {0} /\ 0 \in Streams /\ Sleeps \in BOOLEAN
  BY SettingsAssumption DEF Streams
<1>2. CASE ServeStreams
  BY <1>1, <1>2 DEF ThreadTypes, ServeStreams
<1>3. CASE \E r : Abort(r) /\ why' \in {"signal", "fault", "out_of_order",
                                "unsolicited", "no_free_media", "no_free_report"}
  BY <1>3 DEF ThreadTypes, Abort, Rtcp
<1>4. CASE ContinueWith("commit") /\ cur \in Streams
  BY <1>4 DEF ThreadTypes, ContinueWith
<1> QED
  BY <1>2, <1>3, <1>4

\* The end of the loop body keeps the types of the thread.
LEMMA EndOfStreamTypes ==
    ASSUME Types, cur \in Streams, NEW c \in Counters, EndOfStream(c),
           UNCHANGED <<created, clock, prompt, signal, ownFailure, timed>>
    PROVE  ThreadTypes'
<1>1. ThreadTypes
  BY TypesAre
<1> QED
  BY <1>1, EndOfStreamEffect DEF ThreadTypes

\* cancel_unsent keeps the type of what the adapter has.
LEMMA CancelTypes ==
    ASSUME DataTypes, cur \in Streams, CancelUnsent
    PROVE  media' \in [Streams -> [queue : Seq(Tokens), done : Seq(TrackedTokens)]]
<1>1. media \in [Streams -> MediaState]
  BY DEF DataTypes, MediaState
<1>2. <<>> \in Seq(Tokens) /\ media' = [media EXCEPT ![cur].queue = <<>>]
  BY DEF CancelUnsent
<1> QED
  BY <1>1, <1>2, QueueChanged DEF MediaState

\* Every step keeps the types.
LEMMA TypesStep == Types /\ [Next]_vars => Types'
<1> SUFFICES ASSUME Types, [Next]_vars PROVE Types'
  OBVIOUS
<1>0. TypeOK /\ DataTypes /\ ThreadTypes
  BY TypesAre DEF Types
<1>01. /\ NumStreams \in Nat \ {0} /\ 0 \in Streams
       /\ \A s \in Streams : /\ s \in 0..(NumStreams - 1) /\ s # Rtcp
                             /\ sender[s] \in Counters
                             /\ media[s].queue \in Seq(Tokens)
                             /\ media[s].done \in Seq(TrackedTokens)
       /\ report.queue \in Seq(ReportsSent) /\ report.done \in Seq(Streams)
       /\ m_pending_message_count \in Nat
       /\ pc \in {"initial", "check", "track", "commit", "sleep"} => cur \in Streams
  BY <1>0, SettingsAssumption, StreamTypes DEF ThreadTypes, Streams, Rtcp
<1> SUFFICES DataTypes' /\ ThreadTypes'
  BY TypesAre DEF Types, TypeOK, DataTypes, ThreadTypes, Tokens
<1>1. CASE Bookkeeping
  <2>1. DataTypes'
    BY <1>0, <1>1, BookkeepingFrame DEF DataTypes
  <2>2. ThreadTypes'
    <3>1. CASE CreateStream
      BY <1>0, <1>01, <3>1 DEF CreateStream, ThreadTypes, Streams, Rtcp
    <3>2. CASE CreateFails \/ Wake
      BY <1>0, <3>2 DEF CreateFails, Wake, ThreadTypes
    <3>3. CASE LoopEndsBySignal \/ ReportPollFails \/ MediaPollFails \/ CommitFails
      <4>1. /\ \E r : Abort(r) /\ why' \in {"signal", "fault", "no_free_media"}
            /\ UNCHANGED <<created, clock, prompt, signal, ownFailure, timed>>
        BY <3>3 DEF LoopEndsBySignal, ReportPollFails, MediaPollFails, CommitFails, Abort
      <4> QED
        BY <1>0, <4>1, ControlTypes
    <3>4. CASE NoReportCompletion
      BY <1>0, <3>4, ControlTypes DEF NoReportCompletion
    <3>5. CASE NoMediaCompletion
      BY <1>0, <1>01, <3>5, ControlTypes DEF NoMediaCompletion
    <3>6. CASE SkipCommit
      BY <1>01, <3>6, EndOfStreamTypes DEF SkipCommit
    <3>7. CASE DestroyRtcp
      BY <1>0, <1>01, <3>7 DEF DestroyRtcp, ThreadTypes
    <3>8. CASE Tick
      <4>1. prompt' \in BOOLEAN /\ clock' = clock + 1
            /\ UNCHANGED <<threadVars, created, signal, why, ownFailure, timed>>
        BY <1>0, <3>8, Zenon DEF Tick, ThreadTypes
      <4> QED
        BY <1>0, <4>1 DEF ThreadTypes, threadVars
    <3>9. CASE Signal
      BY <1>0, <3>9 DEF Signal, ThreadTypes, threadVars
    <3> QED
      BY <1>1, <3>1, <3>2, <3>3, <3>4, <3>5, <3>6, <3>7, <3>8, <3>9 DEF Bookkeeping
  <2> QED
    BY <2>1, <2>2
<1>2. CASE vars' = vars
  BY <1>0, <1>2 DEF vars, threadVars, DataTypes, ThreadTypes
<1>3. CASE SendInitialReport
  <2>1. cur \in Streams
    BY <1>01, <1>3 DEF SendInitialReport
  <2>2. PICK r \in Results :
           /\ CommitSenderReport(cur, sender[cur], r)
           /\ IF r = "success" /\ cur < NumStreams - 1
              THEN pc' = pc /\ cur' = cur + 1
              ELSE pc' = "check" /\ cur' = 0
    BY <1>3 DEF SendInitialReport
  <2>3. /\ media' = media /\ pc = "initial" /\ timed' = timed \cup {cur}
        /\ UNCHANGED <<all_senders_can_sleep, latest_wakeup_time, created, clock, prompt, signal,
                       why, ownFailure>>
    BY <1>3 DEF SendInitialReport
  <2>4. PICK e \in Counters :
           /\ sender' = [sender EXCEPT ![cur] = e]
           /\ \/ report' = report
              \/ ReportAdded(cur)
           /\ m_pending_message_count' \in {m_pending_message_count, m_pending_message_count + 1}
    BY <1>0, <1>01, <2>1, <2>2, SenderReportEffect
  <2>5. DataTypes'
    <3>1. report' \in ReportState
      BY <1>0, <2>1, <2>4, ReportAppended DEF DataTypes, ReportState
    <3> QED
      BY <1>0, <1>01, <2>1, <2>3, <2>4, <3>1, SMTT(30) DEF DataTypes, ReportState
  <2>6. ThreadTypes'
    BY <1>0, <1>01, <2>1, <2>2, <2>3 DEF ThreadTypes, Streams
  <2> QED
    BY <2>5, <2>6
<1>4. CASE ReportCompletion
  <2>1. /\ report.done # <<>> /\ m_pending_message_count > 0
        /\ m_pending_message_count' = m_pending_message_count - 1
        /\ report' = [report EXCEPT !.done = Tail(@)] /\ media' = media
        /\ UNCHANGED <<created, clock, prompt, signal, ownFailure, timed>>
    BY <1>4 DEF ReportCompletion
  <2>2. Head(report.done) \in Streams /\ Tail(report.done) \in Seq(Streams)
    BY <1>01, <2>1
  <2>3. \/ Abort("unsolicited") /\ sender' = sender
        \/ /\ ServeStreams
           /\ sender' = [sender EXCEPT ![Head(report.done)].finished_reports = @ + 1]
    BY <1>4 DEF ReportCompletion
  <2>4. sender' \in [Streams -> Counters]
    <3> DEFINE s == Head(report.done)
               n == sender[s].finished_reports + 1
               e == [sender[s] EXCEPT !.finished_reports = n]
    <3>1. sender[s] \in Counters /\ n \in Nat
      BY <1>01, <2>2, CounterTypes, SMTT(30)
    <3> HIDE DEF n
    <3>2. e \in Counters
      BY <3>1 DEF Counters
    <3> HIDE DEF e
    <3>3. sender' = sender \/ sender' = [sender EXCEPT ![s] = e]
      BY <2>3 DEF e, n
    <3> QED
      BY <1>0, <2>2, <3>2, <3>3 DEF DataTypes
  <2>5. DataTypes'
    <3>1. report' \in ReportState
      BY <1>0, <2>1, ReportPolled
    <3>2. m_pending_message_count' \in Nat /\ media' = media
      BY <1>01, <2>1
    <3> QED
      BY <1>0, <2>4, <3>1, <3>2 DEF DataTypes, ReportState
  <2>6. ThreadTypes'
    <3>1. ServeStreams \/ \E r : Abort(r) /\ why' = "unsolicited"
      BY <2>3 DEF Abort
    <3> QED
      BY <1>0, <2>1, <3>1, ControlTypes
  <2> QED
    BY <2>5, <2>6
<1>5. CASE ProcessMediaCompletion
  <2>1. /\ cur \in Streams /\ media[cur].done # <<>>
        /\ media' = [media EXCEPT ![cur].done = Tail(@)]
        /\ UNCHANGED <<created, clock, prompt, signal, ownFailure, timed>>
    BY <1>01, <1>5 DEF ProcessMediaCompletion
  <2>2. Tail(media[cur].done) \in Seq(TrackedTokens)
    BY <1>01, <2>1
  <2> DEFINE token == Head(media[cur].done)
             c == Finished(sender[cur], token)
  <2>3. \/ sender' = [sender EXCEPT ![cur] = c] /\ ContinueWith("commit")
           /\ UNCHANGED <<m_pending_message_count, report>>
        \/ Abort("out_of_order") /\ UNCHANGED <<sender, m_pending_message_count, report>>
        \/ \E r \in Results :
              /\ CommitSenderReport(cur, c, r)
              /\ IF r = "success" THEN ContinueWith("commit") ELSE Abort(r)
    BY <1>5 DEF ProcessMediaCompletion
  <2>4. c \in Counters
    BY <1>01, <2>1, FinishedFields
  <2> HIDE DEF c
  <2>5. \/ /\ sender' = [sender EXCEPT ![cur] = c] \/ sender' = sender
           /\ UNCHANGED <<m_pending_message_count, report>>
        \/ /\ \E e \in Counters : sender' = [sender EXCEPT ![cur] = e]
           /\ \/ report' = report
              \/ ReportAdded(cur)
           /\ m_pending_message_count' \in {m_pending_message_count, m_pending_message_count + 1}
    BY <1>0, <1>01, <2>1, <2>3, <2>4, SenderReportEffect
  <2>6. DataTypes'
    <3>1. media' \in [Streams -> [queue : Seq(Tokens), done : Seq(TrackedTokens)]]
      BY <1>0, <2>1, <2>2 DEF DataTypes
    <3>2. sender' \in [Streams -> Counters]
      BY <1>0, <2>1, <2>4, <2>5 DEF DataTypes
    <3>3. m_pending_message_count' \in Nat /\ report' \in [queue : Seq(ReportsSent), done : Seq(Streams)]
      <4>1. report' \in ReportState
        BY <1>0, <2>1, <2>5, ReportAppended DEF DataTypes, ReportState
      <4> QED
        BY <1>01, <2>5, <4>1 DEF ReportState
    <3> QED
      BY <3>1, <3>2, <3>3 DEF DataTypes
  <2>7. ThreadTypes'
    <3>1. \/ ContinueWith("commit")
          \/ \E r : Abort(r) /\ why' \in {"fault", "out_of_order", "no_free_report"}
      BY <2>3 DEF Abort, Results
    <3> QED
      BY <1>0, <2>1, <3>1, ControlTypes
  <2> QED
    BY <2>6, <2>7
<1>6. CASE CommitMediaChunk
  <2>1. /\ cur \in Streams
        /\ media' = [media EXCEPT ![cur].queue = Append(@, TokenFor(sender[cur]))]
        /\ sender' = [sender EXCEPT ![cur] = Committed(@)]
        /\ EndOfStream(Committed(sender[cur]))
        /\ UNCHANGED <<created, m_pending_message_count, report, clock, prompt, signal, ownFailure, timed>>
    BY <1>01, <1>6 DEF CommitMediaChunk
  <2>2. Committed(sender[cur]) \in Counters
    BY <1>01, <2>1, CommittedFields
  <2>3. TokenFor(sender[cur]) \in Tokens
    BY <1>01, <2>1, CounterTypes DEF TokenFor, Tokens, TrackedTokens
  <2>4. DataTypes'
    <3>1. media' \in [Streams -> MediaState]
      <4>1. media \in [Streams -> MediaState]
        BY <1>0 DEF DataTypes, MediaState
      <4> DEFINE q == Append(media[cur].queue, TokenFor(sender[cur]))
      <4>2. q \in Seq(Tokens) /\ media' = [media EXCEPT ![cur].queue = q]
        BY <1>01, <2>1, <2>3
      <4> HIDE DEF q
      <4> QED
        BY <2>1, <4>1, <4>2 DEF MediaState
    <3> QED
      BY <1>0, <1>01, <2>1, <2>2, <3>1 DEF DataTypes, MediaState
  <2> QED
    BY <2>1, <2>2, <2>4, EndOfStreamTypes
<1>7. CASE CommitQueueFull
  <2>1. /\ cur \in Streams /\ media' = media
        /\ sender' = [sender EXCEPT ![cur] = KeepChunk(@)]
        /\ EndOfStream(KeepChunk(sender[cur]))
        /\ UNCHANGED <<created, m_pending_message_count, report, clock, prompt, signal, ownFailure, timed>>
    BY <1>01, <1>7 DEF CommitQueueFull
  <2>2. KeepChunk(sender[cur]) \in Counters
    BY <1>01, <2>1 DEF KeepChunk, Counters
  <2>4. DataTypes'
    BY <1>0, <1>01, <2>1, <2>2 DEF DataTypes
  <2> QED
    BY <2>1, <2>2, <2>4, EndOfStreamTypes
<1>8. CASE StopMediaStream
  <2>1. cur \in Streams
    BY <1>0, <1>8 DEF StopMediaStream, ThreadTypes
  <2>2. DataTypes'
    BY <1>0, <1>8, <2>1, CancelTypes DEF DataTypes, StopMediaStream
  <2>3. ThreadTypes'
    BY <1>0, <1>01, <1>8, <2>1 DEF ThreadTypes, StopMediaStream, Streams, Rtcp
  <2> QED
    BY <2>2, <2>3
<1>9. CASE StopFails
  <2>1. DataTypes'
    <3>1. CASE media' = media
      BY <1>0, <1>9, <3>1 DEF DataTypes, StopFails
    <3>2. CASE cur # Rtcp /\ CancelUnsent
      <4>1. cur \in Streams
        BY <1>0, <3>2 DEF ThreadTypes
      <4> QED
        BY <1>0, <1>9, <3>2, <4>1, CancelTypes DEF DataTypes, StopFails
    <3> QED
      BY <1>9, <3>1, <3>2 DEF StopFails
  <2>2. ThreadTypes'
    BY <1>0, <1>9 DEF ThreadTypes, StopFails
  <2> QED
    BY <2>1, <2>2
<1>10. CASE SendReport
  <2>1. DataTypes'
    <3> DEFINE x == Head(report.queue)
               d == IF x.tracked THEN Append(report.done, x.of) ELSE report.done
    <3>1. /\ report.queue # <<>> /\ UNCHANGED <<sender, media, m_pending_message_count>>
          /\ report' = [queue |-> Tail(report.queue), done |-> d]
      BY <1>10 DEF SendReport
    <3>2. x \in ReportsSent /\ Tail(report.queue) \in Seq(ReportsSent)
      BY <1>01, <3>1, SequenceSteps
    <3>3. d \in Seq(Streams)
      <4>1. x.of \in Streams
        BY <3>2 DEF ReportsSent
      <4> QED
        BY <1>01, <4>1, SequenceSteps
    <3> HIDE DEF x, d
    <3> QED
      BY <1>0, <3>1, <3>2, <3>3 DEF DataTypes
  <2>2. ThreadTypes'
    BY <1>0, <1>10 DEF ThreadTypes, SendReport, threadVars
  <2> QED
    BY <2>1, <2>2
<1>11. CASE \E s \in Streams : SendMediaChunk(s)
  <2>1. PICK s \in Streams : SendMediaChunk(s)
    BY <1>11
  <2> DEFINE q == media[s].queue
             d == IF Head(q) = NoToken THEN media[s].done ELSE Append(media[s].done, Head(q))
  <2>2. /\ q # <<>> /\ media' = [media EXCEPT ![s] = [queue |-> Tail(q), done |-> d]]
        /\ UNCHANGED <<threadVars, created, sender, m_pending_message_count, report, clock, prompt,
                       signal, why, ownFailure, timed>>
    BY <2>1 DEF SendMediaChunk
  <2>3. Tail(q) \in Seq(Tokens) /\ d \in Seq(TrackedTokens)
    <3>1. Head(q) \in Tokens /\ Tail(q) \in Seq(Tokens)
      BY <1>01, <2>2
    <3>2. Head(q) # NoToken => Head(q) \in TrackedTokens
      BY <3>1 DEF Tokens
    <3> QED
      BY <1>01, <3>1, <3>2
  <2> HIDE DEF q, d
  <2>4. DataTypes'
    BY <1>0, <2>2, <2>3 DEF DataTypes
  <2>5. ThreadTypes'
    BY <1>0, <2>2 DEF ThreadTypes, threadVars
  <2> QED
    BY <2>4, <2>5
<1> QED
  BY <1>1, <1>2, <1>3, <1>4, <1>5, <1>6, <1>7, <1>8, <1>9, <1>10, <1>11, StepCases

-----------------------------------------------------------------------------
(* What the steps that concern chunks and reports change                   *)

\* Nothing of the other variables is touched by the adapter.
AdapterFrame == UNCHANGED <<threadVars, created, sender, m_pending_message_count, clock, prompt,
                            signal, why, ownFailure, timed>>

\* The adapter sends a chunk of stream s.
LEMMA SendEffect ==
    ASSUME Types, NEW s \in Streams, SendMediaChunk(s)
    PROVE  LET q == media[s].queue
               d == media[s].done
           IN  /\ AdapterFrame /\ report' = report
               /\ q # <<>> /\ Due(s, Head(q))
               /\ media'[s].queue = Tail(q)
               /\ media'[s].done = IF Head(q) = NoToken THEN d ELSE Append(d, Head(q))
               /\ \A u \in Streams \ {s} : media'[u] = media[u]
<1>1. media \in [Streams -> MediaState]
  BY TypesAre DEF DataTypes, MediaState
<1> DEFINE q == media[s].queue
           m == [queue |-> Tail(q),
                 done |-> IF Head(q) = NoToken THEN media[s].done ELSE Append(media[s].done, Head(q))]
<1>2. /\ AdapterFrame /\ report' = report /\ q # <<>> /\ Due(s, Head(q))
      /\ media' = [media EXCEPT ![s] = m]
  BY DEF SendMediaChunk, AdapterFrame
<1>3. media'[s] = m /\ \A u \in Streams \ {s} : media'[u] = media[u]
  <2> HIDE DEF m
  <2> QED
    BY <1>1, <1>2
<1> QED
  BY <1>2, <1>3

\* The initial report of stream cur.
LEMMA InitialReportEffect ==
    ASSUME Types, SendInitialReport
    PROVE  /\ pc = "initial" /\ cur \in Streams /\ media' = media
           /\ timed' = timed \cup {cur}
           /\ UNCHANGED <<all_senders_can_sleep, latest_wakeup_time, created, clock, prompt, signal,
                          why, ownFailure>>
           /\ \E r \in Results :
                 /\ CommitSenderReport(cur, sender[cur], r)
                 /\ IF r = "success" /\ cur < NumStreams - 1
                    THEN pc' = pc /\ cur' = cur + 1
                    ELSE pc' = "check" /\ cur' = 0
<1>1. pc = "initial"
  BY DEF SendInitialReport
<1>2. cur \in Streams
  BY <1>1 DEF Types
<1> QED
  BY <1>2 DEF SendInitialReport

\* A media completion of stream cur is processed.
LEMMA CompletionEffect ==
    ASSUME Types, ProcessMediaCompletion
    PROVE  LET d == media[cur].done
               c == Finished(sender[cur], Head(d))
           IN  /\ pc = "track" /\ cur \in Streams /\ d # <<>> /\ c \in Counters
               /\ media'[cur].done = Tail(d) /\ media'[cur].queue = media[cur].queue
               /\ \A u \in Streams \ {cur} : media'[u] = media[u]
               /\ UNCHANGED <<created, clock, prompt, signal, ownFailure, timed>>
               /\ \/ /\ Head(d) = LastChunkToken
                     /\ sender' = [sender EXCEPT ![cur] = c]
                     /\ ContinueWith("commit")
                     /\ UNCHANGED <<m_pending_message_count, report>>
                  \/ /\ Head(d) # LastChunkToken
                     /\ Head(d) # sender[cur].finished_first_chunks
                     /\ Abort("out_of_order")
                     /\ UNCHANGED <<sender, m_pending_message_count, report>>
                  \/ /\ Head(d) # LastChunkToken
                     /\ Head(d) = sender[cur].finished_first_chunks
                     /\ \E r \in Results :
                           /\ CommitSenderReport(cur, c, r)
                           /\ IF r = "success" THEN ContinueWith("commit") ELSE Abort(r)
<1> DEFINE d == media[cur].done
<1>1. pc = "track" /\ d # <<>> /\ media' = [media EXCEPT ![cur].done = Tail(d)]
  BY DEF ProcessMediaCompletion
<1>2. cur \in Streams
  BY <1>1 DEF Types
<1>3. media \in [Streams -> MediaState]
  BY TypesAre DEF DataTypes, MediaState
<1>4. d \in Seq(TrackedTokens) /\ sender[cur] \in Counters
  BY <1>2, StreamTypes DEF Types
<1> DEFINE t == Tail(d)
<1>5. t \in Seq(TrackedTokens)
  BY <1>1, <1>4
<1>6. Finished(sender[cur], Head(d)) \in Counters
  BY <1>4, FinishedFields
<1>7. /\ media'[cur].done = t /\ media'[cur].queue = media[cur].queue
      /\ \A u \in Streams \ {cur} : media'[u] = media[u]
  <2>1. media' = [media EXCEPT ![cur].done = t]
    BY <1>1
  <2> HIDE DEF t, d
  <2> QED
    BY <1>2, <1>3, <1>5, <2>1 DEF MediaState
<1>8. /\ UNCHANGED <<created, clock, prompt, signal, ownFailure, timed>>
      /\ \/ /\ Head(d) = LastChunkToken
            /\ sender' = [sender EXCEPT ![cur] = Finished(sender[cur], Head(d))]
            /\ ContinueWith("commit")
            /\ UNCHANGED <<m_pending_message_count, report>>
         \/ /\ Head(d) # LastChunkToken
            /\ Head(d) # sender[cur].finished_first_chunks
            /\ Abort("out_of_order")
            /\ UNCHANGED <<sender, m_pending_message_count, report>>
         \/ /\ Head(d) # LastChunkToken
            /\ Head(d) = sender[cur].finished_first_chunks
            /\ \E r \in Results :
                  /\ CommitSenderReport(cur, Finished(sender[cur], Head(d)), r)
                  /\ IF r = "success" THEN ContinueWith("commit") ELSE Abort(r)
  BY Zenon DEF ProcessMediaCompletion
<1> QED
  BY <1>1, <1>2, <1>6, <1>7, <1>8, Zenon

\* A chunk of stream cur is committed.
LEMMA CommitEffect ==
    ASSUME Types, CommitMediaChunk
    PROVE  LET c == sender[cur]
           IN  /\ pc = "commit" /\ cur \in Streams /\ HasFreeFrameBuffer(c)
               /\ Committed(c) \in Counters
               /\ sender' = [sender EXCEPT ![cur] = Committed(c)]
               /\ media'[cur].queue = Append(media[cur].queue, TokenFor(c))
               /\ media'[cur].done = media[cur].done
               /\ \A u \in Streams \ {cur} : media'[u] = media[u]
               /\ EndOfStream(Committed(c))
               /\ UNCHANGED <<created, m_pending_message_count, report, clock, prompt, signal,
                              ownFailure, timed>>
<1> DEFINE q == Append(media[cur].queue, TokenFor(sender[cur]))
<1>1. /\ pc = "commit" /\ HasFreeFrameBuffer(sender[cur])
      /\ media' = [media EXCEPT ![cur].queue = q]
      /\ sender' = [sender EXCEPT ![cur] = Committed(sender[cur])]
      /\ EndOfStream(Committed(sender[cur]))
      /\ UNCHANGED <<created, m_pending_message_count, report, clock, prompt, signal, ownFailure, timed>>
  BY DEF CommitMediaChunk, Commits
<1>2. cur \in Streams
  BY <1>1 DEF Types
<1>3. media \in [Streams -> MediaState]
  BY TypesAre DEF DataTypes, MediaState
<1>4. sender[cur] \in Counters
  BY <1>2, StreamTypes DEF Types
<1>5. Committed(sender[cur]) \in Counters
  BY <1>4, CommittedFields
<1>6. /\ media'[cur].queue = q /\ media'[cur].done = media[cur].done
      /\ \A u \in Streams \ {cur} : media'[u] = media[u]
  <2> HIDE DEF q
  <2> QED
    BY <1>1, <1>2, <1>3 DEF MediaState
<1> QED
  BY <1>1, <1>2, <1>5, <1>6, Zenon

\* A chunk of stream cur is kept.
LEMMA KeepEffect ==
    ASSUME Types, CommitQueueFull
    PROVE  \E e \in Counters :
              /\ pc = "commit" /\ cur \in Streams /\ media' = media
              /\ sender' = [sender EXCEPT ![cur] = e]
              /\ e.committed_fields = sender[cur].committed_fields
              /\ e.finished_fields = sender[cur].finished_fields
              /\ e.committed_first_chunks = sender[cur].committed_first_chunks
              /\ e.finished_first_chunks = sender[cur].finished_first_chunks
              /\ e.chunk_in_field_counter = sender[cur].chunk_in_field_counter
              /\ e.committed_reports = sender[cur].committed_reports
              /\ e.finished_reports = sender[cur].finished_reports
              /\ EndOfStream(e)
              /\ UNCHANGED <<created, m_pending_message_count, report, clock, prompt, signal,
                             ownFailure, timed>>
<1> DEFINE e == KeepChunk(sender[cur])
<1>1. /\ pc = "commit" /\ media' = media /\ sender' = [sender EXCEPT ![cur] = e] /\ EndOfStream(e)
      /\ UNCHANGED <<created, m_pending_message_count, report, clock, prompt, signal, ownFailure, timed>>
  BY DEF CommitQueueFull
<1>2. cur \in Streams
  BY <1>1 DEF Types
<1>3. sender[cur] \in Counters
  BY <1>2, StreamTypes DEF Types
<1>4. /\ e \in Counters
      /\ e.committed_fields = sender[cur].committed_fields
      /\ e.finished_fields = sender[cur].finished_fields
      /\ e.committed_first_chunks = sender[cur].committed_first_chunks
      /\ e.finished_first_chunks = sender[cur].finished_first_chunks
      /\ e.chunk_in_field_counter = sender[cur].chunk_in_field_counter
      /\ e.committed_reports = sender[cur].committed_reports
      /\ e.finished_reports = sender[cur].finished_reports
  BY <1>3 DEF KeepChunk, Counters
<1> HIDE DEF e
<1> QED
  BY <1>1, <1>2, <1>4

\* A report completion is polled.
LEMMA ReportCompletionEffect ==
    ASSUME Types, ReportCompletion
    PROVE  LET s == Head(report.done)
           IN  /\ pc = "check" /\ report.done # <<>> /\ s \in Streams
               /\ m_pending_message_count > 0
               /\ m_pending_message_count' = m_pending_message_count - 1
               /\ report'.done = Tail(report.done) /\ report'.queue = report.queue
               /\ UNCHANGED <<created, media, clock, prompt, signal, ownFailure, timed>>
               /\ \/ /\ sender[s].committed_reports <= sender[s].finished_reports
                     /\ Abort("unsolicited") /\ sender' = sender
                  \/ /\ ~(sender[s].committed_reports <= sender[s].finished_reports)
                     /\ ServeStreams
                     /\ \E e \in Counters :
                           /\ sender' = [sender EXCEPT ![s] = e]
                           /\ e.committed_fields = sender[s].committed_fields
                           /\ e.finished_fields = sender[s].finished_fields
                           /\ e.committed_first_chunks = sender[s].committed_first_chunks
                           /\ e.finished_first_chunks = sender[s].finished_first_chunks
                           /\ e.chunk_in_field_counter = sender[s].chunk_in_field_counter
                           /\ e.committed_reports = sender[s].committed_reports
                           /\ e.finished_reports = sender[s].finished_reports + 1
<1> DEFINE s == Head(report.done)
           n == sender[s].finished_reports + 1
           e == [sender[s] EXCEPT !.finished_reports = n]
<1>1. /\ pc = "check" /\ report.done # <<>> /\ m_pending_message_count > 0
      /\ m_pending_message_count' = m_pending_message_count - 1
      /\ report' = [report EXCEPT !.done = Tail(@)]
      /\ UNCHANGED <<created, media, clock, prompt, signal, ownFailure, timed>>
      /\ IF sender[s].committed_reports <= sender[s].finished_reports
         THEN Abort("unsolicited") /\ sender' = sender
         ELSE ServeStreams /\ sender' = [sender EXCEPT ![s] = e]
  BY DEF ReportCompletion
<1>2. report'.done = Tail(report.done) /\ report'.queue = report.queue
  BY <1>1, TypesAre, ReportPolled
<1>3. s \in Streams
  BY <1>1, StreamTypes DEF Types
<1>4. sender[s] \in Counters /\ n \in Nat
  <2>1. sender[s] \in Counters
    BY <1>3, StreamTypes DEF Types
  <2> QED
    BY <2>1, CounterTypes
<1>5. /\ e \in Counters
      /\ e.committed_fields = sender[s].committed_fields
      /\ e.finished_fields = sender[s].finished_fields
      /\ e.committed_first_chunks = sender[s].committed_first_chunks
      /\ e.finished_first_chunks = sender[s].finished_first_chunks
      /\ e.chunk_in_field_counter = sender[s].chunk_in_field_counter
      /\ e.committed_reports = sender[s].committed_reports
      /\ e.finished_reports = n
  <2> HIDE DEF n
  <2> QED
    BY <1>4 DEF Counters
<1> HIDE DEF e
<1> QED
  BY <1>1, <1>2, <1>3, <1>5

\* The adapter sends a report.
LEMMA SendReportEffect ==
    ASSUME Types, SendReport
    PROVE  /\ AdapterFrame /\ media' = media /\ report.queue # <<>>
           /\ report'.queue = Tail(report.queue)
           /\ LET x == Head(report.queue)
              IN  report'.done = IF x.tracked THEN Append(report.done, x.of) ELSE report.done
BY DEF SendReport, AdapterFrame

-----------------------------------------------------------------------------
(* Chunks and counters stay aligned until the streams are cancelled        *)

AlignedStream(s) == Aligned(sender[s], media[s].queue, media[s].done)

Alignment == pc \notin {"stop", "done"} => \A s \in Streams : AlignedStream(s)

\* A thread that stops its streams does nothing else.
LEMMA StopStays ==
    ASSUME [Next]_vars, pc \in {"stop", "done"}
    PROVE  pc' \in {"stop", "done"} /\ why' = why
<1>1. CASE \E s \in Streams : SendMediaChunk(s)
  BY <1>1 DEF SendMediaChunk, threadVars
<1>2. CASE SendReport \/ vars' = vars \/ Tick \/ Signal
  BY <1>2 DEF SendReport, Tick, Signal, vars, threadVars
<1>3. CASE DestroyRtcp \/ StopMediaStream \/ StopFails
  BY <1>3 DEF DestroyRtcp, StopMediaStream, StopFails
<1>4. CASE /\ ~DestroyRtcp /\ ~Tick /\ ~Signal
           /\ Bookkeeping \/ SendInitialReport \/ ReportCompletion \/ ProcessMediaCompletion
              \/ CommitMediaChunk \/ CommitQueueFull
  BY <1>4 DEF Bookkeeping, CreateStream, CreateFails, LoopEndsBySignal, NoReportCompletion,
       ReportPollFails, NoMediaCompletion, MediaPollFails, SkipCommit, CommitFails, Wake,
       SendInitialReport, ReportCompletion, ProcessMediaCompletion, CommitMediaChunk,
       CommitQueueFull
<1> QED
  BY <1>1, <1>2, <1>3, <1>4, StepCases

\* At the start nothing is committed.
LEMMA AlignedStart ==
    ASSUME Init
    PROVE  \A s \in Streams : AlignedStream(s)
<1> TAKE s \in Streams
<1> DEFINE c == sender[s]
<1>1. /\ media[s].queue = <<>> /\ media[s].done = <<>>
      /\ c.committed_first_chunks = 0 /\ c.finished_first_chunks = 0
      /\ c.committed_fields = 0 /\ c.finished_fields = 0 /\ c.chunk_in_field_counter = 0
  BY DEF Init
<1>2. ChunksInField \in Nat /\ ChunksInField >= 2 /\ FieldsInMemBlock \in Nat
  BY SettingsAssumption
<1> HIDE DEF c
<1>3. CountersAgree(c)
  BY <1>1, <1>2 DEF CountersAgree
<1>4. CommittedChunks(c) = 0 /\ SentChunks(c, <<>>) = 0 /\ FinishedTracked(c) = 0
  <2>1. \A k \in Nat : 0 * k + 0 = 0
    BY Z3
  <2>2. CommittedChunks(c) = 0 * ChunksInField + 0
    BY <1>1 DEF CommittedChunks
  <2>3. Len(<<>>) = 0
    OBVIOUS
  <2> QED
    BY <1>1, <1>2, <2>1, <2>2, <2>3 DEF SentChunks, FinishedTracked
<1>5. QueueAgrees(c, <<>>)
  BY <1>4 DEF QueueAgrees
<1>6. TrackedBefore(0) = 0
  <2>1. Field(0) = 0 /\ Offset(0) = 0
    BY <1>2 DEF Field, Offset
  <2> QED
    BY <2>1 DEF TrackedBefore
<1>7. DoneAgrees(c, <<>>, <<>>)
  BY <1>4, <1>6 DEF DoneAgrees
<1>8. InFlight(c, <<>>, <<>>)
  <2>1. <<>> \in Seq(Tokens)
    OBVIOUS
  <2>2. Occurrences(<<>>, TrackedTokens) = 0
    BY <2>1, OccurrencesType
  <2> QED
    BY <1>1, <2>2 DEF InFlight
<1>9. Aligned(c, <<>>, <<>>)
  BY <1>3, <1>5, <1>7, <1>8 DEF Aligned
<1> QED
  BY <1>1, <1>9 DEF AlignedStream, c

\* A stream that only its report counters, or nothing, changed stays aligned.
LEMMA AlignedKept ==
    ASSUME NEW s \in Streams, AlignedStream(s), NEW c \in Counters, NEW e \in Counters,
           c = sender[s], sender'[s] = e, media'[s] = media[s],
           e.committed_fields = c.committed_fields, e.finished_fields = c.finished_fields,
           e.committed_first_chunks = c.committed_first_chunks,
           e.finished_first_chunks = c.finished_first_chunks,
           e.chunk_in_field_counter = c.chunk_in_field_counter
    PROVE  AlignedStream(s)'
<1>1. Aligned(c, media[s].queue, media[s].done)
  BY DEF AlignedStream
<1>2. Aligned(e, media[s].queue, media[s].done)
  BY <1>1, AlignedSame
<1> QED
  BY <1>2 DEF AlignedStream

\* Every step keeps every stream aligned, until one is cancelled.
LEMMA AlignmentStep ==
    ASSUME Types, Alignment, [Next]_vars
    PROVE  Alignment'
<1> SUFFICES ASSUME pc' \notin {"stop", "done"}, NEW s \in Streams
             PROVE  AlignedStream(s)'
  BY DEF Alignment
<1>01. pc \notin {"stop", "done"}
  BY StopStays
<1>0. AlignedStream(s) /\ Aligned(sender[s], media[s].queue, media[s].done)
  BY <1>01 DEF Alignment, AlignedStream
<1>02. /\ sender[s] \in Counters /\ media[s].queue \in Seq(Tokens)
       /\ media[s].done \in Seq(TrackedTokens)
       /\ sender \in [Streams -> Counters]
  BY StreamTypes DEF Types, TypeOK
<1>03. ASSUME sender'[s] = sender[s], media'[s] = media[s]
       PROVE  AlignedStream(s)'
  BY <1>0, <1>03 DEF AlignedStream
<1>1. CASE Bookkeeping
  BY <1>03, <1>1, BookkeepingFrame
<1>2. CASE vars' = vars \/ SendReport
  BY <1>03, <1>2 DEF vars, SendReport
<1>3. CASE SendInitialReport
  <2>1. PICK r \in Results : CommitSenderReport(cur, sender[cur], r)
    BY <1>3, InitialReportEffect
  <2>2. cur \in Streams /\ sender[cur] \in Counters /\ media' = media /\ TypeOK
    BY <1>02, <1>3, InitialReportEffect DEF Types
  <2>3. PICK e \in Counters :
           /\ sender' = [sender EXCEPT ![cur] = e]
           /\ e.committed_fields = sender[cur].committed_fields
           /\ e.finished_fields = sender[cur].finished_fields
           /\ e.committed_first_chunks = sender[cur].committed_first_chunks
           /\ e.finished_first_chunks = sender[cur].finished_first_chunks
           /\ e.chunk_in_field_counter = sender[cur].chunk_in_field_counter
    BY <2>1, <2>2, SenderReportEffect
  <2>4. CASE s = cur
    <3>1. sender'[s] = e
      BY <1>02, <2>3, <2>4
    <3> QED
      BY <1>0, <1>02, <2>2, <2>3, <2>4, <3>1, AlignedKept
  <2>5. CASE s # cur
    BY <1>02, <1>03, <2>2, <2>3, <2>5
  <2> QED
    BY <2>4, <2>5
<1>4. CASE ReportCompletion
  <2>1. PICK e \in Counters :
           /\ sender' = [sender EXCEPT ![Head(report.done)] = e]
           /\ e.committed_fields = sender[Head(report.done)].committed_fields
           /\ e.finished_fields = sender[Head(report.done)].finished_fields
           /\ e.committed_first_chunks = sender[Head(report.done)].committed_first_chunks
           /\ e.finished_first_chunks = sender[Head(report.done)].finished_first_chunks
           /\ e.chunk_in_field_counter = sender[Head(report.done)].chunk_in_field_counter
    BY <1>4, ReportCompletionEffect DEF Abort
  <2>2. media' = media
    BY <1>4, ReportCompletionEffect
  <2>3. CASE s = Head(report.done)
    <3>1. sender'[s] = e
      BY <1>02, <2>1, <2>3
    <3> QED
      BY <1>0, <1>02, <2>1, <2>2, <2>3, <3>1, AlignedKept
  <2>4. CASE s # Head(report.done)
    BY <1>02, <1>03, <2>1, <2>2, <2>4
  <2> QED
    BY <2>3, <2>4
<1>5. CASE ProcessMediaCompletion
  <2> DEFINE d == media[cur].done
             c == Finished(sender[cur], Head(d))
  <2>1. /\ cur \in Streams /\ d # <<>> /\ c \in Counters
        /\ media'[cur].done = Tail(d) /\ media'[cur].queue = media[cur].queue
        /\ \A u \in Streams \ {cur} : media'[u] = media[u]
        /\ \/ sender' = [sender EXCEPT ![cur] = c]
           \/ \E r \in Results : CommitSenderReport(cur, c, r)
    BY <1>5, CompletionEffect DEF Abort
  <2> HIDE DEF c
  <2>2. PICK e \in Counters :
           /\ sender' = [sender EXCEPT ![cur] = e]
           /\ e.committed_fields = c.committed_fields
           /\ e.finished_fields = c.finished_fields
           /\ e.committed_first_chunks = c.committed_first_chunks
           /\ e.finished_first_chunks = c.finished_first_chunks
           /\ e.chunk_in_field_counter = c.chunk_in_field_counter
    BY <2>1, SenderReportEffect DEF Types
  <2>3. CASE s = cur
    <3>1. Aligned(c, media[s].queue, Tail(d))
      BY <1>0, <1>02, <2>1, <2>3, AlignedFinish DEF c
    <3>2. Aligned(e, media[s].queue, Tail(d))
      BY <2>1, <2>2, <3>1, AlignedSame
    <3>3. sender'[s] = e
      BY <1>02, <2>2, <2>3
    <3> QED
      BY <2>1, <2>3, <3>2, <3>3 DEF AlignedStream
  <2>4. CASE s # cur
    BY <1>02, <1>03, <2>1, <2>2, <2>4
  <2> QED
    BY <2>3, <2>4
<1>6. CASE CommitMediaChunk
  <2>1. /\ cur \in Streams /\ HasFreeFrameBuffer(sender[cur])
        /\ sender' = [sender EXCEPT ![cur] = Committed(sender[cur])]
        /\ media'[cur].queue = Append(media[cur].queue, TokenFor(sender[cur]))
        /\ media'[cur].done = media[cur].done
        /\ \A u \in Streams \ {cur} : media'[u] = media[u]
    BY <1>6, CommitEffect
  <2>2. CASE s = cur
    <3>1. sender'[s] = Committed(sender[s])
      BY <1>02, <2>1, <2>2
    <3>2. Aligned(Committed(sender[s]), Append(media[s].queue, TokenFor(sender[s])), media[s].done)
      BY <1>0, <1>02, <2>1, <2>2, AlignedCommit
    <3> QED
      BY <2>1, <2>2, <3>1, <3>2 DEF AlignedStream
  <2>3. CASE s # cur
    BY <1>02, <1>03, <2>1, <2>3
  <2> QED
    BY <2>2, <2>3
<1>7. CASE CommitQueueFull
  <2>1. PICK e \in Counters :
           /\ media' = media
           /\ sender' = [sender EXCEPT ![cur] = e]
           /\ e.committed_fields = sender[cur].committed_fields
           /\ e.finished_fields = sender[cur].finished_fields
           /\ e.committed_first_chunks = sender[cur].committed_first_chunks
           /\ e.finished_first_chunks = sender[cur].finished_first_chunks
           /\ e.chunk_in_field_counter = sender[cur].chunk_in_field_counter
    BY <1>7, KeepEffect
  <2>2. CASE s = cur
    <3>1. sender'[s] = e
      BY <1>02, <2>1, <2>2
    <3> QED
      BY <1>0, <1>02, <2>1, <2>2, <3>1, AlignedKept
  <2>3. CASE s # cur
    BY <1>02, <1>03, <2>1, <2>3
  <2> QED
    BY <2>2, <2>3
<1>8. CASE StopMediaStream \/ StopFails
  BY <1>01, <1>8 DEF StopMediaStream, StopFails
<1>9. CASE \E u \in Streams : SendMediaChunk(u)
  <2>1. PICK u \in Streams : SendMediaChunk(u)
    BY <1>9
  <2>2. sender' = sender /\ \A v \in Streams \ {u} : media'[v] = media[v]
    BY <2>1, SendEffect DEF AdapterFrame
  <2>3. CASE s = u
    <3>1. /\ media[s].queue # <<>> /\ media'[s].queue = Tail(media[s].queue)
          /\ media'[s].done = IF Head(media[s].queue) = NoToken THEN media[s].done
                              ELSE Append(media[s].done, Head(media[s].queue))
      BY <2>1, <2>3, SendEffect
    <3> QED
      BY <1>0, <1>02, <2>2, <3>1, AlignedSend DEF AlignedStream
  <2>4. CASE s # u
    BY <1>03, <2>2, <2>4
  <2> QED
    BY <2>3, <2>4
<1> QED
  BY <1>1, <1>2, <1>3, <1>4, <1>5, <1>6, <1>7, <1>8, <1>9, StepCases

-----------------------------------------------------------------------------
(* Reports the thread waits for                                            *)

Awaited(S) ==
    UNION {{s} \X ((S[s].finished_reports + 1) .. S[s].committed_reports) : s \in Streams}

\* When a stream waits for its n-th report.
LEMMA AwaitedElement ==
    ASSUME NEW S, NEW s, NEW n
    PROVE  <<s, n>> \in Awaited(S) <=>
               s \in Streams /\ n \in (S[s].finished_reports + 1) .. S[s].committed_reports
BY DEF Awaited

\* The set is one of pairs.
LEMMA AwaitedPairs ==
    ASSUME NEW S, NEW T,
           \A s, n : <<s, n>> \in Awaited(S) <=> <<s, n>> \in Awaited(T)
    PROVE  Awaited(S) = Awaited(T)
<1>1. \A x \in Awaited(S) : x = <<x[1], x[2]>>
  BY DEF Awaited
<1>2. \A x \in Awaited(T) : x = <<x[1], x[2]>>
  BY DEF Awaited
<1> QED
  BY <1>1, <1>2

\* The report counters of the streams decide.
LEMMA AwaitedSame ==
    ASSUME NEW S, NEW T,
           \A s \in Streams : /\ T[s].finished_reports = S[s].finished_reports
                              /\ T[s].committed_reports = S[s].committed_reports
    PROVE  Awaited(T) = Awaited(S)
<1>1. ASSUME NEW s, NEW n PROVE <<s, n>> \in Awaited(S) <=> <<s, n>> \in Awaited(T)
  BY AwaitedElement
<1> QED
  BY <1>1, AwaitedPairs

\* S has waited for one report less than T, the n-th of stream s.
LEMMA AwaitedOneMore ==
    ASSUME NEW S, NEW T, NEW s \in Streams, NEW n \in Nat,
           \A u \in Streams \ {s} : /\ T[u].finished_reports = S[u].finished_reports
                                    /\ T[u].committed_reports = S[u].committed_reports,
           (T[s].finished_reports + 1) .. T[s].committed_reports
               = ((S[s].finished_reports + 1) .. S[s].committed_reports) \cup {n},
           n \notin (S[s].finished_reports + 1) .. S[s].committed_reports,
           IsFiniteSet(Awaited(S)) \/ IsFiniteSet(Awaited(T))
    PROVE  /\ IsFiniteSet(Awaited(S)) /\ IsFiniteSet(Awaited(T))
           /\ Cardinality(Awaited(T)) = Cardinality(Awaited(S)) + 1
<1>1. \A u, k : <<u, k>> \in Awaited(T) <=> <<u, k>> \in Awaited(S) \/ <<u, k>> = <<s, n>>
  <2> TAKE u, k
  <2>1. CASE u = s
    BY <2>1, AwaitedElement
  <2>2. CASE u # s
    BY <2>2, AwaitedElement
  <2> QED
    BY <2>1, <2>2
<1>2. <<s, n>> \notin Awaited(S)
  BY AwaitedElement
<1>3. \A x \in Awaited(S) \cup Awaited(T) : x = <<x[1], x[2]>>
  BY DEF Awaited
<1>4. Awaited(T) = Awaited(S) \cup {<<s, n>>}
  BY <1>1, <1>3
<1>5. IsFiniteSet(Awaited(S))
  <2>1. Awaited(S) \in SUBSET Awaited(T)
    BY <1>4
  <2> QED
    BY <2>1, FS_Subset
<1> QED
  BY <1>2, <1>4, <1>5, FS_AddElement, ZenonT(30)

\* Tracked reports of stream s in the queue q or among the completions d.
Tracked(s) == [of |-> s, tracked |-> TRUE]
InBoth(q, d, s) == Occurrences(q, {Tracked(s)}) + Occurrences(d, {s})

\* A report committed may be in, a polled one is out, a sent one stays or was not in.
LEMMA InBothSteps ==
    ASSUME NEW q \in Seq(ReportsSent), NEW d \in Seq(Streams), NEW s \in Streams
    PROVE  /\ InBoth(q, d, s) \in Nat
           /\ \A x \in ReportsSent :
                 InBoth(Append(q, x), d, s) <= InBoth(q, d, s) + IF x.of = s THEN 1 ELSE 0
           /\ d # <<>> => InBoth(q, Tail(d), s) + (IF Head(d) = s THEN 1 ELSE 0) = InBoth(q, d, s)
           /\ q # <<>> =>
                 LET x == Head(q)
                 IN  InBoth(Tail(q), IF x.tracked THEN Append(d, x.of) ELSE d, s) = InBoth(q, d, s)
<1>1. Occurrences(q, {Tracked(s)}) \in Nat /\ Occurrences(d, {s}) \in Nat
  BY OccurrencesType
<1>2. \A u \in Streams : Occurrences(Append(d, u), {s})
                             = Occurrences(d, {s}) + (IF u = s THEN 1 ELSE 0)
  <2> TAKE u \in Streams
  <2>1. Occurrences(Append(d, u), {s}) = Occurrences(d, {s}) + (IF u \in {s} THEN 1 ELSE 0)
    BY OccurrencesAppend
  <2> QED
    BY <2>1
<1>3. \A x \in ReportsSent : x = Tracked(s) <=> x.of = s /\ x.tracked
  BY DEF ReportsSent, Tracked
<1>4. d # <<>> => Occurrences(d, {s}) = Occurrences(Tail(d), {s}) + (IF Head(d) = s THEN 1 ELSE 0)
  <2>1. d # <<>> =>
           Occurrences(d, {s}) = Occurrences(Tail(d), {s}) + (IF Head(d) \in {s} THEN 1 ELSE 0)
    BY OccurrencesTail
  <2> QED
    BY <2>1
<1>5. d # <<>> => Occurrences(Tail(d), {s}) \in Nat
  <2>1. d # <<>> => Tail(d) \in Seq(Streams)
    OBVIOUS
  <2> QED
    BY <2>1, OccurrencesType
<1>6. InBoth(q, d, s) \in Nat
  BY <1>1 DEF InBoth
<1>7. ASSUME NEW x \in ReportsSent
      PROVE  InBoth(Append(q, x), d, s) <= InBoth(q, d, s) + IF x.of = s THEN 1 ELSE 0
  <2>1. Occurrences(Append(q, x), {Tracked(s)})
            = Occurrences(q, {Tracked(s)}) + (IF x \in {Tracked(s)} THEN 1 ELSE 0)
    BY OccurrencesAppend
  <2>2. x \in {Tracked(s)} => x.of = s
    BY <1>3
  <2> DEFINE o == Occurrences(q, {Tracked(s)})
             n == Occurrences(Append(q, x), {Tracked(s)})
             p == Occurrences(d, {s})
  <2>3. o \in Nat /\ p \in Nat /\ n = o + (IF x \in {Tracked(s)} THEN 1 ELSE 0)
    BY <1>1, <2>1
  <2> HIDE DEF o, n, p
  <2>4. n + p <= o + p + IF x.of = s THEN 1 ELSE 0
    BY <2>2, <2>3
  <2> QED
    BY <2>4 DEF InBoth, o, n, p
<1>8. d # <<>> => InBoth(q, Tail(d), s) + (IF Head(d) = s THEN 1 ELSE 0) = InBoth(q, d, s)
  BY <1>1, <1>4, <1>5 DEF InBoth
<1>9. ASSUME q # <<>>
      PROVE  LET x == Head(q)
             IN  InBoth(Tail(q), IF x.tracked THEN Append(d, x.of) ELSE d, s) = InBoth(q, d, s)
  <2> DEFINE x == Head(q)
             e == IF x.tracked THEN Append(d, x.of) ELSE d
             o == Occurrences(q, {Tracked(s)})
             n == Occurrences(Tail(q), {Tracked(s)})
  <2>1. x \in ReportsSent /\ Tail(q) \in Seq(ReportsSent)
    BY <1>9, SequenceSteps
  <2>2. o \in Nat /\ n \in Nat
    BY <1>1, <2>1, OccurrencesType
  <2>3. o = n + IF x \in {Tracked(s)} THEN 1 ELSE 0
    BY <1>9, OccurrencesTail
  <2>4. x \in {Tracked(s)} <=> x.of = s /\ x.tracked
    BY <1>3, <2>1
  <2>5. x.of \in Streams /\ x.tracked \in BOOLEAN
    BY <2>1 DEF ReportsSent
  <2>6. Occurrences(e, {s})
            = Occurrences(d, {s}) + IF x.of = s /\ x.tracked THEN 1 ELSE 0
    <3>1. CASE x.tracked
      BY <1>2, <2>5, <3>1
    <3>2. CASE ~x.tracked
      BY <1>1, <3>2
    <3> QED
      BY <3>1, <3>2
  <2> HIDE DEF o, n, e
  <2>7. n + Occurrences(e, {s}) = o + Occurrences(d, {s})
    BY <1>1, <2>2, <2>3, <2>4, <2>6
  <2> QED
    BY <2>7 DEF InBoth, o, n, e
<1> QED
  BY <1>6, <1>7, <1>8, <1>9

Pending ==
    /\ IsFiniteSet(Awaited(sender))
    /\ m_pending_message_count = Cardinality(Awaited(sender))
    /\ \A s \in Streams : InBoth(report.queue, report.done, s) <= Outstanding(s)

\* The invariant is the property.
LEMMA PendingIs == Pending => PendingCoversReports
BY DEF Pending, PendingCoversReports, InReports, InBoth, Tracked, AwaitedReports, Awaited

\* At the start no report is waited for.
LEMMA PendingInit == ASSUME Init PROVE Pending
<1>1. \A s \in Streams : sender[s].committed_reports = 0 /\ sender[s].finished_reports = 0
  BY DEF Init
<1>2. Awaited(sender) = {}
  <2>1. \A s \in Streams : (sender[s].finished_reports + 1) .. sender[s].committed_reports = {}
    BY <1>1
  <2> QED
    BY <2>1 DEF Awaited
<1>3. m_pending_message_count = 0 /\ report.queue = <<>> /\ report.done = <<>>
  BY DEF Init
<1>4. \A s \in Streams : Occurrences(<<>>, {s}) = 0 /\ Occurrences(<<>>, {Tracked(s)}) = 0
  <2>1. <<>> \in Seq(Streams)
    OBVIOUS
  <2> QED
    BY <2>1, OccurrencesType
<1> QED
  BY <1>1, <1>2, <1>3, <1>4, FS_EmptySet DEF Pending, InBoth, Outstanding

\* One more report of stream s is committed, whether the library takes it or not.
LEMMA PendingCommit ==
    ASSUME Types, Pending, NEW s \in Streams, NEW e \in Counters,
           sender' = [sender EXCEPT ![s] = e],
           e.finished_reports = sender[s].finished_reports,
           \/ /\ e.committed_reports = sender[s].committed_reports + 1
              /\ m_pending_message_count' = m_pending_message_count + 1
              /\ \/ report' = report
                 \/ ReportAdded(s)
           \/ /\ e.committed_reports = sender[s].committed_reports
              /\ m_pending_message_count' = m_pending_message_count
              /\ report' = report
    PROVE  Pending'
<1>1. /\ sender'[s] = e /\ \A u \in Streams \ {s} : sender'[u] = sender[u]
      /\ \A u \in Streams : sender[u] \in Counters
      /\ report.queue \in Seq(ReportsSent) /\ report.done \in Seq(Streams)
      /\ DataTypes
  BY TypesAre, StreamTypes DEF Types, TypeOK
<1>2. /\ sender[s].committed_reports \in Nat /\ sender[s].finished_reports \in Nat
      /\ \A u \in Streams : sender[u].committed_reports \in Nat /\ sender[u].finished_reports \in Nat
  BY <1>1, CounterTypes
<1>3. \A u \in Streams : /\ InBoth(report.queue, report.done, u) \in Nat
                         /\ InBoth(report.queue, report.done, u)
                                <= sender[u].committed_reports - sender[u].finished_reports
  BY <1>1, InBothSteps DEF Pending, Outstanding
<1>4. CASE /\ e.committed_reports = sender[s].committed_reports + 1
           /\ m_pending_message_count' = m_pending_message_count + 1
           /\ \/ report' = report
              \/ ReportAdded(s)
  <2> DEFINE n == sender[s].committed_reports + 1
  <2>1. sender[s].finished_reports <= sender[s].committed_reports
    BY <1>2, <1>3
  <2>2. /\ n \in Nat
        /\ (e.finished_reports + 1) .. e.committed_reports
               = ((sender[s].finished_reports + 1) .. sender[s].committed_reports) \cup {n}
        /\ n \notin (sender[s].finished_reports + 1) .. sender[s].committed_reports
    BY <1>2, <1>4, <2>1
  <2> HIDE DEF n
  <2>3. /\ IsFiniteSet(Awaited(sender'))
        /\ Cardinality(Awaited(sender')) = Cardinality(Awaited(sender)) + 1
    <3>1. /\ (sender'[s].finished_reports + 1) .. sender'[s].committed_reports
                 = ((sender[s].finished_reports + 1) .. sender[s].committed_reports) \cup {n}
          /\ \A u \in Streams \ {s} :
                /\ sender'[u].finished_reports = sender[u].finished_reports
                /\ sender'[u].committed_reports = sender[u].committed_reports
          /\ IsFiniteSet(Awaited(sender))
      BY <1>1, <2>2 DEF Pending
    <3> QED
      BY <2>2, <3>1, AwaitedOneMore, ZenonT(30)
  <2>4. ASSUME NEW u \in Streams
        PROVE  InBoth(report'.queue, report'.done, u)
                   <= InBoth(report.queue, report.done, u) + IF s = u THEN 1 ELSE 0
    <3>1. CASE report' = report
      BY <1>3, <3>1
    <3>2. CASE ReportAdded(s)
      <4>1. PICK x \in ReportsSent :
               /\ x.of = s
               /\ report'.queue = Append(report.queue, x) /\ report'.done = report.done
        BY <1>1, <3>2, ReportAppended
      <4>2. InBoth(Append(report.queue, x), report.done, u)
                <= InBoth(report.queue, report.done, u) + IF s = u THEN 1 ELSE 0
        <5>1. report.queue \in Seq(ReportsSent) /\ report.done \in Seq(Streams)
          BY <1>1
        <5>2. InBoth(Append(report.queue, x), report.done, u)
                  <= InBoth(report.queue, report.done, u) + IF x.of = u THEN 1 ELSE 0
          BY <5>1, InBothSteps
        <5> QED
          BY <4>1, <5>2
      <4> QED
        BY <4>1, <4>2
    <3> QED
      BY <1>4, <3>1, <3>2
  <2>5. ASSUME NEW u \in Streams
        PROVE  InBoth(report'.queue, report'.done, u) <= Outstanding(u)'
    <3>1. /\ InBoth(report'.queue, report'.done, u)
                 <= InBoth(report.queue, report.done, u) + IF s = u THEN 1 ELSE 0
          /\ InBoth(report'.queue, report'.done, u) \in Nat
      <4>1. report'.queue \in Seq(ReportsSent) /\ report'.done \in Seq(Streams)
        BY <1>1, <1>4, ReportAppended DEF ReportState
      <4> QED
        BY <2>4, <4>1, InBothSteps
    <3>2. CASE u = s
      BY <1>1, <1>2, <1>3, <1>4, <3>1, <3>2 DEF Outstanding
    <3>3. CASE u # s
      BY <1>1, <1>2, <1>3, <3>1, <3>3, SMTT(30) DEF Outstanding
    <3> QED
      BY <3>2, <3>3
  <2> QED
    BY <1>4, <2>3, <2>5 DEF Pending
<1>5. CASE /\ e.committed_reports = sender[s].committed_reports
           /\ m_pending_message_count' = m_pending_message_count
           /\ report' = report
  <2>1. \A u \in Streams : /\ sender'[u].finished_reports = sender[u].finished_reports
                           /\ sender'[u].committed_reports = sender[u].committed_reports
    BY <1>1, <1>5
  <2>2. Awaited(sender') = Awaited(sender)
    BY <2>1, AwaitedSame
  <2> QED
    BY <1>5, <2>1, <2>2 DEF Pending, Outstanding
<1> QED
  BY <1>4, <1>5

\* Nothing about reports changes but the reports the adapter has sent.
LEMMA PendingKept ==
    ASSUME Types, Pending,
           \A s \in Streams : /\ sender'[s].finished_reports = sender[s].finished_reports
                              /\ sender'[s].committed_reports = sender[s].committed_reports,
           m_pending_message_count' = m_pending_message_count,
           \/ report' = report
           \/ /\ report.queue # <<>>
              /\ report'.queue = Tail(report.queue)
              /\ LET x == Head(report.queue)
                 IN  report'.done = IF x.tracked THEN Append(report.done, x.of) ELSE report.done
    PROVE  Pending'
<1>1. report.queue \in Seq(ReportsSent) /\ report.done \in Seq(Streams)
  BY StreamTypes DEF Types
<1>2. Awaited(sender') = Awaited(sender)
  BY AwaitedSame
<1>3. ASSUME NEW s \in Streams
      PROVE  InBoth(report'.queue, report'.done, s) = InBoth(report.queue, report.done, s)
  <2>1. CASE report' = report
    BY <2>1
  <2>2. CASE /\ report.queue # <<>>
             /\ report'.queue = Tail(report.queue)
             /\ LET x == Head(report.queue)
                IN  report'.done = IF x.tracked THEN Append(report.done, x.of) ELSE report.done
    <3> DEFINE x == Head(report.queue)
               d == IF x.tracked THEN Append(report.done, x.of) ELSE report.done
    <3>1. InBoth(Tail(report.queue), d, s) = InBoth(report.queue, report.done, s)
      BY <1>1, <2>2, InBothSteps, ZenonT(30)
    <3>2. report'.queue = Tail(report.queue) /\ report'.done = d
      BY <2>2
    <3> QED
      BY <3>1, <3>2
  <2> QED
    BY <2>1, <2>2
<1> QED
  BY <1>2, <1>3 DEF Pending, Outstanding

\* Every step keeps the count of the reports waited for.
LEMMA PendingStep ==
    ASSUME Types, Pending, [Next]_vars
    PROVE  Pending'
<1>0. TypeOK /\ \A s \in Streams : sender[s] \in Counters
  BY StreamTypes DEF Types
<1>1. CASE Bookkeeping \/ vars' = vars
  <2>1. /\ sender' = sender /\ report' = report
        /\ m_pending_message_count' = m_pending_message_count
    BY <1>1, BookkeepingFrame DEF vars
  <2> QED
    BY <2>1, PendingKept
<1>2. CASE SendInitialReport
  <2>1. PICK r \in Results : CommitSenderReport(cur, sender[cur], r)
    BY <1>2, InitialReportEffect
  <2>2. cur \in Streams
    BY <1>2, InitialReportEffect
  <2>3. PICK e \in Counters :
           /\ sender' = [sender EXCEPT ![cur] = e]
           /\ e.finished_reports = sender[cur].finished_reports
           /\ \/ /\ e.committed_reports = sender[cur].committed_reports + 1
                 /\ m_pending_message_count' = m_pending_message_count + 1
                 /\ \/ report' = report
                    \/ ReportAdded(cur)
              \/ /\ e.committed_reports = sender[cur].committed_reports
                 /\ m_pending_message_count' = m_pending_message_count
                 /\ report' = report
    BY <1>0, <2>1, <2>2, SenderReportEffect
  <2> QED
    BY <2>2, <2>3, PendingCommit
<1>3. CASE ReportCompletion
  <2> DEFINE s == Head(report.done)
  <2>1. /\ s \in Streams /\ report.done # <<>>
        /\ m_pending_message_count' = m_pending_message_count - 1
        /\ report'.done = Tail(report.done) /\ report'.queue = report.queue
    BY <1>3, ReportCompletionEffect
  <2>2. /\ report.queue \in Seq(ReportsSent) /\ report.done \in Seq(Streams)
        /\ sender[s].committed_reports \in Nat /\ sender[s].finished_reports \in Nat
        /\ \A u \in Streams : sender[u].committed_reports \in Nat /\ sender[u].finished_reports \in Nat
        /\ Tail(report.done) \in Seq(Streams)
    <3>1. \A u \in Streams : sender[u].committed_reports \in Nat /\ sender[u].finished_reports \in Nat
      BY <1>0, CounterTypes
    <3>2. report.queue \in Seq(ReportsSent) /\ report.done \in Seq(Streams)
      BY <1>0, StreamTypes
    <3>3. Tail(report.done) \in Seq(Streams)
      BY <2>1, <3>2
    <3> QED
      BY <2>1, <3>1, <3>2, <3>3
  <2>3. \A u \in Streams :
           /\ InBoth(report.queue, report.done, u)
                  <= sender[u].committed_reports - sender[u].finished_reports
           /\ InBoth(report.queue, Tail(report.done), u) + (IF s = u THEN 1 ELSE 0)
                  = InBoth(report.queue, report.done, u)
           /\ InBoth(report.queue, Tail(report.done), u) \in Nat
    BY <2>1, <2>2, InBothSteps, ZenonT(30) DEF Pending, Outstanding
  <2>4. sender[s].finished_reports + 1 <= sender[s].committed_reports
    <3>1. /\ InBoth(report.queue, report.done, s)
                 <= sender[s].committed_reports - sender[s].finished_reports
          /\ InBoth(report.queue, Tail(report.done), s) + 1 = InBoth(report.queue, report.done, s)
          /\ InBoth(report.queue, Tail(report.done), s) \in Nat
      BY <2>1, <2>3
    <3> QED
      BY <2>2, <3>1
  <2>5. PICK e \in Counters :
           /\ sender' = [sender EXCEPT ![s] = e]
           /\ e.committed_reports = sender[s].committed_reports
           /\ e.finished_reports = sender[s].finished_reports + 1
    <3>1. ~(sender[s].committed_reports <= sender[s].finished_reports)
      BY <2>2, <2>4
    <3> QED
      BY <1>3, <3>1, ReportCompletionEffect
  <2>6. sender'[s] = e /\ \A u \in Streams \ {s} : sender'[u] = sender[u]
    BY <2>1, <2>5 DEF Types, TypeOK
  <2> DEFINE n == sender[s].finished_reports + 1
  <2>7. /\ n \in Nat
        /\ (sender[s].finished_reports + 1) .. sender[s].committed_reports
               = ((e.finished_reports + 1) .. e.committed_reports) \cup {n}
        /\ n \notin (e.finished_reports + 1) .. e.committed_reports
    BY <2>2, <2>4, <2>5
  <2> HIDE DEF n, s
  <2>8. /\ IsFiniteSet(Awaited(sender'))
        /\ Cardinality(Awaited(sender)) = Cardinality(Awaited(sender')) + 1
    BY <2>1, <2>6, <2>7, AwaitedOneMore DEF Pending
  <2>9. m_pending_message_count' = Cardinality(Awaited(sender'))
    <3>1. Cardinality(Awaited(sender')) \in Nat
      BY <2>8, FS_CardinalityType
    <3> QED
      BY <2>1, <2>8, <3>1 DEF Pending
  <2>10. ASSUME NEW u \in Streams
         PROVE  InBoth(report'.queue, report'.done, u) <= Outstanding(u)'
    <3> DEFINE old == InBoth(report.queue, report.done, u)
               new == InBoth(report.queue, Tail(report.done), u)
    <3>1. /\ old <= sender[u].committed_reports - sender[u].finished_reports
          /\ new + (IF s = u THEN 1 ELSE 0) = old /\ new \in Nat
          /\ sender[u].committed_reports \in Nat /\ sender[u].finished_reports \in Nat
      BY <2>2, <2>3
    <3> HIDE DEF old, new
    <3>2. new <= sender'[u].committed_reports - sender'[u].finished_reports
      <4>1. CASE u = s
        BY <2>5, <2>6, <3>1, <4>1
      <4>2. CASE u # s
        BY <2>6, <3>1, <4>2
      <4> QED
        BY <4>1, <4>2
    <3> QED
      BY <2>1, <3>2 DEF new, Outstanding
  <2> QED
    BY <2>8, <2>9, <2>10 DEF Pending
<1>4. CASE ProcessMediaCompletion
  <2> DEFINE c == Finished(sender[cur], Head(media[cur].done))
  <2>1. /\ cur \in Streams /\ c \in Counters
        /\ \/ /\ sender' = [sender EXCEPT ![cur] = c] \/ sender' = sender
              /\ UNCHANGED <<m_pending_message_count, report>>
           \/ \E r \in Results : CommitSenderReport(cur, c, r)
    BY <1>4, CompletionEffect
  <2>2. /\ c.finished_reports = sender[cur].finished_reports
        /\ c.committed_reports = sender[cur].committed_reports
    BY <1>0, <2>1, FinishedFields
  <2> HIDE DEF c
  <2>3. CASE \E r \in Results : CommitSenderReport(cur, c, r)
    <3>1. PICK e \in Counters :
             /\ sender' = [sender EXCEPT ![cur] = e]
             /\ e.finished_reports = c.finished_reports
             /\ \/ /\ e.committed_reports = c.committed_reports + 1
                   /\ m_pending_message_count' = m_pending_message_count + 1
                   /\ \/ report' = report
                      \/ ReportAdded(cur)
                \/ /\ e.committed_reports = c.committed_reports
                   /\ m_pending_message_count' = m_pending_message_count
                   /\ report' = report
      BY <1>0, <2>1, <2>3, SenderReportEffect
    <3> QED
      BY <2>1, <2>2, <3>1, PendingCommit
  <2>4. CASE /\ sender' = [sender EXCEPT ![cur] = c] \/ sender' = sender
             /\ UNCHANGED <<m_pending_message_count, report>>
    <3>1. \A u \in Streams : /\ sender'[u].finished_reports = sender[u].finished_reports
                             /\ sender'[u].committed_reports = sender[u].committed_reports
      BY <2>1, <2>2, <2>4 DEF Types, TypeOK
    <3> QED
      BY <2>4, <3>1, PendingKept
  <2> QED
    BY <2>1, <2>3, <2>4
<1>5. CASE CommitMediaChunk
  <2>1. /\ cur \in Streams /\ sender' = [sender EXCEPT ![cur] = Committed(sender[cur])]
        /\ UNCHANGED <<m_pending_message_count, report>>
    BY <1>5, CommitEffect
  <2>2. /\ Committed(sender[cur]).finished_reports = sender[cur].finished_reports
        /\ Committed(sender[cur]).committed_reports = sender[cur].committed_reports
    BY <1>0, <2>1, CommittedFields
  <2>3. \A u \in Streams : /\ sender'[u].finished_reports = sender[u].finished_reports
                           /\ sender'[u].committed_reports = sender[u].committed_reports
    BY <2>1, <2>2 DEF Types, TypeOK
  <2> QED
    BY <2>1, <2>3, PendingKept
<1>6. CASE CommitQueueFull
  <2>1. PICK e \in Counters :
           /\ cur \in Streams /\ sender' = [sender EXCEPT ![cur] = e]
           /\ e.committed_reports = sender[cur].committed_reports
           /\ e.finished_reports = sender[cur].finished_reports
           /\ UNCHANGED <<m_pending_message_count, report>>
    BY <1>6, KeepEffect
  <2>2. \A u \in Streams : /\ sender'[u].finished_reports = sender[u].finished_reports
                           /\ sender'[u].committed_reports = sender[u].committed_reports
    BY <2>1 DEF Types, TypeOK
  <2> QED
    BY <2>1, <2>2, PendingKept
<1>7. CASE StopMediaStream \/ StopFails
  <2>1. UNCHANGED <<sender, m_pending_message_count, report>>
    BY <1>7 DEF StopMediaStream, StopFails
  <2> QED
    BY <2>1, PendingKept
<1>8. CASE SendReport
  <2>1. /\ UNCHANGED <<sender, m_pending_message_count>>
        /\ report.queue # <<>> /\ report'.queue = Tail(report.queue)
        /\ LET x == Head(report.queue)
           IN  report'.done = IF x.tracked THEN Append(report.done, x.of) ELSE report.done
    BY <1>8, SendReportEffect DEF AdapterFrame
  <2> QED
    BY <2>1, PendingKept
<1>9. CASE \E s \in Streams : SendMediaChunk(s)
  <2>1. UNCHANGED <<sender, m_pending_message_count, report>>
    BY <1>9 DEF SendMediaChunk
  <2> QED
    BY <2>1, PendingKept
<1> QED
  BY <1>1, <1>2, <1>3, <1>4, <1>5, <1>6, <1>7, <1>8, <1>9, StepCases

-----------------------------------------------------------------------------
(* The life of the streams                                                 *)

AllStreams == {Rtcp} \cup Streams

InService == pc \in {"initial", "check", "track", "commit", "sleep"}

\* The streams are created and destroyed in order; who is gone has nothing to send.
Life ==
    /\ pc = "start" => created = {s \in AllStreams : s < cur}
    /\ pc \in {"start", "failed"} => report.queue = <<>> /\ \A s \in Streams : media[s].queue = <<>>
    /\ InService => created = AllStreams
    /\ pc = "stop" => created = {s \in AllStreams : cur <= s}
    /\ pc = "done" => created = {s \in AllStreams : \E f \in ownFailure : f <= s}
    /\ pc # "done" => ownFailure = {}
    /\ \A s \in Streams \ created : media[s].queue = <<>>
    /\ Rtcp \notin created => report.queue = <<>>

\* The invariant gives the property.
LEMMA LifeIs == Life => StopEndsAtFailure
BY DEF Life, StopEndsAtFailure, AllStreams

\* The generic stream comes first, the others follow in order.
LEMMA StreamOrder ==
    /\ NumStreams \in Nat \ {0}
    /\ \A s : s \in AllStreams <=> s \in Int /\ -1 <= s /\ s <= NumStreams - 1
    /\ \A s : s \in Streams <=> s \in Int /\ 0 <= s /\ s <= NumStreams - 1
    /\ Rtcp = -1
BY SettingsAssumption DEF AllStreams, Streams, Rtcp

\* At the start no stream exists.
LEMMA LifeInit == ASSUME Init PROVE Life
<1>1. pc = "start" /\ cur = Rtcp /\ created = {} /\ ownFailure = {}
  BY DEF Init
<1>2. report.queue = <<>> /\ \A s \in Streams : media[s].queue = <<>>
  BY DEF Init
<1>3. {s \in AllStreams : s < Rtcp} = {}
  BY StreamOrder
<1> QED
  BY <1>1, <1>2, <1>3 DEF Life, InService

\* While all streams exist the thread goes on, or begins to stop them.
LEMMA LifeInService ==
    ASSUME Life, InService, created' = created, ownFailure' = ownFailure,
           pc' \in {"initial", "check", "track", "commit", "sleep"}
               \/ (pc' = "stop" /\ cur' = Rtcp)
    PROVE  Life'
<1>1. created' = AllStreams /\ ownFailure' = {}
  BY DEF Life, InService
<1>2. {s \in AllStreams : Rtcp <= s} = AllStreams
  BY StreamOrder
<1>3. Streams \subseteq AllStreams /\ Rtcp \in AllStreams
  BY DEF AllStreams
<1> QED
  BY <1>1, <1>2, <1>3 DEF Life, InService

\* The adapter, the clock and the user.
LEMMA LifeBeside ==
    ASSUME Life, pc' = pc, cur' = cur, created' = created, ownFailure' = ownFailure,
           report.queue = <<>> => report'.queue = <<>>,
           \A s \in Streams : media[s].queue = <<>> => media'[s].queue = <<>>
    PROVE  Life'
BY DEF Life, InService

\* Every step of start_rivermax_streams, of the loop and of stop_rivermax_streams
\* keeps the order.
LEMMA LifeStep ==
    ASSUME Types, Life, [Next]_vars
    PROVE  Life'
<1>1. CASE \/ SendInitialReport \/ LoopEndsBySignal \/ NoReportCompletion \/ ReportCompletion
           \/ ReportPollFails \/ NoMediaCompletion \/ ProcessMediaCompletion \/ MediaPollFails
           \/ CommitFails \/ Wake
  <2>1. /\ InService /\ created' = created /\ ownFailure' = ownFailure
        /\ \/ pc' \in {"initial", "check", "track", "commit", "sleep"}
           \/ pc' = "stop" /\ cur' = Rtcp
    <3>1. CASE SendInitialReport
      BY <3>1, InitialReportEffect DEF InService
    <3>2. CASE LoopEndsBySignal \/ NoReportCompletion \/ ReportPollFails
      BY <3>2 DEF LoopEndsBySignal, NoReportCompletion, ReportPollFails, ServeStreams, Abort, InService
    <3>3. CASE NoMediaCompletion \/ MediaPollFails \/ CommitFails \/ Wake
      BY <3>3 DEF NoMediaCompletion, MediaPollFails, CommitFails, Wake, ContinueWith, Abort, InService
    <3>4. CASE ReportCompletion
      BY <3>4, ReportCompletionEffect DEF InService, Abort, ServeStreams
    <3>5. CASE ProcessMediaCompletion
      BY <3>5, CompletionEffect DEF InService, Abort, ContinueWith
    <3> QED
      BY <1>1, <3>1, <3>2, <3>3, <3>4, <3>5
  <2> QED
    BY <2>1, LifeInService
<1>2. CASE SkipCommit \/ CommitMediaChunk \/ CommitQueueFull
  <2>1. /\ pc = "commit" /\ cur \in Streams /\ created' = created /\ ownFailure' = ownFailure
        /\ \E c \in Counters : EndOfStream(c)
    <3>1. CASE SkipCommit
      <4>1. pc = "commit" /\ EndOfStream(sender[cur]) /\ UNCHANGED <<created, ownFailure>>
        BY <3>1 DEF SkipCommit
      <4>2. cur \in Streams
        BY <4>1 DEF Types
      <4> QED
        BY <4>1, <4>2, StreamTypes DEF Types
    <3>2. CASE CommitMediaChunk
      BY <3>2, CommitEffect
    <3>3. CASE CommitQueueFull
      BY <3>3, KeepEffect
    <3> QED
      BY <1>2, <3>1, <3>2, <3>3
  <2>2. pc' \in {"track", "check", "sleep"}
    BY <2>1, EndOfStreamEffect
  <2> QED
    BY <2>1, <2>2, LifeInService DEF InService
<1>3. CASE Tick \/ Signal \/ vars' = vars
  <2>1. UNCHANGED <<pc, cur, created, ownFailure, report, media>>
    BY <1>3 DEF Tick, Signal, vars, threadVars
  <2> QED
    BY <2>1, LifeBeside
<1>4. CASE SendReport
  <2>1. UNCHANGED <<pc, cur, created, ownFailure, media>> /\ report.queue # <<>>
    BY <1>4, SendReportEffect DEF AdapterFrame, threadVars
  <2> QED
    BY <2>1, LifeBeside
<1>5. CASE \E s \in Streams : SendMediaChunk(s)
  <2>1. PICK s \in Streams : SendMediaChunk(s)
    BY <1>5
  <2>2. /\ UNCHANGED <<pc, cur, created, ownFailure, report>> /\ media[s].queue # <<>>
        /\ \A u \in Streams \ {s} : media'[u] = media[u]
    BY <2>1, SendEffect DEF AdapterFrame, threadVars
  <2> QED
    BY <2>2, LifeBeside
<1>6. CASE CreateStream
  <2>1. /\ pc = "start" /\ created' = created \cup {cur}
        /\ \/ cur = NumStreams - 1 /\ pc' = "initial"
           \/ cur # NumStreams - 1 /\ pc' = "start" /\ cur' = cur + 1
        /\ UNCHANGED <<media, report, ownFailure>>
    BY <1>6 DEF CreateStream
  <2>2. cur \in AllStreams
    BY DEF Types, TypeOK, AllStreams
  <2>3. /\ created = {s \in AllStreams : s < cur} /\ ownFailure = {}
        /\ report.queue = <<>> /\ \A s \in Streams : media[s].queue = <<>>
    BY <2>1 DEF Life
  <2>4. /\ cur = NumStreams - 1 => created' = AllStreams
        /\ created' = {s \in AllStreams : s < cur + 1}
    BY <2>1, <2>2, <2>3, StreamOrder
  <2> QED
    BY <2>1, <2>3, <2>4 DEF Life, InService
<1>7. CASE CreateFails
  <2>1. pc = "start" /\ pc' = "failed" /\ UNCHANGED <<created, media, report, ownFailure>>
    BY <1>7 DEF CreateFails
  <2> QED
    BY <2>1 DEF Life, InService
<1>8. CASE DestroyRtcp
  <2>1. /\ pc = "stop" /\ pc' = "stop" /\ cur = Rtcp /\ cur' = 0 /\ report.queue = <<>>
        /\ created' = created \ {Rtcp} /\ UNCHANGED <<media, report, ownFailure>>
    BY <1>8 DEF DestroyRtcp
  <2>2. created = {s \in AllStreams : Rtcp <= s}
    BY <2>1 DEF Life
  <2>3. created' = {s \in AllStreams : 0 <= s} /\ Streams \subseteq created'
    BY <2>1, <2>2, StreamOrder
  <2> QED
    BY <2>1, <2>3 DEF Life, InService
<1>9. CASE StopMediaStream
  <2>1. /\ pc = "stop" /\ cur \in Streams /\ CancelUnsent /\ created' = created \ {cur}
        /\ \/ cur < NumStreams - 1 /\ pc' = "stop" /\ cur' = cur + 1
           \/ ~(cur < NumStreams - 1) /\ pc' = "done"
        /\ UNCHANGED <<report, ownFailure>>
    BY <1>9 DEF StopMediaStream, Types, TypeOK
  <2>2. created = {s \in AllStreams : cur <= s} /\ ownFailure = {}
    BY <2>1 DEF Life
  <2>3. /\ created' = {s \in AllStreams : cur + 1 <= s}
        /\ ~(cur < NumStreams - 1) => created' = {}
        /\ Rtcp \notin created
    BY <2>1, <2>2, StreamOrder
  <2>4. media'[cur].queue = <<>> /\ \A s \in Streams \ {cur} : media'[s] = media[s]
    <3>1. media \in [Streams -> MediaState]
      BY TypesAre DEF DataTypes, MediaState
    <3>2. <<>> \in Seq(Tokens) /\ media' = [media EXCEPT ![cur].queue = <<>>]
      BY <2>1 DEF CancelUnsent
    <3> QED
      BY <2>1, <3>1, <3>2 DEF MediaState
  <2>5. \A s \in Streams \ created' : media'[s].queue = <<>>
    BY <2>1, <2>4 DEF Life
  <2>6. report'.queue = <<>>
    BY <2>1, <2>3 DEF Life
  <2>7. pc' = "done" => created' = {s \in AllStreams : \E f \in ownFailure' : f <= s}
    BY <2>1, <2>2, <2>3
  <2> QED
    BY <2>1, <2>2, <2>3, <2>5, <2>6, <2>7 DEF Life, InService
<1>10. CASE StopFails
  <2>1. /\ pc = "stop" /\ pc' = "done" /\ ownFailure' = ownFailure \cup {cur}
        /\ UNCHANGED <<created, report>>
        /\ media' = media \/ (cur # Rtcp /\ CancelUnsent)
    BY <1>10 DEF StopFails
  <2>2. created = {s \in AllStreams : cur <= s} /\ ownFailure' = {cur}
    BY <2>1 DEF Life
  <2>3. \A s \in Streams : media[s].queue = <<>> => media'[s].queue = <<>>
    <3>1. CASE media' = media
      BY <3>1
    <3>2. CASE cur # Rtcp /\ CancelUnsent
      <4>1. media \in [Streams -> MediaState] /\ cur \in Streams
        BY <3>2, TypesAre DEF DataTypes, MediaState, Types, TypeOK
      <4>2. <<>> \in Seq(Tokens) /\ media' = [media EXCEPT ![cur].queue = <<>>]
        BY <3>2 DEF CancelUnsent
      <4> QED
        BY <4>1, <4>2 DEF MediaState
    <3> QED
      BY <2>1, <3>1, <3>2
  <2>4. created' = {s \in AllStreams : \E f \in ownFailure' : f <= s}
    BY <2>1, <2>2
  <2> QED
    BY <2>1, <2>3, <2>4 DEF Life, InService
<1> QED
  BY <1>1, <1>2, <1>3, <1>4, <1>5, <1>6, <1>7, <1>8, <1>9, <1>10, StepCases DEF Bookkeeping

-----------------------------------------------------------------------------
(* Sleeping                                                                *)

\* No media chunk is committed before the loop.
NothingYet == pc \in {"start", "initial"} =>
                  \A s \in Streams : media[s].queue = <<>> /\ media[s].done = <<>>

\* Nothing is, since commits and polls of media chunks belong to the loop.
LEMMA NothingYetStep ==
    ASSUME Types, NothingYet, [Next]_vars
    PROVE  NothingYet'
<1> SUFFICES ASSUME pc' \in {"start", "initial"}
             PROVE  pc \in {"start", "initial"} /\ media' = media
  BY DEF NothingYet
<1>1. CASE Bookkeeping \/ vars' = vars
  <2>1. media' = media
    BY <1>1, BookkeepingFrame DEF vars
  <2>2. pc \in {"start", "initial"}
    BY <1>1, EndOfStreamEffect, StreamTypes DEF Bookkeeping, CreateStream, CreateFails,
       LoopEndsBySignal, NoReportCompletion, ReportPollFails, NoMediaCompletion, MediaPollFails,
       SkipCommit, EndOfStream, CommitFails, Wake, DestroyRtcp, Tick, Signal, vars, threadVars,
       Abort, ServeStreams, ContinueWith
  <2> QED
    BY <2>1, <2>2
<1>2. CASE SendInitialReport \/ SendReport
  BY <1>2 DEF SendInitialReport, SendReport, threadVars
<1>3. CASE ReportCompletion
  BY <1>3 DEF ReportCompletion, Abort, ServeStreams
<1>4. CASE ProcessMediaCompletion
  BY <1>4 DEF ProcessMediaCompletion, ContinueWith, Abort
<1>5. CASE CommitMediaChunk \/ CommitQueueFull
  BY <1>5 DEF CommitMediaChunk, CommitQueueFull, EndOfStream
<1>6. CASE StopMediaStream \/ StopFails
  BY <1>6 DEF StopMediaStream, StopFails
<1>7. CASE \E s \in Streams : SendMediaChunk(s)
  BY <1>7 DEF SendMediaChunk, threadVars, NothingYet
<1> QED
  BY <1>1, <1>2, <1>3, <1>4, <1>5, <1>6, <1>7, StepCases

\* Completions of streams that have their start time are of chunks that were due.
DonePast == \A s \in timed : \A i \in 1..Len(media[s].done) :
                media[s].done[i] = LastChunkToken \/ media[s].done[i] <= clock

\* The wakeup time is no later than any stream's next first chunk: of the
\* streams asked so far, and of all of them when the thread sleeps.
WakeupInTime ==
    /\ pc \in {"track", "commit"} /\ all_senders_can_sleep =>
           \A s \in Streams : s < cur => latest_wakeup_time <= WakeupTime(s, sender[s])
    /\ pc = "sleep" =>
           /\ clock < latest_wakeup_time
           /\ \A s \in Streams : latest_wakeup_time <= WakeupTime(s, sender[s])

\* A waiting first chunk would be due, and none is before the wakeup time.
LEMMA SleepIs ==
    ASSUME Types, Alignment, DonePast, WakeupInTime
    PROVE  SleepDelaysNoReport
<1> SUFFICES ASSUME pc = "sleep", NEW s \in Streams, NEW i \in DOMAIN media[s].done
             PROVE  media[s].done[i] = LastChunkToken
  BY DEF SleepDelaysNoReport
<1>1. /\ sender[s] \in Counters /\ media[s].queue \in Seq(Tokens)
      /\ media[s].done \in Seq(TrackedTokens)
      /\ clock \in Int /\ latest_wakeup_time \in Int
  BY StreamTypes DEF Types
<1>2. i \in 1..Len(media[s].done)
  BY <1>1
<1>3. Aligned(sender[s], media[s].queue, media[s].done)
  BY DEF Alignment, AlignedStream
<1>4. \/ media[s].done[i] = LastChunkToken
      \/ /\ media[s].done[i] \in Nat
         /\ sender[s].finished_first_chunks <= media[s].done[i]
  BY <1>1, <1>2, <1>3, WaitingTokens
<1>6. /\ clock < latest_wakeup_time /\ s \in timed
      /\ latest_wakeup_time <= sender[s].finished_first_chunks
  <2>1. clock < latest_wakeup_time /\ latest_wakeup_time <= WakeupTime(s, sender[s])
    BY DEF WakeupInTime
  <2>2. s \in timed
    BY <1>1, <2>1 DEF WakeupTime
  <2> QED
    BY <2>1, <2>2 DEF WakeupTime
<1>5. media[s].done[i] = LastChunkToken \/ media[s].done[i] <= clock
  BY <1>2, <1>6 DEF DonePast
<1>7. sender[s].finished_first_chunks \in Nat
  BY <1>1, CounterTypes
<1> QED
  BY <1>1, <1>4, <1>5, <1>6, <1>7

\* The adapter sends a first chunk not before its period.
LEMMA DonePastStep ==
    ASSUME Types, NothingYet, DonePast, [Next]_vars
    PROVE  DonePast'
<1>0. /\ clock \in Int /\ timed \subseteq Streams
      /\ \A s \in Streams : media[s].done \in Seq(TrackedTokens) /\ media[s].queue \in Seq(Tokens)
  BY StreamTypes DEF Types, TypeOK
<1>01. ASSUME NEW s \in timed, media'[s].done = media[s].done, clock' \in {clock, clock + 1}
       PROVE  \A i \in 1..Len(media'[s].done) :
                  media'[s].done[i] = LastChunkToken \/ media'[s].done[i] <= clock'
  <2> TAKE i \in 1..Len(media'[s].done)
  <2>1. media[s].done[i] = LastChunkToken \/ media[s].done[i] <= clock
    BY <1>01 DEF DonePast
  <2>2. media[s].done[i] \in Int
    BY <1>0, <1>01 DEF TrackedTokens, LastChunkToken
  <2> QED
    BY <1>0, <1>01, <2>1, <2>2
<1>1. CASE \/ Bookkeeping \/ vars' = vars \/ ReportCompletion
           \/ CommitMediaChunk \/ CommitQueueFull \/ StopMediaStream \/ StopFails \/ SendReport
  <2>1. clock' \in {clock, clock + 1}
    <3>1. CASE Bookkeeping
      BY <3>1 DEF Bookkeeping, CreateStream, CreateFails, LoopEndsBySignal, NoReportCompletion,
         ReportPollFails, NoMediaCompletion, MediaPollFails, SkipCommit, CommitFails, Wake,
         DestroyRtcp, Tick, Signal
    <3>2. CASE ~Bookkeeping
      BY <1>1, <3>2 DEF vars, ReportCompletion, CommitMediaChunk,
         CommitQueueFull, StopMediaStream, StopFails, SendReport
    <3> QED
      BY <3>1, <3>2
  <2>2. \A s \in Streams : media'[s].done = media[s].done
    <3>1. CASE Bookkeeping \/ vars' = vars \/ SendReport
      BY <3>1, BookkeepingFrame DEF vars, SendReport
    <3>2. CASE ReportCompletion \/ CommitQueueFull
      BY <3>2 DEF ReportCompletion, CommitQueueFull
    <3>3. CASE CommitMediaChunk
      BY <3>3, CommitEffect
    <3>4. CASE StopMediaStream \/ StopFails
      <4>1. media' = media \/ media' = [media EXCEPT ![cur].queue = <<>>]
        BY <3>4 DEF StopMediaStream, StopFails, CancelUnsent
      <4>2. media \in [Streams -> MediaState]
        BY TypesAre DEF DataTypes, MediaState
      <4> QED
        BY <4>1, <4>2 DEF MediaState
    <3> QED
      BY <1>1, <3>1, <3>2, <3>3, <3>4
  <2>3. timed' = timed
    BY <1>1 DEF vars, Bookkeeping, CreateStream, CreateFails, LoopEndsBySignal,
       NoReportCompletion, ReportPollFails, NoMediaCompletion, MediaPollFails, SkipCommit,
       CommitFails, Wake, DestroyRtcp, Tick, Signal, ReportCompletion, CommitMediaChunk,
       CommitQueueFull, StopMediaStream, StopFails, SendReport
  <2> QED
    BY <1>0, <1>01, <2>1, <2>2, <2>3 DEF DonePast
<1>4. CASE SendInitialReport
  <2>1. pc = "initial" /\ cur \in Streams /\ media' = media /\ timed' = timed \cup {cur}
    BY <1>4, InitialReportEffect
  <2>2. \A s \in Streams : media'[s].done = <<>>
    BY <2>1 DEF NothingYet
  <2> QED
    BY <1>0, <2>1, <2>2 DEF DonePast
<1>2. CASE ProcessMediaCompletion
  <2>1. /\ cur \in Streams /\ media[cur].done # <<>> /\ media'[cur].done = Tail(media[cur].done)
        /\ \A u \in Streams \ {cur} : media'[u] = media[u]
        /\ clock' = clock /\ timed' = timed
    BY <1>2, CompletionEffect
  <2> SUFFICES ASSUME NEW s \in timed
               PROVE  \A i \in 1..Len(media'[s].done) :
                          media'[s].done[i] = LastChunkToken \/ media'[s].done[i] <= clock'
    BY <2>1 DEF DonePast
  <2>2. CASE s # cur
    BY <1>0, <1>01, <2>1, <2>2
  <2>3. CASE s = cur
    <3> DEFINE d == media[cur].done
    <3>1. /\ Len(Tail(d)) = Len(d) - 1 /\ Len(d) \in Nat
          /\ \A i \in 1..(Len(d) - 1) : Tail(d)[i] = d[i + 1] /\ i + 1 \in 1..Len(d)
      BY <1>0, <2>1
    <3>2. \A i \in 1..Len(d) : d[i] = LastChunkToken \/ d[i] <= clock
      BY <2>1, <2>3 DEF DonePast
    <3> HIDE DEF d
    <3>3. \A i \in 1..Len(Tail(d)) : Tail(d)[i] = LastChunkToken \/ Tail(d)[i] <= clock
      BY <3>1, <3>2
    <3> QED
      BY <2>1, <2>3, <3>3 DEF d
  <2> QED
    BY <2>2, <2>3
<1>3. CASE \E s \in Streams : SendMediaChunk(s)
  <2>1. PICK u \in Streams : SendMediaChunk(u)
    BY <1>3
  <2> DEFINE q == media[u].queue
             d == media[u].done
  <2>2. /\ q # <<>> /\ Due(u, Head(q)) /\ clock' = clock /\ timed' = timed
        /\ media'[u].done = IF Head(q) = NoToken THEN d ELSE Append(d, Head(q))
        /\ \A v \in Streams \ {u} : media'[v] = media[v]
    BY <2>1, SendEffect DEF AdapterFrame
  <2>3. /\ Head(q) \in Tokens /\ Len(d) \in Nat
        /\ Head(q) # NoToken => /\ Len(Append(d, Head(q))) = Len(d) + 1
                                /\ Append(d, Head(q))[Len(d) + 1] = Head(q)
                                /\ \A i \in 1..Len(d) : Append(d, Head(q))[i] = d[i]
    <3>1. Head(q) \in Tokens
      BY <1>0, <2>2
    <3>2. Head(q) # NoToken => Head(q) \in TrackedTokens
      BY <3>1 DEF Tokens
    <3> QED
      BY <1>0, <3>1, <3>2, SequenceSteps
  <2> SUFFICES ASSUME NEW s \in timed
               PROVE  \A i \in 1..Len(media'[s].done) :
                          media'[s].done[i] = LastChunkToken \/ media'[s].done[i] <= clock'
    BY <2>2 DEF DonePast
  <2>4. CASE s # u \/ Head(q) = NoToken
    BY <1>0, <1>01, <2>2, <2>4
  <2>5. CASE s = u /\ Head(q) # NoToken
    <3>1. Head(q) = LastChunkToken \/ Head(q) <= clock
      BY <2>2, <2>3, <2>5 DEF Due, Tokens, TrackedTokens, LastChunkToken, NoToken
    <3>2. \A i \in 1..Len(d) : d[i] = LastChunkToken \/ d[i] <= clock
      BY <2>5 DEF DonePast
    <3> DEFINE n == Append(d, Head(q))
               t == Head(q)
    <3>3. /\ Len(n) = Len(d) + 1 /\ n[Len(d) + 1] = t /\ \A i \in 1..Len(d) : n[i] = d[i]
      BY <2>3, <2>5
    <3>4. Len(d) \in Nat
      BY <2>3
    <3>5. media'[s].done = n
      BY <2>2, <2>5
    <3> HIDE DEF n, t, d
    <3>6. \A i \in 1..Len(n) : n[i] = LastChunkToken \/ n[i] <= clock
      BY <3>1, <3>2, <3>3, <3>4 DEF t
    <3> QED
      BY <2>2, <3>5, <3>6
  <2> QED
    BY <2>4, <2>5
<1> QED
  BY <1>1, <1>2, <1>3, <1>4, StepCases

\* A sleeping or serving thread's streams finish no first chunk but in track.
LEMMA WakeupInTimeKept ==
    ASSUME WakeupInTime, UNCHANGED <<cur, all_senders_can_sleep, latest_wakeup_time>>,
           UNCHANGED <<clock, timed>>,
           pc \in {"track", "commit"} \/ pc' \notin {"track", "commit"},
           pc' = "sleep" => pc = "sleep",
           \A s \in Streams : s < cur \/ pc = "sleep" =>
               sender'[s].finished_first_chunks = sender[s].finished_first_chunks
    PROVE  WakeupInTime'
BY DEF WakeupInTime, WakeupTime

\* can_sleep takes the minimum over the streams.
LEMMA WakeupInTimeEndOfStream ==
    ASSUME Types, WakeupInTime, pc = "commit", cur \in Streams, NEW c \in Counters, EndOfStream(c),
           c.finished_first_chunks = sender[cur].finished_first_chunks,
           clock' = clock, timed' = timed,
           \A s \in Streams :
               sender'[s].finished_first_chunks = sender[s].finished_first_chunks
    PROVE  WakeupInTime'
<1>1. /\ pc' \in {"track", "check", "sleep"}
      /\ latest_wakeup_time' \in Int /\ latest_wakeup_time \in Int
      /\ pc' = "track" => cur' = cur + 1
      /\ all_senders_can_sleep' =>
             /\ all_senders_can_sleep
             /\ latest_wakeup_time' <= latest_wakeup_time
             /\ latest_wakeup_time' <= WakeupTime(cur, c)
      /\ pc' = "sleep" =>
             all_senders_can_sleep' /\ latest_wakeup_time' > clock /\ cur = NumStreams - 1
  BY EndOfStreamEffect, StreamTypes DEF Types
<1>2. \A s \in Streams : /\ WakeupTime(s, sender[s]) \in Int
                          /\ WakeupTime(s, sender[s])' = WakeupTime(s, sender[s])
  <2>1. clock \in Int /\ \A s \in Streams : sender[s].finished_first_chunks \in Nat
    BY StreamTypes, CounterTypes DEF Types
  <2> QED
    BY <2>1 DEF WakeupTime
<1>21. WakeupTime(cur, c) = WakeupTime(cur, sender[cur])
  BY DEF WakeupTime
<1>3. ASSUME all_senders_can_sleep', NEW s \in Streams, s <= cur
      PROVE  latest_wakeup_time' <= WakeupTime(s, sender[s])'
  <2>1. CASE s = cur
    BY <1>1, <1>2, <1>21, <1>3, <2>1
  <2>2. CASE s < cur
    <3>1. latest_wakeup_time <= WakeupTime(s, sender[s])
      BY <1>1, <1>3, <2>2 DEF WakeupInTime
    <3>2. latest_wakeup_time' <= latest_wakeup_time
      BY <1>1, <1>3
    <3> QED
      BY <1>1, <1>2, <3>1, <3>2
  <2> QED
    BY <1>3, <2>1, <2>2, StreamOrder
<1>4. CASE pc' = "track"
  BY <1>1, <1>3, <1>4, StreamOrder DEF WakeupInTime
<1>5. CASE pc' = "sleep"
  <2>1. \A s \in Streams : s <= cur
    BY <1>1, <1>5, StreamOrder
  <2> QED
    BY <1>1, <1>3, <1>5, <2>1 DEF WakeupInTime
<1>6. CASE pc' = "check"
  BY <1>6 DEF WakeupInTime
<1> QED
  BY <1>1, <1>4, <1>5, <1>6

\* Every step keeps the wakeup time in time.
LEMMA WakeupInTimeStep ==
    ASSUME Types, WakeupInTime, [Next]_vars
    PROVE  WakeupInTime'
<1>0. sender \in [Streams -> Counters] /\ cur \in Int
  BY StreamTypes DEF Types, TypeOK
<1>1. CASE CreateStream \/ CreateFails \/ LoopEndsBySignal \/ ReportPollFails \/ MediaPollFails
           \/ CommitFails \/ Wake \/ DestroyRtcp \/ SendInitialReport \/ StopMediaStream \/ StopFails
  <2>1. pc' \notin {"track", "commit", "sleep"}
    BY <1>1, InitialReportEffect
       DEF CreateStream, CreateFails, LoopEndsBySignal, ReportPollFails, MediaPollFails, CommitFails,
           Wake, DestroyRtcp, StopMediaStream, StopFails, Abort
  <2> QED
    BY <2>1 DEF WakeupInTime
<1>2. CASE NoReportCompletion \/ ReportCompletion
  <2>1. pc' = "stop" \/ (pc' = "track" /\ cur' = 0)
    BY <1>2, ReportCompletionEffect DEF NoReportCompletion, ServeStreams, Abort
  <2> QED
    BY <2>1, StreamOrder DEF WakeupInTime
<1>3. CASE NoMediaCompletion
  <2>1. pc = "track" /\ pc' = "commit"
        /\ UNCHANGED <<cur, all_senders_can_sleep, latest_wakeup_time, sender, clock, timed>>
    BY <1>3 DEF NoMediaCompletion, ContinueWith
  <2> QED
    BY <2>1, WakeupInTimeKept
<1>4. CASE ProcessMediaCompletion
  <2> DEFINE c == Finished(sender[cur], Head(media[cur].done))
  <2>1. /\ pc = "track" /\ cur \in Streams /\ c \in Counters
        /\ \/ /\ sender' = [sender EXCEPT ![cur] = c] \/ sender' = sender
           \/ \E r \in Results : CommitSenderReport(cur, c, r)
        /\ \/ ContinueWith("commit")
           \/ \E r : Abort(r)
        /\ UNCHANGED <<clock, timed>>
    BY <1>4, CompletionEffect
  <2> HIDE DEF c
  <2>2. (\E e \in Counters : sender' = [sender EXCEPT ![cur] = e]) \/ sender' = sender
    BY <2>1, SenderReportEffect DEF Types
  <2>3. \A s \in Streams : s < cur => sender'[s] = sender[s]
    BY <1>0, <2>1, <2>2, StreamOrder
  <2>4. CASE ContinueWith("commit")
    <3>1. pc' = "commit" /\ UNCHANGED <<cur, all_senders_can_sleep, latest_wakeup_time>>
      BY <2>4 DEF ContinueWith
    <3> QED
      BY <2>1, <2>3, <3>1, WakeupInTimeKept
  <2>5. CASE \E r : Abort(r)
    BY <2>5 DEF Abort, WakeupInTime
  <2> QED
    BY <2>1, <2>4, <2>5
<1>5. CASE SkipCommit
  <2>1. pc = "commit" /\ EndOfStream(sender[cur]) /\ sender' = sender
        /\ UNCHANGED <<clock, timed>>
    BY <1>5 DEF SkipCommit
  <2>2. cur \in Streams
    BY <2>1 DEF Types
  <2> QED
    BY <1>0, <2>1, <2>2, WakeupInTimeEndOfStream
<1>6. CASE CommitMediaChunk
  <2> DEFINE c == Committed(sender[cur])
  <2>1. /\ pc = "commit" /\ cur \in Streams /\ c \in Counters /\ EndOfStream(c)
        /\ UNCHANGED <<clock, timed>>
        /\ sender' = [sender EXCEPT ![cur] = c]
    BY <1>6, CommitEffect
  <2>2. c.finished_first_chunks = sender[cur].finished_first_chunks
    BY <1>0, <2>1, CommittedFields
  <2> HIDE DEF c
  <2>3. \A s \in Streams : sender'[s].finished_first_chunks = sender[s].finished_first_chunks
    BY <1>0, <2>1, <2>2
  <2> QED
    BY <2>1, <2>2, <2>3, WakeupInTimeEndOfStream
<1>7. CASE CommitQueueFull
  <2>1. PICK e \in Counters :
           /\ pc = "commit" /\ cur \in Streams /\ EndOfStream(e)
           /\ UNCHANGED <<clock, timed>>
           /\ sender' = [sender EXCEPT ![cur] = e]
           /\ e.finished_first_chunks = sender[cur].finished_first_chunks
    BY <1>7, KeepEffect
  <2>2. \A s \in Streams : sender'[s].finished_first_chunks = sender[s].finished_first_chunks
    BY <1>0, <2>1
  <2> QED
    BY <2>1, <2>2, WakeupInTimeEndOfStream
<1>8. CASE Tick
  <2>1. /\ UNCHANGED <<pc, cur, all_senders_can_sleep, latest_wakeup_time, sender, timed>>
        /\ clock' = clock + 1
        /\ pc = "sleep" => clock + 1 < latest_wakeup_time
    BY <1>8 DEF Tick, threadVars
  <2>2. pc' = "sleep" => clock' < latest_wakeup_time'
    BY <2>1
  <2>3. ASSUME NEW s \in Streams, latest_wakeup_time <= WakeupTime(s, sender[s])
        PROVE  latest_wakeup_time' <= WakeupTime(s, sender[s])'
    <3>1. clock \in Int /\ latest_wakeup_time \in Int /\ latest_wakeup_time' = latest_wakeup_time
      BY <2>1, StreamTypes DEF Types
    <3>2. CASE s \in timed
      BY <2>1, <2>3, <3>2 DEF WakeupTime
    <3>3. CASE s \notin timed
      <4>1. latest_wakeup_time <= clock
        BY <2>3, <3>3 DEF WakeupTime
      <4>2. WakeupTime(s, sender[s])' = clock + 1
        BY <2>1, <3>3 DEF WakeupTime
      <4>3. latest_wakeup_time <= clock + 1
        BY <3>1, <4>1
      <4> QED
        BY <3>1, <4>2, <4>3
    <3> QED
      BY <3>2, <3>3
  <2> QED
    BY <2>1, <2>2, <2>3, Zenon DEF WakeupInTime
<1>9. CASE Signal \/ vars' = vars \/ SendReport \/ \E s \in Streams : SendMediaChunk(s)
  <2>1. UNCHANGED <<pc, cur, all_senders_can_sleep, latest_wakeup_time, sender, clock, timed>>
    BY <1>9 DEF Signal, vars, threadVars, SendReport, SendMediaChunk
  <2> QED
    BY <2>1 DEF WakeupInTime, WakeupTime
<1> QED
  BY <1>1, <1>2, <1>3, <1>4, <1>5, <1>6, <1>7, <1>8, <1>9, StepCases DEF Bookkeeping

-----------------------------------------------------------------------------
(* Why the loop ends                                                       *)

\* The node stops itself neither for a media chunk nor for a completion.
LEMMA NeverSelfInflictedStep ==
    ASSUME Types, Alignment, Pending, NeverSelfInflicted, [Next]_vars
    PROVE  NeverSelfInflicted'
<1>0. TypeOK /\ \A s \in Streams : sender[s] \in Counters
  BY StreamTypes DEF Types
<1>1. CASE why' = why
  BY <1>1 DEF NeverSelfInflicted
<1>2. CASE CreateStream \/ CreateFails \/ SendInitialReport \/ NoReportCompletion
           \/ NoMediaCompletion \/ SkipCommit \/ Wake \/ DestroyRtcp \/ Tick \/ Signal
           \/ vars' = vars \/ CommitQueueFull \/ StopMediaStream \/ StopFails \/ SendReport
  <2>1. why' = why
    BY <1>2 DEF CreateStream, CreateFails, SendInitialReport, NoReportCompletion, ServeStreams,
       NoMediaCompletion, ContinueWith, SkipCommit, EndOfStream, Wake, DestroyRtcp, Tick, Signal,
       vars, CommitQueueFull, StopMediaStream, StopFails, SendReport
  <2> QED
    BY <1>1, <2>1
<1>3. CASE LoopEndsBySignal \/ ReportPollFails \/ MediaPollFails
  <2>1. why' \in {"signal", "fault"}
    BY <1>3 DEF LoopEndsBySignal, ReportPollFails, MediaPollFails, Abort
  <2> QED
    BY <2>1 DEF NeverSelfInflicted
<1>4. CASE CommitFails
  <2>1. pc = "commit" /\ HasFreeFrameBuffer(sender[cur])
        /\ (~HasChunk(cur) \/ why' = "fault")
    BY <1>4 DEF CommitFails, Commits, Abort
  <2>2. cur \in Streams
    BY <2>1 DEF Types
  <2>3. /\ sender[cur] \in Counters /\ media[cur].queue \in Seq(Tokens)
        /\ media[cur].done \in Seq(TrackedTokens)
        /\ Aligned(sender[cur], media[cur].queue, media[cur].done)
    BY <1>0, <2>1, <2>2, StreamTypes DEF Alignment, AlignedStream
  <2>4. HasChunk(cur)
    BY <2>1, <2>3, RoomHasChunk DEF HasChunk, FreeMediaChunk
  <2> QED
    BY <2>1, <2>4 DEF NeverSelfInflicted
<1>5. CASE ReportCompletion
  <2> DEFINE s == Head(report.done)
  <2>1. /\ s \in Streams /\ report.done # <<>>
        /\ \/ sender[s].committed_reports <= sender[s].finished_reports
           \/ ServeStreams
    BY <1>5, ReportCompletionEffect
  <2>2. /\ report.queue \in Seq(ReportsSent) /\ report.done \in Seq(Streams)
        /\ Tail(report.done) \in Seq(Streams)
        /\ sender[s].committed_reports \in Nat /\ sender[s].finished_reports \in Nat
    <3>1. report.queue \in Seq(ReportsSent) /\ report.done \in Seq(Streams)
      BY <1>0, StreamTypes
    <3> QED
      BY <1>0, <2>1, <3>1, CounterTypes
  <2>3. /\ InBoth(report.queue, Tail(report.done), s) \in Nat
        /\ InBoth(report.queue, Tail(report.done), s) + 1 = InBoth(report.queue, report.done, s)
    BY <2>1, <2>2, InBothSteps
  <2>4. InBoth(report.queue, report.done, s)
            <= sender[s].committed_reports - sender[s].finished_reports
    BY <2>1 DEF Pending, Outstanding
  <2>5. ~(sender[s].committed_reports <= sender[s].finished_reports)
    BY <2>2, <2>3, <2>4
  <2>6. why' = why
    BY <2>1, <2>5 DEF ServeStreams
  <2> QED
    BY <1>1, <2>6
<1>6. CASE ProcessMediaCompletion
  <2> DEFINE d == media[cur].done
  <2>1. /\ pc = "track" /\ cur \in Streams /\ d # <<>>
        /\ \/ ContinueWith("commit")
           \/ Head(d) # LastChunkToken /\ Head(d) # sender[cur].finished_first_chunks
           \/ \E r \in Results : why' = r
    BY <1>6, CompletionEffect DEF Abort
  <2>2. /\ sender[cur] \in Counters /\ media[cur].queue \in Seq(Tokens) /\ d \in Seq(TrackedTokens)
        /\ Aligned(sender[cur], media[cur].queue, d)
    BY <1>0, <2>1, StreamTypes DEF Alignment, AlignedStream
  <2>3. Head(d) \in {LastChunkToken, sender[cur].finished_first_chunks}
    BY <2>1, <2>2, AlignedFinish
  <2>4. why' = why \/ why' \in Results
    BY <2>1, <2>3 DEF ContinueWith
  <2> QED
    BY <1>1, <2>4 DEF NeverSelfInflicted, Results
<1>7. CASE CommitMediaChunk
  <2>1. why' = why
    BY <1>7, CommitEffect DEF EndOfStream
  <2> QED
    BY <1>1, <2>1
<1>8. CASE \E s \in Streams : SendMediaChunk(s)
  <2>1. why' = why
    BY <1>8 DEF SendMediaChunk
  <2> QED
    BY <1>1, <2>1
<1> QED
  BY <1>2, <1>3, <1>4, <1>5, <1>6, <1>7, <1>8, StepCases DEF Bookkeeping

\* What FieldsInFlight says is part of the alignment.
LEMMA FieldsInFlightIs ==
    ASSUME Types, Alignment
    PROVE  FieldsInFlight
<1> SUFFICES ASSUME pc \in {"check", "track", "commit", "sleep"}, NEW s \in Streams
             PROVE  LET c == sender[s]
                    IN  /\ Len(media[s].done) + Occurrences(media[s].queue, TrackedTokens)
                               = c.committed_first_chunks - c.finished_first_chunks
                                 + c.committed_fields - c.finished_fields
                        /\ c.committed_first_chunks <= c.finished_fields + FieldsInMemBlock
                        /\ c.finished_first_chunks - c.finished_fields \in {0, 1}
  BY DEF FieldsInFlight
<1> DEFINE c == sender[s]
           l == Len(media[s].done)
           o == Occurrences(media[s].queue, TrackedTokens)
<1>1. /\ c \in Counters /\ media[s].queue \in Seq(Tokens) /\ media[s].done \in Seq(TrackedTokens)
  BY StreamTypes DEF Types
<1>2. Aligned(c, media[s].queue, media[s].done)
  BY DEF Alignment, AlignedStream
<1>3. /\ c.committed_first_chunks \in Nat /\ c.finished_first_chunks \in Nat
      /\ c.committed_fields \in Nat /\ c.finished_fields \in Nat /\ l \in Nat
  BY <1>1, CounterTypes, SequenceSteps
<1>4. o \in Nat
  BY <1>1, OccurrencesType
<1>5. /\ l + o + c.finished_first_chunks + c.finished_fields
             = c.committed_first_chunks + c.committed_fields
      /\ c.committed_first_chunks <= c.finished_fields + FieldsInMemBlock
      /\ c.finished_first_chunks \in {c.finished_fields, c.finished_fields + 1}
  BY <1>2 DEF Aligned, InFlight, CountersAgree
<1> HIDE DEF c, l, o
<1>6. /\ l + o = c.committed_first_chunks - c.finished_first_chunks
                 + c.committed_fields - c.finished_fields
      /\ c.finished_first_chunks - c.finished_fields \in {0, 1}
  BY <1>3, <1>4, <1>5
<1> QED
  BY <1>5, <1>6 DEF c, l, o

-----------------------------------------------------------------------------
(* One report chunk per stream                                             *)

\* The reports of q are of different streams.
Distinct(q) == \A i, j \in 1..Len(q) : q[i].of = q[j].of => i = j

\* The streams can still take part in the traffic.
Serving == pc \notin {"stop", "done", "failed"}

\* Adapter and thread keep pace, and every stream has its start time or still
\* gets it.
Punctual == prompt /\ (timed = Streams \/ pc \in {"start", "initial"})

\* Then every report still with the adapter is of another stream, one that is
\* ahead of the clock, and no stream is behind it.
PromptReports ==
    /\ Distinct(report.queue)
    /\ \A i \in 1..Len(report.queue) : clock < sender[report.queue[i].of].finished_first_chunks
    /\ \A s \in Streams :
          /\ clock <= sender[s].finished_first_chunks
          /\ 0 <= clock /\ clock < MaxFields => clock < sender[s].committed_first_chunks

Promptness ==
    Punctual =>
        /\ why # "no_free_report"
        /\ pc \in {"start", "initial"} => clock = -1
        /\ pc = "initial" => \A i \in 1..Len(report.queue) : report.queue[i].of < cur
        /\ Serving => PromptReports

\* Fewer reports than streams when one stream has none.
LEMMA ReportOfEach ==
    ASSUME NEW q \in Seq(ReportsSent), Distinct(q), NEW s \in Streams,
           \A i \in 1..Len(q) : q[i].of # s
    PROVE  Len(q) < NumStreams
<1> SUFFICES ASSUME ~(Len(q) < NumStreams) PROVE FALSE
  OBVIOUS
<1> DEFINE of == [i \in 1..Len(q) |-> q[i].of]
<1>1. Len(q) \in Nat /\ of \in [1..Len(q) -> Streams \ {s}] /\ NumStreams \in Nat \ {0}
  <2>1. \A i \in 1..Len(q) : q[i] \in ReportsSent
    OBVIOUS
  <2>2. \A i \in 1..Len(q) : q[i].of \in Streams \ {s}
    BY <2>1 DEF ReportsSent
  <2> QED
    BY <2>2, StreamOrder
<1> HIDE DEF of
<1>2. IsFiniteSet(Streams) /\ Cardinality(Streams) = NumStreams
  <2>1. NumStreams \in Nat \ {0} /\ 0 \in Int /\ NumStreams - 1 \in Int
    BY <1>1
  <2>2. /\ IsFiniteSet(0..(NumStreams - 1))
        /\ Cardinality(0..(NumStreams - 1))
               = IF 0 > NumStreams - 1 THEN 0 ELSE NumStreams - 1 - 0 + 1
    BY <2>1, FS_Interval
  <2> QED
    BY <2>1, <2>2 DEF Streams
<1>3. IsFiniteSet(Streams \ {s}) /\ Cardinality(Streams \ {s}) = NumStreams - 1
  BY <1>2, FS_RemoveElement
<1>4. IsFiniteSet(1..Len(q)) /\ Cardinality(1..Len(q)) = Len(q)
  <2>1. 1 \in Int /\ Len(q) \in Int
    BY <1>1
  <2>2. /\ IsFiniteSet(1..Len(q))
        /\ Cardinality(1..Len(q)) = IF 1 > Len(q) THEN 0 ELSE Len(q) - 1 + 1
    BY <2>1, FS_Interval
  <2> QED
    BY <1>1, <2>2
<1>5. Cardinality(Streams \ {s}) < Cardinality(1..Len(q))
  BY <1>1, <1>3, <1>4
<1>6. \E i, j \in 1..Len(q) : i # j /\ of[i] = of[j]
  BY <1>1, <1>3, <1>4, <1>5, FS_PigeonHole
<1> QED
  BY <1>6 DEF Distinct, of

\* A report sent, and one of another stream committed, leave no stream two.
LEMMA DistinctSteps ==
    ASSUME NEW q \in Seq(ReportsSent), Distinct(q)
    PROVE  /\ q # <<>> => Distinct(Tail(q))
           /\ \A x \in ReportsSent :
                 (\A i \in 1..Len(q) : q[i].of # x.of) => Distinct(Append(q, x))
<1>1. CASE q # <<>>
  <2>1. /\ Len(q) \in Nat /\ Len(Tail(q)) = Len(q) - 1
        /\ \A i \in 1..(Len(q) - 1) : Tail(q)[i] = q[i + 1]
    BY <1>1, SequenceSteps
  <2>2. ASSUME NEW i \in 1..Len(Tail(q)), NEW j \in 1..Len(Tail(q)),
               Tail(q)[i].of = Tail(q)[j].of
        PROVE  i = j
    <3>1. i + 1 \in 1..Len(q) /\ j + 1 \in 1..Len(q) /\ q[i + 1].of = q[j + 1].of
      BY <2>1, <2>2
    <3>2. i + 1 = j + 1
      BY <3>1 DEF Distinct
    <3> QED
      BY <2>1, <3>2
  <2> QED
    BY <2>2 DEF Distinct
<1>2. ASSUME NEW x \in ReportsSent, \A i \in 1..Len(q) : q[i].of # x.of
      PROVE  Distinct(Append(q, x))
  <2>1. /\ Len(q) \in Nat /\ Len(Append(q, x)) = Len(q) + 1 /\ Append(q, x)[Len(q) + 1] = x
        /\ \A i \in 1..Len(q) : Append(q, x)[i] = q[i]
    BY SequenceSteps
  <2>2. ASSUME NEW i \in 1..(Len(q) + 1), NEW j \in 1..(Len(q) + 1),
               Append(q, x)[i].of = Append(q, x)[j].of
        PROVE  i = j
    <3>1. CASE i \in 1..Len(q) /\ j \in 1..Len(q)
      BY <2>1, <2>2, <3>1 DEF Distinct
    <3>2. CASE i = Len(q) + 1 /\ j \in 1..Len(q)
      BY <1>2, <2>1, <2>2, <3>2
    <3>3. CASE j = Len(q) + 1 /\ i \in 1..Len(q)
      BY <1>2, <2>1, <2>2, <3>3
    <3>4. CASE i = Len(q) + 1 /\ j = Len(q) + 1
      BY <3>4
    <3> QED
      BY <2>1, <3>1, <3>2, <3>3, <3>4
  <2> QED
    BY <2>1, <2>2 DEF Distinct
<1> QED
  BY <1>1, <1>2

\* At the start no report is committed and no period has begun.
LEMMA PromptInit == ASSUME Init PROVE Promptness
<1>1. /\ pc = "start" /\ why = "none" /\ clock = -1 /\ report.queue = <<>>
      /\ \A s \in Streams : sender[s].finished_first_chunks = 0
  BY DEF Init
<1>2. PromptReports
  BY <1>1 DEF PromptReports, Distinct
<1> QED
  BY <1>1, <1>2 DEF Promptness

\* A step that leaves the clock, the reports and the first chunks alone.
LEMMA PromptKept ==
    ASSUME Types, Types', Promptness, UNCHANGED <<clock, prompt, timed>>,
           report'.queue = report.queue,
           why' # "no_free_report" \/ why' = why,
           Serving' => Serving, pc' \in {"start", "initial"} => pc \in {"start", "initial"},
           pc' = "initial" => pc = "initial" /\ cur' = cur,
           \A s \in Streams :
               /\ sender'[s].finished_first_chunks = sender[s].finished_first_chunks
               /\ sender[s].committed_first_chunks <= sender'[s].committed_first_chunks
    PROVE  Promptness'
<1> SUFFICES ASSUME Punctual
             PROVE  /\ why' # "no_free_report"
                    /\ pc' \in {"start", "initial"} => clock' = -1
                    /\ pc' = "initial" =>
                           \A i \in 1..Len(report'.queue) : report'.queue[i].of < cur'
                    /\ Serving' => PromptReports'
  <2>1. Punctual' => Punctual
    BY DEF Punctual
  <2> QED
    BY <2>1 DEF Promptness
<1>1. why' # "no_free_report" /\ (pc' \in {"start", "initial"} => clock' = -1)
      /\ (pc' = "initial" => \A i \in 1..Len(report'.queue) : report'.queue[i].of < cur')
  BY DEF Promptness
<1>2. ASSUME Serving' PROVE PromptReports'
  <2>1. PromptReports
    BY <1>2 DEF Promptness
  <2>2. \A i \in 1..Len(report.queue) : report.queue[i].of \in Streams
    <3>1. \A i \in 1..Len(report.queue) : report.queue[i] \in ReportsSent
      BY StreamTypes DEF Types
    <3> QED
      BY <3>1 DEF ReportsSent
  <2>3. \A s \in Streams : /\ sender[s].committed_first_chunks \in Nat
                           /\ sender'[s].committed_first_chunks \in Nat
    <3>1. \A s \in Streams : sender[s] \in Counters /\ sender'[s] \in Counters
      BY DEF Types, TypeOK
    <3> QED
      BY <3>1, CounterTypes
  <2>4. clock \in Int /\ MaxFields \in Nat
    BY SettingsAssumption, StreamTypes DEF Types
  <2>5. ASSUME NEW s \in Streams, 0 <= clock /\ clock < MaxFields
        PROVE  clock < sender'[s].committed_first_chunks
    <3>1. clock < sender[s].committed_first_chunks
      BY <2>1, <2>5 DEF PromptReports
    <3> QED
      BY <2>3, <2>4, <3>1
  <2> QED
    BY <2>1, <2>2, <2>5 DEF PromptReports
<1> QED
  BY <1>1, <1>2

\* The next period begins in time: every stream's field was begun.
LEMMA PromptTick ==
    ASSUME Types, Alignment, Life, Promptness, Tick
    PROVE  Promptness'
<1>1. /\ clock < MaxFields /\ pc # "start" /\ clock' = clock + 1 /\ pc' = pc
      /\ prompt' = (prompt /\ PeriodIsOver /\ pc # "initial")
      /\ UNCHANGED <<sender, media, report, why, timed>>
  BY DEF Tick, threadVars
<1> SUFFICES ASSUME Punctual'
             PROVE  why' # "no_free_report" /\ pc' # "initial" /\ pc' # "start"
                    /\ (Serving' => PromptReports')
  BY DEF Promptness
<1>2. prompt /\ PeriodIsOver /\ pc # "initial" /\ timed = Streams
  <2>1. prompt /\ PeriodIsOver /\ pc # "initial"
    BY <1>1, Zenon DEF Punctual
  <2> QED
    BY <1>1, <2>1 DEF Punctual
<1>21. Punctual
  BY <1>2 DEF Punctual
<1>3. why' # "no_free_report"
  BY <1>1, <1>21 DEF Promptness
<1>4. ASSUME Serving PROVE PromptReports'
  <2>1. PromptReports
    BY <1>21, <1>4 DEF Promptness
  <2>2. clock \in Int /\ clock >= -1 /\ MaxFields \in Nat
    BY SettingsAssumption, StreamTypes DEF Types
  <2>3. report.queue = <<>>
    BY <1>2 DEF PeriodIsOver
  <2>4. ASSUME NEW s \in Streams PROVE clock + 1 <= sender[s].finished_first_chunks
    <3>1. /\ sender[s] \in Counters /\ media[s].queue \in Seq(Tokens)
          /\ media[s].done \in Seq(TrackedTokens)
          /\ Aligned(sender[s], media[s].queue, media[s].done)
      BY <1>4, StreamTypes DEF Types, Alignment, AlignedStream, Serving
    <3>2. /\ sender[s].finished_first_chunks \in Nat /\ sender[s].committed_first_chunks \in Nat
      BY <3>1, CounterTypes
    <3> SUFFICES ASSUME sender[s].finished_first_chunks < clock + 1 PROVE FALSE
      BY <2>2, <3>2
    <3>3. sender[s].finished_first_chunks = clock
      BY <2>1, <2>2, <3>2 DEF PromptReports
    <3>4. sender[s].finished_first_chunks < sender[s].committed_first_chunks
      BY <1>1, <2>1, <2>2, <3>2, <3>3 DEF PromptReports
    <3>5. media[s].done = <<>> /\ (media[s].queue # <<>> => ~Due(s, Head(media[s].queue)))
      BY <1>2 DEF PeriodIsOver
    <3>6. /\ media[s].queue # <<>>
          /\ Head(media[s].queue)
                 \in {LastChunkToken, NoToken, sender[s].finished_first_chunks}
      BY <3>1, <3>4, <3>5, NextToSend
    <3>7. Due(s, Head(media[s].queue))
      BY <2>2, <3>3, <3>6 DEF Due, LastChunkToken, NoToken
    <3> QED
      BY <3>5, <3>6, <3>7
  <2>5. ASSUME NEW s \in Streams, 0 <= clock + 1 /\ clock + 1 < MaxFields
        PROVE  clock + 1 < sender[s].committed_first_chunks
    <3> DEFINE c == sender[s]
    <3>1. /\ c \in Counters /\ media[s].queue \in Seq(Tokens)
          /\ media[s].done \in Seq(TrackedTokens)
          /\ Aligned(c, media[s].queue, media[s].done)
      BY <1>4, StreamTypes DEF Types, Alignment, AlignedStream, Serving
    <3>2. /\ c.committed_first_chunks \in Nat /\ c.committed_fields \in Nat
          /\ c.finished_first_chunks \in Nat /\ c.finished_fields \in Nat
          /\ FieldsInMemBlock \in Nat \ {0}
      BY <3>1, CounterTypes
    <3>3. CASE HasFreeFrameBuffer(c)
      <4>1. c.committed_first_chunks > clock + 1
        BY <1>2, <2>5, <3>3 DEF PeriodIsOver
      <4> QED
        BY <2>2, <3>2, <4>1
    <3>4. CASE ~HasFreeFrameBuffer(c)
      <4> SUFFICES ASSUME c.committed_first_chunks <= clock + 1 PROVE FALSE
        BY <2>2, <3>2
      <4>1. c.finished_fields < c.committed_fields
        BY <3>2, <3>4 DEF HasFreeFrameBuffer
      <4>2. /\ c.finished_first_chunks \in {c.finished_fields, c.finished_fields + 1}
            /\ c.committed_fields <= c.committed_first_chunks
        BY <3>1, <3>2 DEF Aligned, CountersAgree
      <4>3. clock + 1 <= c.finished_first_chunks
        BY <2>4
      <4>4. c.finished_first_chunks = c.finished_fields + 1
        BY <2>2, <3>2, <4>1, <4>2, <4>3
      <4>5. media[s].done = <<>> /\ (media[s].queue # <<>> => ~Due(s, Head(media[s].queue)))
        BY <1>2 DEF PeriodIsOver
      <4>6. media[s].queue # <<>> /\ Head(media[s].queue) \in {LastChunkToken, NoToken}
        BY <3>1, <4>1, <4>4, <4>5, NextToSend
      <4>7. Due(s, Head(media[s].queue))
        BY <4>6 DEF Due, LastChunkToken, NoToken
      <4> QED
        BY <4>5, <4>6, <4>7
    <3> QED
      BY <3>3, <3>4
  <2> QED
    BY <1>1, <2>1, <2>3, <2>4, <2>5 DEF PromptReports, Distinct
<1> QED
  BY <1>1, <1>2, <1>3, <1>4 DEF Serving

\* A report more of stream s, which had none with the adapter.
LEMMA PromptReported ==
    ASSUME Types, Types', Promptness, Punctual, Serving, clock' = clock,
           NEW s \in Streams, NEW e \in Counters, sender' = [sender EXCEPT ![s] = e],
           e.committed_first_chunks = sender[s].committed_first_chunks,
           sender[s].finished_first_chunks <= e.finished_first_chunks,
           clock < e.finished_first_chunks,
           \A i \in 1..Len(report.queue) : report.queue[i].of # s,
           report' = report \/ ReportAdded(s)
    PROVE  PromptReports'
<1> DEFINE q == report.queue
           q2 == report'.queue
<1>0. PromptReports
  BY DEF Promptness
<1>1. /\ sender \in [Streams -> Counters] /\ q \in Seq(ReportsSent) /\ DataTypes /\ clock \in Int
  BY TypesAre, StreamTypes DEF Types, TypeOK
<1>2. /\ sender'[s] = e /\ \A u \in Streams \ {s} : sender'[u] = sender[u]
  BY <1>1
<1>3. /\ \A u \in Streams : sender[u].finished_first_chunks \in Nat
      /\ e.finished_first_chunks \in Nat
  BY <1>1, CounterTypes
<1>4. PICK x \in ReportsSent : x.of = s /\ (q2 = q \/ q2 = Append(q, x))
  <2>1. CASE report' = report
    <3>1. [of |-> s, tracked |-> TRUE] \in ReportsSent
      BY DEF ReportsSent
    <3> QED
      BY <2>1, <3>1
  <2>2. CASE ReportAdded(s)
    BY <1>1, <2>2, ReportAppended
  <2> QED
    BY <2>1, <2>2
<1>5. Distinct(q2)
  BY <1>0, <1>1, <1>4, DistinctSteps DEF PromptReports
<1>6. /\ Len(q) \in Nat /\ Len(Append(q, x)) = Len(q) + 1 /\ Append(q, x)[Len(q) + 1] = x
      /\ \A i \in 1..Len(q) : Append(q, x)[i] = q[i] /\ q[i].of \in Streams
  <2>1. \A i \in 1..Len(q) : q[i] \in ReportsSent
    BY <1>1
  <2> QED
    BY <1>1, <2>1, SequenceSteps DEF ReportsSent
<1> HIDE DEF q, q2
<1>7. ASSUME NEW i \in 1..Len(q2)
      PROVE  clock < sender'[q2[i].of].finished_first_chunks
  <2>1. \A j \in 1..Len(q) : /\ clock < sender[q[j].of].finished_first_chunks
                             /\ q[j].of # s /\ q[j].of \in Streams
    BY <1>0, <1>6 DEF PromptReports, q
  <2>2. \A j \in 1..Len(q) : clock < sender'[q[j].of].finished_first_chunks
    BY <1>2, <2>1
  <2>3. clock < sender'[x.of].finished_first_chunks
    BY <1>2, <1>4
  <2>4. CASE q2 = q
    BY <2>2, <2>4
  <2>5. CASE q2 = Append(q, x)
    <3>1. CASE i \in 1..Len(q)
      BY <1>6, <2>2, <2>5, <3>1
    <3>2. CASE i = Len(q) + 1
      BY <1>6, <2>3, <2>5, <3>2
    <3> QED
      BY <1>6, <2>5, <3>1, <3>2
  <2> QED
    BY <1>4, <2>4, <2>5
<1>8. ASSUME NEW u \in Streams
      PROVE  /\ clock <= sender'[u].finished_first_chunks
             /\ 0 <= clock /\ clock < MaxFields => clock < sender'[u].committed_first_chunks
  <2>1. CASE u = s
    BY <1>0, <1>1, <1>2, <1>3, <2>1 DEF PromptReports
  <2>2. CASE u # s
    BY <1>0, <1>2, <2>2 DEF PromptReports
  <2> QED
    BY <2>1, <2>2
<1> QED
  BY <1>5, <1>7, <1>8 DEF PromptReports, q2

\* Every step of a prompt run keeps one report per stream.
LEMMA PromptStep ==
    ASSUME Types, Types', Alignment, Life, DonePast, Promptness, [Next]_vars
    PROVE  Promptness'
<1>0. /\ TypeOK /\ sender \in [Streams -> Counters] /\ cur \in Int /\ clock \in Int
      /\ report.queue \in Seq(ReportsSent) /\ report.done \in Seq(Streams)
      /\ \A s \in Streams : /\ sender[s] \in Counters
                            /\ sender[s].committed_first_chunks \in Nat
                            /\ sender[s].finished_first_chunks \in Nat
  BY StreamTypes, CounterTypes DEF Types, TypeOK
<1>1. CASE /\ sender' = sender /\ UNCHANGED <<clock, prompt, timed>>
           /\ report'.queue = report.queue
           /\ why' # "no_free_report" \/ why' = why
           /\ Serving' => Serving
           /\ pc' \in {"start", "initial"} => pc' = pc /\ cur' = cur
  BY <1>0, <1>1, PromptKept
<1>2. CASE \/ CreateFails \/ LoopEndsBySignal \/ NoReportCompletion \/ ReportPollFails
           \/ NoMediaCompletion \/ MediaPollFails \/ SkipCommit \/ CommitFails \/ Wake
           \/ DestroyRtcp \/ Signal \/ vars' = vars \/ StopMediaStream \/ StopFails
  <2>1. /\ sender' = sender /\ report' = report /\ UNCHANGED <<clock, prompt, timed>>
        /\ why' # "no_free_report" \/ why' = why
    BY <1>2 DEF CreateFails, LoopEndsBySignal, NoReportCompletion, ReportPollFails,
       NoMediaCompletion, MediaPollFails, SkipCommit, EndOfStream, CommitFails, Wake, DestroyRtcp,
       Signal, vars, StopMediaStream, StopFails, Abort, ServeStreams, ContinueWith
  <2>2. (Serving' => Serving) /\ (pc' \in {"start", "initial"} => pc' = pc /\ cur' = cur)
    BY <1>2 DEF CreateFails, LoopEndsBySignal, NoReportCompletion, ReportPollFails,
       NoMediaCompletion, MediaPollFails, SkipCommit, EndOfStream, CommitFails, Wake, DestroyRtcp,
       Signal, vars, threadVars, StopMediaStream, StopFails, Abort, ServeStreams, ContinueWith,
       Serving
  <2> QED
    BY <1>1, <2>1, <2>2
<1>3. CASE CreateStream
  <2>1. /\ pc = "start" /\ UNCHANGED <<sender, report, clock, prompt, why, timed>>
        /\ pc' \in {"start", "initial"}
    BY <1>3 DEF CreateStream
  <2>2. report.queue = <<>>
    BY <2>1 DEF Life
  <2> QED
    BY <2>1, <2>2 DEF Promptness, PromptReports, Serving, Punctual
<1>4. CASE Tick
  BY <1>4, PromptTick
<1>5. CASE SendInitialReport
  <2>1. /\ pc = "initial" /\ cur \in Streams /\ UNCHANGED <<clock, prompt, why>>
        /\ \/ pc' = "initial" /\ cur' = cur + 1
           \/ pc' = "check"
        /\ \E r \in Results : CommitSenderReport(cur, sender[cur], r)
    BY <1>5, InitialReportEffect
  <2> SUFFICES ASSUME Punctual
               PROVE  /\ PromptReports'
                      /\ pc' = "initial" =>
                             \A i \in 1..Len(report'.queue) : report'.queue[i].of < cur'
    BY <2>1 DEF Promptness, Punctual
  <2>2. /\ clock = -1
        /\ \A i \in 1..Len(report.queue) : report.queue[i].of < cur
    BY <2>1 DEF Promptness
  <2>3. PICK e \in Counters :
           /\ sender' = [sender EXCEPT ![cur] = e]
           /\ e.committed_first_chunks = sender[cur].committed_first_chunks
           /\ e.finished_first_chunks = sender[cur].finished_first_chunks
           /\ \/ report' = report
              \/ ReportAdded(cur)
    BY <1>0, <2>1, SenderReportEffect
  <2>4. /\ clock < e.finished_first_chunks
        /\ \A i \in 1..Len(report.queue) : report.queue[i].of # cur
        /\ sender[cur].finished_first_chunks <= e.finished_first_chunks
    BY <1>0, <2>1, <2>2, <2>3
  <2>5. PromptReports'
    BY <2>1, <2>3, <2>4, PromptReported DEF Serving
  <2>6. ASSUME cur' = cur + 1
        PROVE  \A i \in 1..Len(report'.queue) : report'.queue[i].of < cur'
    <3>1. \A i \in 1..Len(report.queue) : report.queue[i].of < cur'
      <4>1. \A i \in 1..Len(report.queue) : report.queue[i] \in ReportsSent
        BY <1>0
      <4>2. \A i \in 1..Len(report.queue) : report.queue[i].of \in Int
        BY <4>1, StreamOrder DEF ReportsSent
      <4> QED
        BY <1>0, <2>2, <2>6, <4>2
    <3>2. CASE report' = report
      BY <3>1, <3>2
    <3>3. CASE ReportAdded(cur)
      <4> DEFINE q == report.queue
      <4>1. PICK x \in ReportsSent : x.of = cur /\ report'.queue = Append(q, x)
        BY <2>1, <3>3, TypesAre, ReportAppended DEF Types
      <4>2. /\ Len(q) \in Nat /\ Len(Append(q, x)) = Len(q) + 1 /\ Append(q, x)[Len(q) + 1] = x
            /\ \A i \in 1..Len(q) : Append(q, x)[i] = q[i]
        BY <1>0, <4>1, SequenceSteps
      <4>3. x.of < cur'
        BY <1>0, <2>6, <4>1
      <4> QED
        BY <3>1, <4>1, <4>2, <4>3
    <3> QED
      BY <2>3, <3>2, <3>3
  <2> QED
    BY <2>1, <2>5, <2>6
<1>6. CASE ReportCompletion
  <2>1. /\ pc = "check" /\ report'.queue = report.queue /\ UNCHANGED <<clock, prompt, timed>>
        /\ pc' \in {"stop", "track"}
        /\ why' # "no_free_report" \/ why' = why
        /\ \/ sender' = sender
           \/ \E e \in Counters :
                 /\ sender' = [sender EXCEPT ![Head(report.done)] = e]
                 /\ e.committed_first_chunks = sender[Head(report.done)].committed_first_chunks
                 /\ e.finished_first_chunks = sender[Head(report.done)].finished_first_chunks
    BY <1>6, ReportCompletionEffect DEF Abort, ServeStreams
  <2>2. \A s \in Streams :
           /\ sender'[s].finished_first_chunks = sender[s].finished_first_chunks
           /\ sender[s].committed_first_chunks <= sender'[s].committed_first_chunks
    BY <1>0, <2>1, SMTT(30)
  <2> QED
    BY <2>1, <2>2, PromptKept DEF Serving
<1>7. CASE ProcessMediaCompletion
  <2> DEFINE d == media[cur].done
             c == Finished(sender[cur], Head(d))
  <2>1. /\ pc = "track" /\ cur \in Streams /\ d # <<>> /\ c \in Counters
        /\ UNCHANGED <<clock, prompt, timed>>
        /\ \/ /\ Head(d) = LastChunkToken
              /\ sender' = [sender EXCEPT ![cur] = c]
              /\ ContinueWith("commit")
              /\ UNCHANGED report
           \/ /\ Head(d) # LastChunkToken
              /\ Head(d) # sender[cur].finished_first_chunks
           \/ /\ Head(d) # LastChunkToken
              /\ Head(d) = sender[cur].finished_first_chunks
              /\ \E r \in Results :
                    /\ CommitSenderReport(cur, c, r)
                    /\ IF r = "success" THEN ContinueWith("commit") ELSE Abort(r)
    BY <1>7, CompletionEffect
  <2>2. /\ d \in Seq(TrackedTokens) /\ Aligned(sender[cur], media[cur].queue, d)
        /\ media[cur].queue \in Seq(Tokens)
    BY <2>1, StreamTypes DEF Types, Alignment, AlignedStream
  <2>3. Head(d) \in {LastChunkToken, sender[cur].finished_first_chunks}
    BY <1>0, <2>1, <2>2, AlignedFinish
  <2>4. /\ c.committed_first_chunks = sender[cur].committed_first_chunks
        /\ c.finished_first_chunks = IF Head(d) = LastChunkToken
                                     THEN sender[cur].finished_first_chunks
                                     ELSE sender[cur].finished_first_chunks + 1
    BY <1>0, <2>1, FinishedFields
  <2> HIDE DEF c
  <2>5. CASE Head(d) = LastChunkToken
    <3>1. /\ sender' = [sender EXCEPT ![cur] = c] /\ ContinueWith("commit") /\ report' = report
      BY <2>1, <2>5
    <3>2. \A s \in Streams :
             /\ sender'[s].finished_first_chunks = sender[s].finished_first_chunks
             /\ sender[s].committed_first_chunks <= sender'[s].committed_first_chunks
      BY <1>0, <2>1, <2>4, <2>5, <3>1
    <3>3. pc' = "commit" /\ why' = why
      BY <3>1 DEF ContinueWith
    <3> QED
      BY <2>1, <3>1, <3>2, <3>3, PromptKept DEF Serving
  <2>6. CASE Head(d) # LastChunkToken
    <3>1. PICK r \in Results :
             /\ CommitSenderReport(cur, c, r)
             /\ IF r = "success" THEN ContinueWith("commit") ELSE Abort(r)
      BY <2>1, <2>3, <2>6
    <3>11. pc' \in {"commit", "stop"}
      BY <3>1 DEF ContinueWith, Abort
    <3> SUFFICES ASSUME Punctual' PROVE Promptness'
      BY DEF Promptness
    <3>12. timed = Streams /\ Punctual
      BY <2>1, <3>11 DEF Punctual
    <3>0. PromptReports /\ why # "no_free_report" /\ Serving
      BY <2>1, <3>12 DEF Promptness, Serving
    <3>2. PICK e \in Counters :
             /\ sender' = [sender EXCEPT ![cur] = e]
             /\ e.committed_first_chunks = c.committed_first_chunks
             /\ e.finished_first_chunks = c.finished_first_chunks
             /\ r = "no_free_report" => ~(Len(report.queue) < NumStreams)
             /\ \/ report' = report
                \/ ReportAdded(cur)
      BY <1>0, <2>1, <3>1, SenderReportEffect
    <3>3. sender[cur].finished_first_chunks <= clock
      <4>1. Len(d) >= 1 /\ Head(d) = d[1] /\ Len(d) \in Nat
        BY <2>1, <2>2
      <4>2. d[1] = LastChunkToken \/ d[1] <= clock
        BY <2>1, <3>12, <4>1 DEF DonePast
      <4> QED
        BY <2>3, <2>6, <4>1, <4>2
    <3>4. ASSUME NEW i \in 1..Len(report.queue) PROVE report.queue[i].of # cur
      <4>1. clock < sender[report.queue[i].of].finished_first_chunks
        BY <3>0 DEF PromptReports
      <4> QED
        BY <1>0, <2>1, <3>3, <4>1
    <3>5. r # "no_free_report"
      BY <1>0, <2>1, <3>0, <3>2, <3>4, ReportOfEach DEF PromptReports
    <3>6. /\ clock < e.finished_first_chunks
          /\ sender[cur].finished_first_chunks <= e.finished_first_chunks
      <4>1. clock <= sender[cur].finished_first_chunks
        BY <2>1, <3>0 DEF PromptReports
      <4>2. e.finished_first_chunks = sender[cur].finished_first_chunks + 1
        BY <2>4, <2>6, <3>2
      <4> QED
        BY <1>0, <2>1, <4>1, <4>2
    <3>7. PromptReports'
      BY <2>1, <2>4, <3>0, <3>12, <3>2, <3>4, <3>6, PromptReported
    <3>8. why' # "no_free_report"
      BY <3>0, <3>1, <3>5 DEF ContinueWith, Abort
    <3> QED
      BY <3>7, <3>8, <3>11 DEF Promptness
  <2> QED
    BY <2>5, <2>6
<1>8. CASE CommitMediaChunk
  <2> DEFINE c == Committed(sender[cur])
  <2>1. /\ pc = "commit" /\ cur \in Streams /\ c \in Counters /\ EndOfStream(c)
        /\ UNCHANGED <<clock, prompt, report, timed>>
        /\ sender' = [sender EXCEPT ![cur] = c]
    BY <1>8, CommitEffect
  <2>2. /\ c.finished_first_chunks = sender[cur].finished_first_chunks
        /\ c.committed_first_chunks \in {sender[cur].committed_first_chunks,
                                         sender[cur].committed_first_chunks + 1}
    BY <1>0, <2>1, CommittedFields
  <2> HIDE DEF c
  <2>3. \A s \in Streams :
           /\ sender'[s].finished_first_chunks = sender[s].finished_first_chunks
           /\ sender[s].committed_first_chunks <= sender'[s].committed_first_chunks
    BY <1>0, <2>1, <2>2
  <2>4. pc' \in {"track", "check", "sleep"} /\ why' = why
    BY <2>1, EndOfStreamEffect
  <2> QED
    BY <2>1, <2>3, <2>4, PromptKept DEF Serving
<1>9. CASE CommitQueueFull
  <2>1. PICK e \in Counters :
           /\ pc = "commit" /\ cur \in Streams /\ EndOfStream(e)
           /\ UNCHANGED <<clock, prompt, report, timed>>
           /\ sender' = [sender EXCEPT ![cur] = e]
           /\ e.finished_first_chunks = sender[cur].finished_first_chunks
           /\ e.committed_first_chunks = sender[cur].committed_first_chunks
    BY <1>9, KeepEffect
  <2>3. \A s \in Streams :
           /\ sender'[s].finished_first_chunks = sender[s].finished_first_chunks
           /\ sender[s].committed_first_chunks <= sender'[s].committed_first_chunks
    BY <1>0, <2>1
  <2>4. pc' \in {"track", "check", "sleep"} /\ why' = why
    BY <2>1, EndOfStreamEffect
  <2> QED
    BY <2>1, <2>3, <2>4, PromptKept DEF Serving
<1>10. CASE SendReport
  <2>1. /\ report.queue # <<>> /\ report'.queue = Tail(report.queue)
        /\ UNCHANGED <<pc, cur, sender, clock, prompt, why, timed>>
    BY <1>10, SendReportEffect DEF AdapterFrame, threadVars
  <2> DEFINE q == report.queue
  <2>2. /\ Len(q) \in Nat /\ Len(Tail(q)) = Len(q) - 1
        /\ \A i \in 1..(Len(q) - 1) : Tail(q)[i] = q[i + 1] /\ i + 1 \in 1..Len(q)
    BY <1>0, <2>1
  <2>3. PromptReports => PromptReports'
    <3> SUFFICES ASSUME PromptReports PROVE PromptReports'
      OBVIOUS
    <3>1. Distinct(Tail(q))
      BY <1>0, <2>1, DistinctSteps DEF PromptReports
    <3>2. \A i \in 1..Len(Tail(q)) : clock < sender[Tail(q)[i].of].finished_first_chunks
      BY <2>2 DEF PromptReports
    <3> QED
      BY <2>1, <3>1, <3>2 DEF PromptReports
  <2>4. (\A i \in 1..Len(q) : q[i].of < cur) => \A i \in 1..Len(Tail(q)) : Tail(q)[i].of < cur
    BY <2>2
  <2> QED
    BY <2>1, <2>3, <2>4 DEF Promptness, Serving, Punctual
<1>11. CASE \E s \in Streams : SendMediaChunk(s)
  <2>1. UNCHANGED <<pc, cur, sender, report, clock, prompt, why, timed>>
    BY <1>11 DEF SendMediaChunk, threadVars
  <2> QED
    BY <1>1, <2>1 DEF Serving
<1> QED
  BY <1>2, <1>3, <1>4, <1>5, <1>6, <1>7, <1>8, <1>9, <1>10, <1>11, StepCases DEF Bookkeeping

-----------------------------------------------------------------------------
(* One report per field, when reports do not fail                          *)

ReportsDoNotFail == "report" \notin Faults /\ "signal" \notin Faults

Announced ==
    /\ ~signal
    /\ pc = "start" => report.queue = <<>>
    /\ pc \in {"start", "initial"} =>
           \A s \in Streams : sender[s].finished_first_chunks = 0
    /\ pc = "start" => \A s \in Streams : sender[s].committed_reports = 0
    /\ pc = "initial" =>
           /\ Len(report.queue) <= cur
           /\ \A s \in Streams : sender[s].committed_reports = IF s < cur THEN 1 ELSE 0
    /\ OneReportPerField

\* At the start nothing is announced.
LEMMA AnnouncedInit == ASSUME Init PROVE Announced
BY DEF Init, Announced, OneReportPerField

\* A step of the loop, or out of it, that neither commits a report nor counts a
\* first chunk.
LEMMA AnnouncedKept ==
    ASSUME Announced, signal' = signal, pc \in {"check", "track", "commit", "sleep"},
           pc' \in {"check", "track", "commit", "sleep", "stop"},
           \A s \in Streams :
               /\ sender'[s].committed_reports = sender[s].committed_reports
               /\ sender'[s].finished_first_chunks = sender[s].finished_first_chunks
    PROVE  Announced'
BY DEF Announced, OneReportPerField

\* Every step keeps one report ahead of the first chunks.
LEMMA AnnouncedStep ==
    ASSUME ReportsDoNotFail, Types, Life, Announced, [Next]_vars
    PROVE  Announced'
<1>0. /\ TypeOK /\ sender \in [Streams -> Counters] /\ cur \in Int
      /\ report.queue \in Seq(ReportsSent) /\ report.done \in Seq(Streams)
      /\ NumStreams \in Nat \ {0} /\ \A s \in Streams : sender[s] \in Counters
  BY StreamTypes DEF Types, TypeOK
<1>01. ~signal /\ ~MayFail("report")
  BY DEF Announced, MayFail, ReportsDoNotFail
<1>1. CASE NoReportCompletion \/ ReportPollFails \/ NoMediaCompletion \/ MediaPollFails
           \/ SkipCommit \/ CommitFails \/ Wake \/ LoopEndsBySignal
  <2>1. /\ pc \in {"check", "track", "commit", "sleep"} /\ sender' = sender /\ signal' = signal
        /\ pc' \in {"check", "track", "commit", "sleep", "stop"}
    BY <1>1 DEF NoReportCompletion, ReportPollFails, NoMediaCompletion, MediaPollFails, SkipCommit,
       CommitFails, Wake, LoopEndsBySignal, ServeStreams, Abort, ContinueWith, EndOfStream
  <2> QED
    BY <2>1, AnnouncedKept
<1>2. CASE CreateStream
  <2>1. /\ pc = "start" /\ UNCHANGED <<sender, report, signal>>
        /\ \/ pc' = "initial" /\ cur' = 0
           \/ pc' = "start"
    BY <1>2 DEF CreateStream
  <2>2. report.queue = <<>> /\ Len(<<>>) = 0
    BY <2>1 DEF Announced
  <2> QED
    BY <2>1, <2>2, StreamOrder DEF Announced, OneReportPerField
<1>3. CASE CreateFails \/ DestroyRtcp \/ StopMediaStream \/ StopFails
  <2>1. pc' \in {"failed", "stop", "done"} /\ signal' = signal
    BY <1>3 DEF CreateFails, DestroyRtcp, StopMediaStream, StopFails
  <2> QED
    BY <2>1 DEF Announced, OneReportPerField
<1>4. CASE Tick \/ vars' = vars \/ \E s \in Streams : SendMediaChunk(s)
  <2>1. UNCHANGED <<pc, cur, sender, report, signal>>
    BY <1>4 DEF Tick, vars, threadVars, SendMediaChunk
  <2> QED
    BY <2>1 DEF Announced, OneReportPerField
<1>5. CASE Signal
  BY <1>5 DEF Signal, ReportsDoNotFail
<1>6. CASE SendReport
  <2>1. /\ UNCHANGED <<pc, cur, sender, signal>> /\ report.queue # <<>>
        /\ report'.queue = Tail(report.queue)
    BY <1>6, SendReportEffect DEF AdapterFrame, threadVars
  <2>2. Len(Tail(report.queue)) = Len(report.queue) - 1 /\ Len(report.queue) \in Nat
    BY <1>0, <2>1
  <2>3. Len(report.queue) <= cur => Len(report'.queue) <= cur
    BY <1>0, <2>1, <2>2
  <2> QED
    BY <2>1, <2>3 DEF Announced, OneReportPerField
<1>7. CASE SendInitialReport
  <2>1. pc = "initial" /\ cur \in Streams /\ signal' = signal
    BY <1>7, InitialReportEffect
  <2>2. PICK r \in Results :
           /\ CommitSenderReport(cur, sender[cur], r)
           /\ IF r = "success" /\ cur < NumStreams - 1
              THEN pc' = pc /\ cur' = cur + 1
              ELSE pc' = "check" /\ cur' = 0
    BY <1>7, InitialReportEffect
  <2>3. PICK e \in Counters :
           /\ sender' = [sender EXCEPT ![cur] = e]
           /\ e.finished_first_chunks = sender[cur].finished_first_chunks
           /\ \/ /\ r = "success"
                 /\ e.committed_reports = sender[cur].committed_reports + 1
                 /\ \/ report' = report
                    \/ ReportAdded(cur)
              \/ /\ r # "success"
                 /\ r = "no_free_report" => ~(Len(report.queue) < NumStreams)
                 /\ r = "fault" => MayFail("report")
    BY <1>0, <2>1, <2>2, SenderReportEffect
  <2>4. /\ Len(report.queue) <= cur /\ Len(report.queue) \in Nat
        /\ \A s \in Streams : /\ sender[s].committed_reports = IF s < cur THEN 1 ELSE 0
                              /\ sender[s].finished_first_chunks = 0
    <3>1. Len(report.queue) \in Nat
      BY <1>0
    <3>2. /\ Len(report.queue) <= cur
          /\ \A s \in Streams : sender[s].committed_reports = IF s < cur THEN 1 ELSE 0
      BY <2>1 DEF Announced
    <3>3. \A s \in Streams : sender[s].finished_first_chunks = 0
      BY <2>1 DEF Announced
    <3> QED
      BY <3>1, <3>2, <3>3
  <2>5. r = "success"
    <3>1. Len(report.queue) < NumStreams
      BY <1>0, <2>1, <2>4, StreamOrder
    <3> QED
      BY <1>01, <2>3, <3>1 DEF Results
  <2>6. \A s \in Streams : /\ sender'[s].finished_first_chunks = 0
                           /\ sender'[s].committed_reports = IF s < cur + 1 THEN 1 ELSE 0
    <3> TAKE s \in Streams
    <3>1. CASE s = cur
      BY <1>0, <2>1, <2>3, <2>4, <2>5, <3>1, StreamOrder
    <3>2. CASE s # cur
      BY <1>0, <2>1, <2>3, <2>4, <3>2, StreamOrder
    <3> QED
      BY <3>1, <3>2
  <2>7. Len(report'.queue) <= cur + 1
    <3>1. CASE report' = report
      BY <1>0, <2>4, <3>1
    <3>2. CASE ReportAdded(cur)
      <4>1. PICK x \in ReportsSent : report'.queue = Append(report.queue, x)
        BY <2>1, <3>2, TypesAre, ReportAppended
      <4>2. Len(Append(report.queue, x)) = Len(report.queue) + 1
        BY <1>0, <4>1
      <4> QED
        BY <1>0, <2>4, <4>1, <4>2
    <3> QED
      BY <2>3, <2>5, <3>1, <3>2
  <2>8. CASE cur < NumStreams - 1
    BY <1>01, <2>1, <2>2, <2>5, <2>6, <2>7, <2>8 DEF Announced, OneReportPerField
  <2>9. CASE ~(cur < NumStreams - 1)
    <3>1. \A s \in Streams : s < cur + 1
      BY <2>9, StreamOrder, <2>1
    <3> QED
      BY <1>01, <2>1, <2>2, <2>6, <2>9, <3>1 DEF Announced, OneReportPerField
  <2> QED
    BY <2>8, <2>9
<1>8. CASE ReportCompletion
  <2>1. /\ pc = "check" /\ pc' \in {"stop", "track"} /\ signal' = signal
        /\ \/ sender' = sender
           \/ \E e \in Counters :
                 /\ sender' = [sender EXCEPT ![Head(report.done)] = e]
                 /\ e.committed_reports = sender[Head(report.done)].committed_reports
                 /\ e.finished_first_chunks = sender[Head(report.done)].finished_first_chunks
    BY <1>8, ReportCompletionEffect DEF Abort, ServeStreams
  <2>2. \A s \in Streams :
           /\ sender'[s].committed_reports = sender[s].committed_reports
           /\ sender'[s].finished_first_chunks = sender[s].finished_first_chunks
    BY <1>0, <2>1
  <2> QED
    BY <2>1, <2>2, AnnouncedKept
<1>9. CASE ProcessMediaCompletion
  <2> DEFINE d == media[cur].done
             c == Finished(sender[cur], Head(d))
  <2>1. /\ pc = "track" /\ cur \in Streams /\ c \in Counters /\ signal' = signal
        /\ \/ /\ Head(d) = LastChunkToken
              /\ sender' = [sender EXCEPT ![cur] = c]
              /\ ContinueWith("commit")
           \/ Abort("out_of_order")
           \/ /\ Head(d) # LastChunkToken
              /\ \E r \in Results :
                    /\ CommitSenderReport(cur, c, r)
                    /\ IF r = "success" THEN ContinueWith("commit") ELSE Abort(r)
    BY <1>9, CompletionEffect
  <2>2. /\ c.committed_reports = sender[cur].committed_reports
        /\ c.finished_first_chunks = IF Head(d) = LastChunkToken
                                     THEN sender[cur].finished_first_chunks
                                     ELSE sender[cur].finished_first_chunks + 1
    BY <1>0, <2>1, FinishedFields
  <2> HIDE DEF c
  <2>3. CASE \E r : Abort(r)
    <3>1. pc' = "stop"
      BY <2>3 DEF Abort
    <3> QED
      BY <2>1, <3>1 DEF Announced, OneReportPerField
  <2>4. CASE /\ Head(d) = LastChunkToken
             /\ sender' = [sender EXCEPT ![cur] = c]
             /\ ContinueWith("commit")
    <3>1. \A s \in Streams :
             /\ sender'[s].committed_reports = sender[s].committed_reports
             /\ sender'[s].finished_first_chunks = sender[s].finished_first_chunks
      BY <1>0, <2>1, <2>2, <2>4
    <3>2. pc' = "commit"
      BY <2>4 DEF ContinueWith
    <3> QED
      BY <2>1, <3>1, <3>2, AnnouncedKept
  <2>5. CASE /\ Head(d) # LastChunkToken
             /\ CommitSenderReport(cur, c, "success")
             /\ ContinueWith("commit")
    <3>1. PICK e \in Counters :
             /\ sender' = [sender EXCEPT ![cur] = e]
             /\ e.finished_first_chunks = c.finished_first_chunks
             /\ e.committed_reports = c.committed_reports + 1
      BY <1>0, <2>1, <2>5, SenderReportEffect
    <3>2. \A s \in Streams :
             sender[s].committed_reports = sender[s].finished_first_chunks + 1
      BY <2>1 DEF Announced, OneReportPerField
    <3>3. \A s \in Streams :
             sender'[s].committed_reports = sender'[s].finished_first_chunks + 1
      BY <1>0, <2>1, <2>2, <2>5, <3>1, <3>2
    <3>4. pc' = "commit"
      BY <2>5 DEF ContinueWith
    <3> QED
      BY <2>1, <3>3, <3>4 DEF Announced, OneReportPerField
  <2> QED
    BY <2>1, <2>3, <2>4, <2>5
<1>10. CASE CommitMediaChunk
  <2> DEFINE c == Committed(sender[cur])
  <2>1. /\ pc = "commit" /\ cur \in Streams /\ c \in Counters /\ EndOfStream(c)
        /\ sender' = [sender EXCEPT ![cur] = c] /\ signal' = signal
    BY <1>10, CommitEffect
  <2>2. /\ c.finished_first_chunks = sender[cur].finished_first_chunks
        /\ c.committed_reports = sender[cur].committed_reports
    BY <1>0, <2>1, CommittedFields
  <2> HIDE DEF c
  <2>3. \A s \in Streams :
           /\ sender'[s].committed_reports = sender[s].committed_reports
           /\ sender'[s].finished_first_chunks = sender[s].finished_first_chunks
    BY <1>0, <2>1, <2>2
  <2>4. pc' \in {"track", "check", "sleep"}
    BY <2>1, EndOfStreamEffect
  <2> QED
    BY <2>1, <2>3, <2>4, AnnouncedKept
<1>11. CASE CommitQueueFull
  <2>1. PICK e \in Counters :
           /\ pc = "commit" /\ cur \in Streams /\ EndOfStream(e)
           /\ sender' = [sender EXCEPT ![cur] = e] /\ signal' = signal
           /\ e.finished_first_chunks = sender[cur].finished_first_chunks
           /\ e.committed_reports = sender[cur].committed_reports
    BY <1>11, KeepEffect
  <2>3. \A s \in Streams :
           /\ sender'[s].committed_reports = sender[s].committed_reports
           /\ sender'[s].finished_first_chunks = sender[s].finished_first_chunks
    BY <1>0, <2>1
  <2>4. pc' \in {"track", "check", "sleep"}
    BY <2>1, EndOfStreamEffect
  <2> QED
    BY <2>1, <2>3, <2>4, AnnouncedKept
<1> QED
  BY <1>1, <1>2, <1>3, <1>4, <1>5, <1>6, <1>7, <1>8, <1>9, <1>10, <1>11, StepCases DEF Bookkeeping

-----------------------------------------------------------------------------
(* The theorems                                                            *)

\* The inductive invariant: types, chunks aligned with counters, the reports
\* waited for, the life of the streams, the wakeup time and the prompt runs.
IInv ==
    /\ Types /\ Alignment /\ Pending /\ NeverSelfInflicted
    /\ Life /\ NothingYet /\ DonePast /\ WakeupInTime /\ Promptness

\* The invariant holds at the start and every step keeps it.
LEMMA Inductive == Spec => []IInv
<1>1. Init => IInv
  <2> SUFFICES ASSUME Init PROVE IInv
    OBVIOUS
  <2>1. Alignment
    BY AlignedStart DEF Alignment
  <2>2. NeverSelfInflicted /\ WakeupInTime
    BY DEF Init, NeverSelfInflicted, WakeupInTime
  <2>3. DonePast
    BY DEF Init, DonePast
  <2>4. NothingYet
    BY DEF Init, NothingYet
  <2> QED
    BY <2>1, <2>2, <2>3, <2>4, TypesInit, PendingInit, LifeInit, PromptInit DEF IInv
<1>2. IInv /\ [Next]_vars => IInv'
  <2> SUFFICES ASSUME IInv, [Next]_vars PROVE IInv'
    OBVIOUS
  <2>1. Types /\ Types'
    BY TypesStep DEF IInv
  <2> QED
    BY <2>1, AlignmentStep, PendingStep, NeverSelfInflictedStep, LifeStep, NothingYetStep,
       DonePastStep, WakeupInTimeStep, PromptStep DEF IInv
<1> QED
  BY <1>1, <1>2, PTL DEF Spec

\* Every variable keeps its declared type; m_pending_message_count, which is
\* unsigned in the code, never goes below zero.
THEOREM SenderTypes == Spec => []TypeOK
<1>1. IInv => TypeOK
  BY DEF IInv, Types
<1> QED
  BY <1>1, Inductive, PTL

\* However many streams, chunks and fields there are, at any pace of thread and
\* adapter and whatever fails, a media chunk is there when has_free_frame_buffer
\* says so, a first chunk's completion has the token process_media_completion
\* expects, and no report completion is unsolicited.  The one error of its own
\* that is left to the node is the want of a report chunk, and it takes a thread
\* or adapter that fell behind the clock or a stream without a start time.
THEOREM NodeNeverStopsItself == Spec => [](NeverSelfInflicted /\ ReportChunksSuffice)
<1>1. IInv => NeverSelfInflicted /\ ReportChunksSuffice
  BY DEF IInv, Promptness, Punctual, ReportChunksSuffice
<1> QED
  BY <1>1, Inductive, PTL

\* The counters of a stream account for the chunks the adapter holds, and at most
\* the memory block's fields are begun and not finished.
THEOREM FieldsAccountedFor == Spec => []FieldsInFlight
<1>1. IInv => FieldsInFlight
  BY FieldsInFlightIs DEF IInv
<1> QED
  BY <1>1, Inductive, PTL

\* The early return of check_completion never hides a completion, although
\* refused and untracked reports are counted too.
THEOREM PendingCountIsRight == Spec => []PendingCoversReports
<1>1. IInv => PendingCoversReports
  BY PendingIs DEF IInv
<1> QED
  BY <1>1, Inductive, PTL

\* can_sleep lets the thread sleep only when no stream has a first chunk's
\* completion to process before the wakeup time.
THEOREM SleepIsHarmless == Spec => []SleepDelaysNoReport
<1>1. IInv => SleepDelaysNoReport
  BY SleepIs DEF IInv
<1> QED
  BY <1>1, Inductive, PTL

\* One report chunk per stream is enough as long as adapter and thread keep
\* pace with the clock and every stream has its start time.
THEOREM ReportChunksAreEnough == Spec => []ReportChunksSuffice
<1>1. IInv => ReportChunksSuffice
  BY DEF IInv, Promptness, Punctual, ReportChunksSuffice
<1> QED
  BY <1>1, Inductive, PTL

\* stop_rivermax_streams leaves exactly the stream that did not stop and the
\* following ones, and what is gone has nothing left to send.
THEOREM StopLeavesTheRest == Spec => []StopEndsAtFailure
<1>1. IInv => StopEndsAtFailure
  BY LifeIs DEF IInv
<1> QED
  BY <1>1, Inductive, PTL

\* One report before the first field and one per field begun, whichever
\* completions are polled in which order, unless a report fails.
THEOREM EachFieldAnnounced ==
    ASSUME ReportsDoNotFail
    PROVE  Spec => []OneReportPerField
<1>1. Init => Announced
  BY AnnouncedInit
<1>2. IInv /\ Announced /\ [Next]_vars => Announced'
  BY AnnouncedStep DEF IInv
<1>3. Announced => OneReportPerField
  BY DEF Announced
<1> QED
  BY <1>1, <1>2, <1>3, Inductive, PTL DEF Spec
=============================================================================
