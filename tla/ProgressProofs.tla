--------------------------- MODULE ProgressProofs ---------------------------
(***************************************************************************)
(* The permits of the recall admission are conserved, and with sizes that  *)
(* fit Permits times into the budget a permit means bytes.  The usage      *)
(* counts are conserved on their way to the table.                         *)
(***************************************************************************)
EXTENDS RecallAdmission, UsageCounter, FiniteSetTheorems, SequenceTheorems, WellFoundedInduction, TLAPS

\* Removing the i-th of a sequence without repetitions leaves its other
\* elements, once each.
LEMMA RemoveAtFacts ==
    ASSUME NEW S, NEW s \in Seq(S), IsInjective(s), NEW i \in DOMAIN s
    PROVE  /\ RemoveAt(s, i) \in Seq(S)
           /\ IsInjective(RemoveAt(s, i))
           /\ {RemoveAt(s, i)[j] : j \in DOMAIN RemoveAt(s, i)} = {s[j] : j \in DOMAIN s} \ {s[i]}
  <1> DEFINE a == SubSeq(s, 1, i - 1)
             b == SubSeq(s, i + 1, Len(s))
             r == RemoveAt(s, i)
  <1>1. /\ i \in 1 .. Len(s) /\ Len(s) \in Nat /\ DOMAIN s = 1 .. Len(s)
        /\ \A j \in 1 .. Len(s) : s[j] \in S
    OBVIOUS
  <1>2. r = a \o b
    BY DEF RemoveAt
  <1>3. /\ a \in Seq(S) /\ Len(a) = i - 1
        /\ \A j \in 1 .. i - 1 : a[j] = s[j]
    BY <1>1, SubSeqProperties, SubSeqEmpty
  <1>a. /\ b \in Seq(S) /\ Len(b) = Len(s) - i
        /\ \A j \in 1 .. Len(s) - i : b[j] = s[j + i]
    <2>1. /\ SubSeq(s, i + 1, Len(s)) \in Seq(S)
          /\ Len(SubSeq(s, i + 1, Len(s))) = IF i + 1 <= Len(s) THEN Len(s) - (i + 1) + 1 ELSE 0
          /\ \A j \in 1 .. Len(s) - (i + 1) + 1 : SubSeq(s, i + 1, Len(s))[j] = s[(i + 1) + j - 1]
      <3> DEFINE m == i + 1
                 n == Len(s)
      <3>1. m \in Int /\ n \in Int /\ \A j \in m .. n : s[j] \in S
        BY <1>1
      <3> HIDE DEF m, n
      <3>2. /\ SubSeq(s, m, n) \in Seq(S)
            /\ Len(SubSeq(s, m, n)) = IF m <= n THEN n - m + 1 ELSE 0
            /\ \A j \in 1 .. n - m + 1 : SubSeq(s, m, n)[j] = s[m + j - 1]
        BY <3>1, SubSeqProperties
      <3> QED
        BY <3>2 DEF m, n
    <2>2. (i + 1 <= Len(s) => Len(s) - (i + 1) + 1 = Len(s) - i) /\ (~(i + 1 <= Len(s)) => Len(s) - i = 0)
      BY <1>1
    <2>3. Len(b) = Len(s) - i
      BY <2>1, <2>2
    <2>4. ASSUME NEW j \in 1 .. Len(s) - i PROVE b[j] = s[j + i]
      <3>1. j \in 1 .. Len(s) - (i + 1) + 1 /\ (i + 1) + j - 1 = j + i
        BY <1>1
      <3> QED
        BY <2>1, <3>1
    <2> QED
      BY <2>1, <2>3, <2>4
  <1> HIDE DEF a, b
  <1>4. /\ r \in Seq(S) /\ Len(r) = Len(s) - 1
        /\ \A j \in 1 .. Len(s) - 1 : r[j] = IF j <= i - 1 THEN a[j] ELSE b[j - (i - 1)]
    <2>1. /\ a \o b \in Seq(S) /\ Len(a \o b) = Len(a) + Len(b)
          /\ \A j \in 1 .. Len(a) + Len(b) : (a \o b)[j] = IF j <= Len(a) THEN a[j] ELSE b[j - Len(a)]
      BY <1>3, <1>a, ConcatProperties, Zenon
    <2>2. Len(a) + Len(b) = Len(s) - 1
      BY <1>1, <1>3, <1>a
    <2> QED
      BY <1>2, <1>3, <2>1, <2>2
  <1> HIDE DEF r
  <1>5. \A j \in 1 .. Len(s) - 1 : r[j] = s[IF j < i THEN j ELSE j + 1]
    <2> SUFFICES ASSUME NEW j \in 1 .. Len(s) - 1
                 PROVE  r[j] = s[IF j < i THEN j ELSE j + 1]
      OBVIOUS
    <2>1. CASE j < i
      BY <1>1, <1>3, <1>4, <2>1
    <2>2. CASE ~(j < i)
      <3>1. j - (i - 1) \in 1 .. Len(s) - i /\ r[j] = b[j - (i - 1)]
        BY <1>1, <1>4, <2>2
      <3>2. b[j - (i - 1)] = s[j - (i - 1) + i] /\ j - (i - 1) + i = j + 1
        BY <1>1, <1>a, <3>1
      <3> QED
        BY <2>2, <3>1, <3>2
    <2> QED
      BY <2>1, <2>2
  <1>6. DOMAIN r = 1 .. Len(s) - 1
    BY <1>1, <1>4
  <1> DEFINE up(j) == IF j < i THEN j ELSE j + 1
  <1>b. \A j \in DOMAIN r : up(j) \in DOMAIN s /\ up(j) # i /\ r[j] = s[up(j)]
    BY <1>1, <1>5, <1>6
  <1>c. \A j, k \in DOMAIN r : up(j) = up(k) => j = k
    BY <1>1, <1>6
  <1> HIDE DEF up
  <1>7. IsInjective(r)
    BY <1>b, <1>c DEF IsInjective
  <1>8. \A j \in 1 .. Len(s) : j # i => \E k \in DOMAIN r : r[k] = s[j]
    <2> SUFFICES ASSUME NEW j \in 1 .. Len(s), j # i
                 PROVE  \E k \in DOMAIN r : r[k] = s[j]
      OBVIOUS
    <2>1. CASE j < i
      BY <1>1, <1>5, <1>6, <2>1
    <2>2. CASE j > i
      <3>1. j - 1 \in DOMAIN r /\ r[j - 1] = s[j]
        BY <1>1, <1>5, <1>6, <2>2
      <3> QED
        BY <3>1
    <2> QED
      BY <1>1, <2>1, <2>2
  <1>9. \A k \in DOMAIN r : r[k] \in {s[j] : j \in DOMAIN s} /\ r[k] # s[i]
    BY <1>b DEF IsInjective
  <1>10. {r[j] : j \in DOMAIN r} = {s[j] : j \in DOMAIN s} \ {s[i]}
    BY <1>1, <1>8, <1>9
  <1> QED
    BY <1>4, <1>7, <1>10 DEF r

\* Callers are finitely many, and so are those at some labels.
LEMMA InIsFinite ==
    ASSUME NEW L PROVE IsFiniteSet(In(L)) /\ Cardinality(In(L)) \in Nat
  <1>1. In(L) \in SUBSET Callers
    BY DEF In
  <1> QED
    BY <1>1, FS_Subset, FS_CardinalityType, AdmissionAssumption

-----------------------------------------------------------------------------
LEMMA InitInv == Init => AdmissionInv
  <1> SUFFICES ASSUME Init PROVE AdmissionInv
    OBVIOUS
  <1>1. TypeOK
    BY AdmissionAssumption DEF Init, TypeOK, PCs
  <1>2. QueueIsWaiting
    BY DEF Init, QueueIsWaiting, In, IsInjective
  <1>3. In(WithPermit) = {}
    BY DEF Init, In, WithPermit
  <1>4. PermitsConserved
    BY <1>3, FS_EmptySet, AdmissionAssumption DEF Init, PermitsConserved
  <1> QED
    BY <1>1, <1>2, <1>4 DEF AdmissionInv

\* A step that moves c between labels with a permit keeps all three.
LEMMA MoveKeeps ==
    ASSUME AdmissionInv, NEW c \in Callers, NEW l \in WithPermit,
           pc[c] \in WithPermit, Goto(c, l), UNCHANGED <<available, queue>>
    PROVE  QueueIsWaiting' /\ PermitsConserved'
  <1>1. In(WithPermit)' = In(WithPermit) /\ In({"waiting"})' = In({"waiting"})
    BY DEF AdmissionInv, TypeOK, Goto, In, WithPermit
  <1> QED
    BY <1>1 DEF AdmissionInv, QueueIsWaiting, PermitsConserved

\* So does one that gives a permit back.
LEMMA PermitBackKeeps ==
    ASSUME AdmissionInv, NEW c \in Callers, pc[c] \in WithPermit, PermitBack(c)
    PROVE  /\ QueueIsWaiting' /\ PermitsConserved'
           /\ available' \in 0 .. Permits /\ queue' \in Seq(Callers)
           /\ pc' \in [Callers -> PCs]
           /\ \A d \in Callers : pc'[d] # pc[d] => pc'[d] \in {"idle", "granted"}
  <1> USE DEF AdmissionInv
  <1>1. IsFiniteSet(In(WithPermit)) /\ Cardinality(In(WithPermit)) \in Nat
    BY InIsFinite
  <1>2. c \in In(WithPermit)
    BY DEF In
  <1>3. /\ IsFiniteSet(In(WithPermit) \ {c})
        /\ Cardinality(In(WithPermit) \ {c}) = Cardinality(In(WithPermit)) - 1
    BY <1>1, <1>2, FS_RemoveElement
  <1>4. CASE queue = <<>>
    <2>1. /\ available' = available + 1 /\ queue' = queue
          /\ pc' = [pc EXCEPT ![c] = "idle"]
      BY <1>4 DEF PermitBack, Goto
    <2>2. In(WithPermit)' = In(WithPermit) \ {c} /\ In({"waiting"})' = In({"waiting"})
      BY <2>1 DEF TypeOK, In, WithPermit
    <2>3. PermitsConserved'
      BY <1>1, <1>3, <2>1, <2>2, AdmissionAssumption DEF PermitsConserved, TypeOK
    <2>4. QueueIsWaiting'
      BY <1>4, <2>1, <2>2 DEF QueueIsWaiting
    <2>5. Cardinality(In(WithPermit))' \in Nat
      BY <1>3, <2>2, FS_CardinalityType
    <2> QED
      BY <1>4, <2>1, <2>3, <2>4, <2>5, AdmissionAssumption DEF TypeOK, PCs, PermitsConserved
  <1>5. CASE queue # <<>>
    <2> DEFINE h == Head(queue)
    <2>1. /\ queue \in Seq(Callers) /\ Len(queue) >= 1 /\ h = queue[1]
          /\ queue' = Tail(queue) /\ available' = available
          /\ pc' = [pc EXCEPT ![c] = "idle", ![h] = "granted"]
      BY <1>5 DEF PermitBack, TypeOK
    <2>2. h \in In({"waiting"})
      BY <2>1 DEF QueueIsWaiting
    <2>3. h \in Callers /\ pc[h] = "waiting" /\ h # c
      BY <2>2 DEF In, WithPermit
    <2> HIDE DEF h
    <2>4. In(WithPermit)' = (In(WithPermit) \ {c}) \cup {h} /\ h \notin In(WithPermit)
      BY <2>1, <2>3 DEF TypeOK, In, WithPermit
    <2>5. Cardinality(In(WithPermit))' = Cardinality(In(WithPermit))
      <3> DEFINE rest == In(WithPermit) \ {c}
      <3>1. IsFiniteSet(rest) /\ h \notin rest
        BY <1>3, <2>4
      <3>2. Cardinality(rest \cup {h}) = Cardinality(rest) + 1
        BY <3>1, FS_AddElement
      <3> QED
        BY <1>1, <1>3, <2>4, <3>2
    <2>6. In({"waiting"})' = In({"waiting"}) \ {h}
      BY <1>2, <2>1, <2>3 DEF TypeOK, In, WithPermit
    <2>7. /\ queue' \in Seq(Callers) /\ DOMAIN queue' = 1 .. Len(queue) - 1
          /\ \A j \in 1 .. Len(queue) - 1 : queue'[j] = queue[j + 1]
      BY <2>1
    <2>8. IsInjective(queue')
      BY <2>1, <2>7 DEF QueueIsWaiting, IsInjective
    <2>9. {queue'[j] : j \in DOMAIN queue'} = {queue[j] : j \in DOMAIN queue} \ {h}
      <3>1. DOMAIN queue = 1 .. Len(queue) /\ Len(queue) \in Nat
        BY <2>1
      <3>2. \A j \in DOMAIN queue' : j + 1 \in DOMAIN queue /\ queue'[j] = queue[j + 1] /\ queue[j + 1] # h
        BY <2>1, <2>7, <3>1 DEF QueueIsWaiting, IsInjective
      <3>3. \A k \in DOMAIN queue : queue[k] # h => k - 1 \in DOMAIN queue' /\ queue'[k - 1] = queue[k]
        <4> SUFFICES ASSUME NEW k \in 1 .. Len(queue), queue[k] # h
                     PROVE  k - 1 \in DOMAIN queue' /\ queue'[k - 1] = queue[k]
          BY <3>1
        <4>1. k # 1
          BY <2>1
        <4>2. k - 1 \in 1 .. Len(queue) - 1 /\ (k - 1) + 1 = k
          BY <3>1, <4>1
        <4> QED
          BY <2>7, <4>2
      <3> QED
        BY <3>2, <3>3
    <2>10. QueueIsWaiting'
      BY <1>5, <2>1, <2>6, <2>8, <2>9 DEF QueueIsWaiting
    <2>11. PermitsConserved'
      BY <2>1, <2>5 DEF PermitsConserved
    <2> QED
      BY <2>1, <2>3, <2>7, <2>10, <2>11 DEF TypeOK, PCs
  <1> QED
    BY <1>4, <1>5

LEMMA BytesAreNat == TypeOK => \A c \in Callers : bytes[c] \in Nat
  <1>1. Sizes \cup {0} \subseteq Nat
    BY AdmissionAssumption
  <1>2. TypeOK => \A c \in Callers : bytes[c] \in Sizes \cup {0}
    BY DEF TypeOK
  <1> QED
    BY <1>1, <1>2

LEMMA NextInv == AdmissionInv /\ [Next]_vars => AdmissionInv'
  <1> SUFFICES ASSUME AdmissionInv, [Next]_vars PROVE AdmissionInv'
    OBVIOUS
  <1>1. TypeOK /\ QueueIsWaiting /\ PermitsConserved
    BY DEF AdmissionInv
  <1>2. ASSUME NEW c \in Callers, NEW b \in Sizes, TryAcquire(c, b) PROVE AdmissionInv'
    <2>1. TypeOK'
      BY <1>1, <1>2, AdmissionAssumption DEF TryAcquire, Goto, TypeOK, PCs
    <2>2. /\ In(WithPermit)' = In(WithPermit) \cup {c} /\ c \notin In(WithPermit)
          /\ In({"waiting"})' = In({"waiting"})
      BY <1>1, <1>2 DEF TryAcquire, Goto, TypeOK, In, WithPermit
    <2>3. Cardinality(In(WithPermit) \cup {c}) = Cardinality(In(WithPermit)) + 1
      BY <2>2, InIsFinite, FS_AddElement
    <2>4. available' + Cardinality(In(WithPermit))' = Permits
      BY <1>1, <1>2, <2>2, <2>3, InIsFinite, AdmissionAssumption DEF TryAcquire, TypeOK, PermitsConserved
    <2>5. QueueIsWaiting'
      BY <1>1, <1>2, <2>2 DEF TryAcquire, TypeOK, QueueIsWaiting
    <2> QED
      BY <2>1, <2>4, <2>5 DEF AdmissionInv, PermitsConserved
  <1>3. ASSUME NEW c \in Callers, NEW b \in Sizes, Acquire(c, b) PROVE AdmissionInv'
    <2>1. TypeOK'
      BY <1>1, <1>3, AdmissionAssumption DEF Acquire, Goto, TypeOK, PCs
    <2>2. /\ In(WithPermit)' = In(WithPermit)
          /\ In({"waiting"})' = In({"waiting"}) \cup {c} /\ c \notin In({"waiting"})
      BY <1>1, <1>3 DEF Acquire, Goto, TypeOK, In, WithPermit
    <2>3. /\ queue \in Seq(Callers) /\ queue' = Append(queue, c)
          /\ \A i \in DOMAIN queue : queue[i] # c
      BY <1>1, <1>3, <2>2 DEF Acquire, TypeOK, QueueIsWaiting
    <2>4. /\ DOMAIN queue = 1 .. Len(queue) /\ Len(queue) \in Nat
          /\ DOMAIN queue' = 1 .. Len(queue) + 1
          /\ \A i \in 1 .. Len(queue) : queue'[i] = queue[i]
          /\ queue'[Len(queue) + 1] = c
      BY <2>3
    <2>5. IsInjective(queue')
      BY <1>1, <2>3, <2>4 DEF QueueIsWaiting, IsInjective
    <2>6. {queue'[i] : i \in DOMAIN queue'} = {queue[i] : i \in DOMAIN queue} \cup {c}
      BY <2>4
    <2>7. QueueIsWaiting'
      BY <1>1, <1>3, <2>2, <2>5, <2>6 DEF Acquire, QueueIsWaiting
    <2> QED
      BY <1>1, <1>3, <2>1, <2>2, <2>7 DEF Acquire, AdmissionInv, PermitsConserved
  <1>4. ASSUME NEW c \in Callers, Wake(c) PROVE AdmissionInv'
    <2>1. TypeOK'
      BY <1>1, <1>4 DEF Wake, Goto, TypeOK, PCs
    <2> QED
      BY <1>4, <2>1, MoveKeeps DEF Wake, AdmissionInv, WithPermit
  <1>5. ASSUME NEW c \in Callers, Reserve(c) PROVE AdmissionInv'
    <2>1. TypeOK'
      <3>1. bytes[c] \in Nat /\ reserved \in Int /\ MaxBytes \in Nat
        BY <1>1, BytesAreNat, AdmissionAssumption DEF TypeOK
      <3>2. reserved' \in Int /\ reserved' <= MaxBytes
        BY <1>1, <1>5, <3>1 DEF Reserve, Fits, TypeOK
      <3> QED
        BY <1>1, <1>5, <3>2 DEF Reserve, Goto, TypeOK, PCs
    <2>2. \E l \in WithPermit : Goto(c, l)
      BY <1>5 DEF Reserve, WithPermit
    <2> QED
      BY <1>5, <2>1, <2>2, MoveKeeps DEF Reserve, AdmissionInv, WithPermit
  <1>6. ASSUME NEW c \in Callers, PermitBack(c), pc[c] \in WithPermit, UNCHANGED <<reserved, bytes>>
        PROVE  AdmissionInv'
    <2>1. /\ QueueIsWaiting' /\ PermitsConserved'
          /\ available' \in 0 .. Permits /\ queue' \in Seq(Callers)
          /\ pc' \in [Callers -> PCs]
      BY <1>6, PermitBackKeeps
    <2> QED
      BY <1>1, <1>6, <2>1 DEF AdmissionInv, TypeOK
  <1>7. ASSUME NEW c \in Callers, DropReservation(c) PROVE AdmissionInv'
    <2>1. CASE pc[c] = "held"
      <3>1. /\ Goto(c, "releasing") /\ reserved' = reserved - bytes[c]
            /\ UNCHANGED <<available, queue, bytes>>
        BY <1>7, <2>1 DEF DropReservation
      <3>2. TypeOK'
        <4>1. bytes[c] \in Nat /\ reserved \in Int /\ MaxBytes \in Nat /\ reserved <= MaxBytes
          BY <1>1, BytesAreNat, AdmissionAssumption DEF TypeOK
        <4>2. reserved' \in Int /\ reserved' <= MaxBytes
          BY <3>1, <4>1
        <4> QED
          BY <1>1, <3>1, <4>2 DEF Goto, TypeOK, PCs
      <3> QED
        BY <2>1, <3>1, <3>2, MoveKeeps DEF AdmissionInv, WithPermit
    <2>2. CASE pc[c] = "releasing"
      BY <1>6, <1>7, <2>2 DEF DropReservation, WithPermit
    <2> QED
      BY <1>7, <2>1, <2>2 DEF DropReservation
  <1>8. ASSUME NEW c \in Callers, Refuse(c) PROVE AdmissionInv'
    BY <1>6, <1>8 DEF Refuse, WithPermit
  <1>9. ASSUME NEW c \in Callers, Cancel(c) PROVE AdmissionInv'
    <2>1. CASE pc[c] = "waiting"
      <3>1. PICK i \in DOMAIN queue : queue[i] = c /\ queue' = RemoveAt(queue, i)
        BY <1>9, <2>1 DEF Cancel
      <3>2. /\ Goto(c, "idle") /\ UNCHANGED <<available, reserved, bytes>>
        BY <1>9, <2>1 DEF Cancel
      <3>3. queue \in Seq(Callers) /\ IsInjective(queue)
        BY <1>1 DEF TypeOK, QueueIsWaiting
      <3>4. /\ queue' \in Seq(Callers) /\ IsInjective(queue')
            /\ {queue'[j] : j \in DOMAIN queue'} = {queue[j] : j \in DOMAIN queue} \ {c}
        BY <3>1, <3>3, RemoveAtFacts
      <3>5. /\ In(WithPermit)' = In(WithPermit)
            /\ In({"waiting"})' = In({"waiting"}) \ {c}
        BY <1>1, <2>1, <3>2 DEF Goto, TypeOK, In, WithPermit
      <3>6. queue # <<>>
        BY <3>1
      <3>7. QueueIsWaiting'
        BY <1>1, <3>2, <3>4, <3>5, <3>6 DEF QueueIsWaiting
      <3>8. TypeOK'
        BY <1>1, <3>2, <3>4 DEF Goto, TypeOK, PCs
      <3> QED
        BY <1>1, <3>2, <3>5, <3>7, <3>8 DEF AdmissionInv, PermitsConserved
    <2>2. CASE pc[c] = "granted"
      BY <1>6, <1>9, <2>2 DEF Cancel, WithPermit
    <2> QED
      BY <1>9, <2>1, <2>2 DEF Cancel
  <1>10. CASE UNCHANGED vars
    BY <1>1, <1>10 DEF vars, AdmissionInv, TypeOK, QueueIsWaiting, PermitsConserved, In, IsInjective
  <1> QED
    BY <1>2, <1>3, <1>4, <1>5, <1>7, <1>8, <1>9, <1>10 DEF Next, Finish

\* The permits are conserved and the queue is exactly the waiting, for any
\* number of callers, permits, bytes and sizes (acquire, try_acquire, the drops).
THEOREM AdmissionInvariant == Spec => []AdmissionInv
  BY InitInv, NextInv, PTL DEF Spec

-----------------------------------------------------------------------------
(* Callers that all ask for the same size, as those of the gateway do.     *)

Uniform(u) ==
    /\ \A c \in Callers : pc[c] # "idle" => bytes[c] = u
    /\ reserved = u * Cardinality(In({"held"}))
    /\ In({"refused"}) = {}

LEMMA MonotoneProduct == \A u, a, b \in Nat : a <= b => u * a <= u * b
  OBVIOUS

\* A step that changes neither who holds a reservation nor what is reserved.
LEMMA UniformKept ==
    ASSUME NEW u \in Nat, Uniform(u), In({"held"})' = In({"held"}), reserved' = reserved,
           In({"refused"})' = {},
           \A c \in Callers : pc'[c] # "idle" => bytes'[c] = bytes[c] /\ pc[c] # "idle"
    PROVE  Uniform(u)'
  BY DEF Uniform

LEMMA UniformBack ==
    ASSUME AdmissionInv, NEW u \in Nat, Uniform(u), NEW c \in Callers, pc[c] \in WithPermit \ {"held"},
           PermitBack(c), UNCHANGED <<reserved, bytes>>
    PROVE  Uniform(u)'
  <1>1. \A d \in Callers : pc'[d] # pc[d] => pc'[d] \in {"idle", "granted"}
    BY PermitBackKeeps
  <1>2. \A d \in Callers : pc[d] = "idle" => pc'[d] = "idle"
    <2> SUFFICES ASSUME NEW d \in Callers, pc[d] = "idle" PROVE pc'[d] = "idle"
      OBVIOUS
    <2>1. CASE queue = <<>>
      BY <2>1 DEF PermitBack, Goto, AdmissionInv, TypeOK
    <2>2. CASE queue # <<>>
      <3>1. Head(queue) \in In({"waiting"})
        BY <2>2 DEF AdmissionInv, TypeOK, QueueIsWaiting
      <3>2. d # Head(queue)
        BY <3>1 DEF In
      <3> QED
        BY <2>2, <3>2 DEF PermitBack, AdmissionInv, TypeOK
    <2> QED
      BY <2>1, <2>2
  <1>3. \A d \in Callers : pc[d] = "held" => pc'[d] = "held"
    <2> SUFFICES ASSUME NEW d \in Callers, pc[d] = "held" PROVE pc'[d] = "held"
      OBVIOUS
    <2>1. d # c
      OBVIOUS
    <2>2. CASE queue = <<>>
      BY <2>1, <2>2 DEF PermitBack, Goto, AdmissionInv, TypeOK
    <2>3. CASE queue # <<>>
      <3>1. Head(queue) \in In({"waiting"})
        BY <2>3 DEF AdmissionInv, TypeOK, QueueIsWaiting
      <3>2. d # Head(queue)
        BY <3>1 DEF In
      <3> QED
        BY <2>1, <2>3, <3>2 DEF PermitBack, AdmissionInv, TypeOK
    <2> QED
      BY <2>2, <2>3
  <1>4. In({"held"})' = In({"held"})
    BY <1>1, <1>3 DEF In
  <1>5. In({"refused"})' = {}
    BY <1>1 DEF In, Uniform
  <1> QED
    BY <1>2, <1>4, <1>5, UniformKept

LEMMA UniformNext ==
    ASSUME NEW u \in Nat, Sizes = {u}, u * Permits <= MaxBytes,
           AdmissionInv, Uniform(u), [Next]_vars
    PROVE  Uniform(u)'
  <1>1. TypeOK /\ PermitsConserved
    BY DEF AdmissionInv
  <1>2. ASSUME NEW c \in Callers, NEW b \in Sizes, TryAcquire(c, b) \/ Acquire(c, b)
        PROVE  Uniform(u)'
    <2>1. /\ bytes' = [bytes EXCEPT ![c] = u] /\ reserved' = reserved
          /\ pc[c] = "idle" /\ \E l \in {"admitted", "waiting"} : pc' = [pc EXCEPT ![c] = l]
      BY <1>2 DEF TryAcquire, Acquire, Goto
    <2>2. In({"held"})' = In({"held"}) /\ In({"refused"})' = In({"refused"})
      BY <1>1, <2>1 DEF TypeOK, In
    <2>3. \A d \in Callers : pc'[d] # "idle" => bytes'[d] = u
      BY <1>1, <2>1 DEF TypeOK, Uniform
    <2> QED
      BY <2>1, <2>2, <2>3 DEF Uniform
  <1>3. ASSUME NEW c \in Callers, Wake(c) PROVE Uniform(u)'
    <2>1. In({"held"})' = In({"held"}) /\ In({"refused"})' = {}
      BY <1>1, <1>3 DEF Wake, Goto, TypeOK, In, Uniform
    <2> QED
      BY <1>1, <1>3, <2>1, UniformKept DEF Wake, Goto, TypeOK
  <1>4. ASSUME NEW c \in Callers, Reserve(c) PROVE Uniform(u)'
    <2> DEFINE n == Cardinality(In({"held"}))
    <2>1. n \in Nat /\ IsFiniteSet(In({"held"})) /\ c \notin In({"held"})
      BY <1>4, InIsFinite DEF Reserve, In
    <2>2. Cardinality(In({"held"}) \cup {c}) = n + 1
      BY <2>1, FS_AddElement
    <2>3. n + 1 <= Cardinality(In(WithPermit))
      <3>1. In({"held"}) \cup {c} \in SUBSET In(WithPermit)
        BY <1>4 DEF Reserve, In, WithPermit
      <3> QED
        BY <2>2, <3>1, InIsFinite, FS_Subset
    <2>4. n + 1 <= Permits
      BY <1>1, <2>1, <2>3, InIsFinite, AdmissionAssumption DEF TypeOK, PermitsConserved
    <2>5. u * (n + 1) <= u * Permits
      <3>1. n + 1 \in Nat /\ Permits \in Nat
        BY <2>1, AdmissionAssumption
      <3> HIDE DEF n
      <3> QED
        BY <2>4, <3>1, MonotoneProduct
    <2>6. reserved = u * n /\ bytes[c] = u
      BY <1>4 DEF Uniform, Reserve
    <2>7. u * (n + 1) = u * n + u /\ u * n \in Nat /\ u * (n + 1) \in Nat /\ u * Permits \in Nat
      <3>1. n \in Nat /\ Permits \in Nat
        BY <2>1, AdmissionAssumption
      <3> HIDE DEF n
      <3> QED
        BY <3>1
    <2>8. Fits(bytes[c])
      <3> HIDE DEF n
      <3> QED
        BY <2>5, <2>6, <2>7, AdmissionAssumption DEF Fits
    <2>9. /\ Goto(c, "held") /\ reserved' = reserved + u /\ bytes' = bytes
      BY <1>4, <2>6, <2>8 DEF Reserve
    <2>10. In({"held"})' = In({"held"}) \cup {c} /\ In({"refused"})' = {}
      BY <1>1, <2>9 DEF Goto, TypeOK, In, Uniform
    <2>11. reserved' = u * Cardinality(In({"held"}))'
      BY <2>2, <2>6, <2>7, <2>9, <2>10
    <2>12. \A d \in Callers : pc'[d] # "idle" => bytes'[d] = u
      BY <1>1, <1>4, <2>9 DEF Goto, TypeOK, Uniform, Reserve
    <2> QED
      BY <2>10, <2>11, <2>12 DEF Uniform
  <1>5. ASSUME NEW c \in Callers, DropReservation(c) PROVE Uniform(u)'
    <2>1. CASE pc[c] = "held"
      <3> DEFINE n == Cardinality(In({"held"}))
      <3>1. /\ Goto(c, "releasing") /\ reserved' = reserved - u /\ bytes' = bytes
        BY <1>5, <2>1 DEF DropReservation, Uniform
      <3>2. In({"held"})' = In({"held"}) \ {c} /\ In({"refused"})' = {} /\ c \in In({"held"})
        BY <1>1, <2>1, <3>1 DEF Goto, TypeOK, In, Uniform
      <3>3. Cardinality(In({"held"}))' = n - 1 /\ n \in Nat
        BY <3>2, InIsFinite, FS_RemoveElement
      <3>4. reserved = u * n
        BY DEF Uniform
      <3>5. reserved' = u * (n - 1)
        <4> HIDE DEF n
        <4> QED
          BY <3>1, <3>3, <3>4
      <3>6. \A d \in Callers : pc'[d] # "idle" => bytes'[d] = u
        BY <1>1, <2>1, <3>1 DEF Goto, TypeOK, Uniform
      <3> QED
        BY <3>2, <3>3, <3>5, <3>6 DEF Uniform
    <2>2. CASE pc[c] = "releasing"
      BY <1>5, <2>2, UniformBack DEF DropReservation, WithPermit
    <2> QED
      BY <1>5, <2>1, <2>2 DEF DropReservation
  <1>6. ASSUME NEW c \in Callers, Refuse(c) PROVE Uniform(u)'
    BY <1>6 DEF Refuse, Uniform, In
  <1>7. ASSUME NEW c \in Callers, Cancel(c) PROVE Uniform(u)'
    <2>1. CASE pc[c] = "waiting"
      <3>1. Goto(c, "idle") /\ UNCHANGED <<reserved, bytes>>
        BY <1>7, <2>1 DEF Cancel
      <3>2. In({"held"})' = In({"held"}) /\ In({"refused"})' = {}
        BY <1>1, <2>1, <3>1 DEF Goto, TypeOK, In, Uniform
      <3> QED
        BY <1>1, <2>1, <3>1, <3>2, UniformKept DEF Goto, TypeOK
    <2>2. CASE pc[c] = "granted"
      BY <1>7, <2>2, UniformBack DEF Cancel, WithPermit
    <2> QED
      BY <1>7, <2>1, <2>2 DEF Cancel
  <1>8. CASE UNCHANGED vars
    BY <1>8 DEF vars, Uniform, In
  <1> QED
    BY <1>2, <1>3, <1>4, <1>5, <1>6, <1>7, <1>8 DEF Next, Finish

\* When all callers ask for one size that fits Permits times into the budget,
\* a caller that was given a permit is never refused its bytes, however the
\* two drops of a reservation interleave with the others' two acquisitions.
THEOREM PermitsMeanBytes ==
    ASSUME NEW u \in Nat, Sizes = {u}, u * Permits <= MaxBytes
    PROVE  Spec => [](\A c \in Callers : pc[c] # "refused")
  <1>1. Init => Uniform(u)
    <2> SUFFICES ASSUME Init PROVE Uniform(u)
      OBVIOUS
    <2>1. In({"held"}) = {} /\ In({"refused"}) = {}
      BY DEF Init, In
    <2> QED
      BY <2>1, FS_EmptySet DEF Init, Uniform
  <1>2. AdmissionInv /\ Uniform(u) /\ [Next]_vars => Uniform(u)'
    BY UniformNext
  <1>3. Uniform(u) => \A c \in Callers : pc[c] # "refused"
    BY DEF Uniform, In
  <1> QED
    BY <1>1, <1>2, <1>3, AdmissionInvariant, PTL DEF Spec

-----------------------------------------------------------------------------
(* Sums over sequences of increments                                       *)

Events == [key : Keys, count : Nat]

Share(e, k) == IF e.key = k THEN e.count ELSE 0

\* f has the sums over the prefixes of s.
Sums(s, k, f) ==
    f[0] = 0 /\ \A i \in 1 .. Len(s) : f[i] = f[i - 1] + Share(s[i], k)

\* A set of numbers that is not empty has a least one.
LEMMA LeastNat ==
    ASSUME NEW S \in SUBSET Nat, S # {}
    PROVE  \E m \in S : \A n \in S : m <= n
  <1>1. PICK x \in S : \A y \in S : <<y, x>> \notin OpToRel(<, Nat)
    BY NatLessThanWellFounded, WFMin
  <1>2. \A y \in S : ~(y < x)
    BY <1>1 DEF OpToRel
  <1> QED
    BY <1>2

LEMMA ShareIsNat == \A e \in Events, k \in Keys : Share(e, k) \in Nat
  BY DEF Events, Share

LEMMA SumsExist ==
    ASSUME NEW s \in Seq(Events), NEW k \in Keys
    PROVE  \E f \in [0 .. Len(s) -> Nat] : Sums(s, k, f)
  <1> DEFINE Upto(n, f) == f[0] = 0 /\ \A i \in 1 .. n : f[i] = f[i - 1] + Share(s[i], k)
             S == {n \in 0 .. Len(s) : ~\E f \in [0 .. n -> Nat] : Upto(n, f)}
  <1>0. Len(s) \in Nat /\ \A i \in 1 .. Len(s) : Share(s[i], k) \in Nat
    BY ShareIsNat
  <1>1. S = {}
    <2> SUFFICES ASSUME S # {} PROVE FALSE
      OBVIOUS
    <2>1. PICK m \in S : \A n \in S : m <= n
      <3>1. S \in SUBSET Nat
        BY <1>0
      <3> HIDE DEF S
      <3> QED
        BY <3>1, LeastNat
    <2>2. m \in 0 .. Len(s) /\ ~\E f \in [0 .. m -> Nat] : Upto(m, f)
      BY <2>1
    <2>3. CASE m = 0
      <3> DEFINE f == [i \in 0 .. 0 |-> 0]
      <3>1. f \in [0 .. m -> Nat] /\ Upto(m, f)
        BY <2>3
      <3> HIDE DEF f
      <3> QED
        BY <2>2, <3>1
    <2>4. CASE m # 0
      <3>1. m - 1 \in 0 .. Len(s) /\ m \in 1 .. Len(s) /\ ~(m <= m - 1)
        BY <1>0, <2>2, <2>4
      <3>2. m - 1 \notin S
        <4> HIDE DEF S
        <4> QED
          BY <2>1, <3>1
      <3>a. PICK f \in [0 .. m - 1 -> Nat] : Upto(m - 1, f)
        <4> HIDE DEF Upto
        <4> QED
          BY <3>1, <3>2
      <3> DEFINE g == [i \in 0 .. m |-> IF i = m THEN f[m - 1] + Share(s[m], k) ELSE f[i]]
      <3>3. f[m - 1] + Share(s[m], k) \in Nat /\ m - 1 \in 0 .. m - 1
        BY <1>0, <3>1, <3>a
      <3>4. g \in [0 .. m -> Nat]
        BY <3>1, <3>a, <3>3
      <3>5. g[0] = 0 /\ g[m] = f[m - 1] + Share(s[m], k) /\ \A i \in 0 .. m - 1 : g[i] = f[i]
        BY <3>1, <3>a
      <3> HIDE DEF g
      <3>6. ASSUME NEW i \in 1 .. m PROVE g[i] = g[i - 1] + Share(s[i], k)
        <4>1. CASE i = m
          BY <3>3, <3>5, <4>1
        <4>2. CASE i # m
          <5>1. i \in 1 .. m - 1 /\ i - 1 \in 0 .. m - 1 /\ i \in 0 .. m - 1
            BY <3>1, <4>2
          <5> QED
            BY <3>a, <3>5, <5>1
        <4> QED
          BY <4>1, <4>2
      <3> QED
        BY <2>2, <3>4, <3>5, <3>6
    <2> QED
      BY <2>3, <2>4
  <1>2. Len(s) \notin S
    BY <1>1
  <1> QED
    BY <1>0, <1>2 DEF Sums

LEMMA SumsAgree ==
    ASSUME NEW s \in Seq(Events), NEW k \in Keys, NEW f, NEW g, Sums(s, k, f), Sums(s, k, g)
    PROVE  \A i \in 0 .. Len(s) : f[i] = g[i]
  <1> DEFINE S == {i \in 0 .. Len(s) : f[i] # g[i]}
  <1> SUFFICES ASSUME S # {} PROVE FALSE
    OBVIOUS
  <1>0. Len(s) \in Nat
    OBVIOUS
  <1>1. PICK m \in S : \A n \in S : m <= n
    <2>1. S \in SUBSET Nat
      BY <1>0
    <2> HIDE DEF S
    <2> QED
      BY <2>1, LeastNat
  <1>2. m \in 0 .. Len(s) /\ f[m] # g[m] /\ m # 0
    BY <1>1 DEF Sums
  <1>3. m - 1 \in 0 .. Len(s) /\ m - 1 \notin S /\ m \in 1 .. Len(s)
    BY <1>0, <1>1, <1>2
  <1>4. f[m - 1] = g[m - 1]
    BY <1>3
  <1> QED
    BY <1>2, <1>3, <1>4 DEF Sums

\* Whatever has the sums over the prefixes of s ends with its total.
LEMMA TotalOfSums ==
    ASSUME NEW s \in Seq(Events), NEW k \in Keys, NEW f, Sums(s, k, f)
    PROVE  Total(s)[k] = f[Len(s)] /\ Total(s)[k] \in Nat
  <1> DEFINE Same(h) == h = [i \in 0 .. Len(s) |->
                 IF i = 0 THEN 0
                 ELSE IF s[i].key = k THEN h[i - 1] + s[i].count ELSE h[i - 1]]
             sum == CHOOSE h : Same(h)
  <1>0. Len(s) \in Nat
    OBVIOUS
  <1>1. PICK g \in [0 .. Len(s) -> Nat] : Sums(s, k, g)
    BY SumsExist
  <1>2. Same(g)
    <2>1. ASSUME NEW i \in 0 .. Len(s)
          PROVE  g[i] = IF i = 0 THEN 0
                        ELSE IF s[i].key = k THEN g[i - 1] + s[i].count ELSE g[i - 1]
      <3>1. CASE i = 0
        BY <1>1, <3>1 DEF Sums
      <3>2. CASE i # 0
        <4>1. i \in 1 .. Len(s) /\ i - 1 \in 0 .. Len(s)
          BY <1>0, <3>2
        <4>2. g[i] = g[i - 1] + Share(s[i], k) /\ g[i - 1] \in Nat
          BY <1>1, <4>1 DEF Sums
        <4> QED
          BY <3>2, <4>2 DEF Share
      <3> QED
        BY <3>1, <3>2
    <2> QED
      BY <1>1, <2>1
  <1>3. Same(sum)
    <2> HIDE DEF Same
    <2> QED
      BY <1>2
  <1>a. /\ sum[0] = 0
        /\ \A i \in 1 .. Len(s) :
               sum[i] = IF s[i].key = k THEN sum[i - 1] + s[i].count ELSE sum[i - 1]
    <2> HIDE DEF sum
    <2> QED
      BY <1>0, <1>3
  <1>b. Total(s)[k] = sum[Len(s)]
    BY DEF Total
  <1> HIDE DEF sum, Same
  <1>4. Sums(s, k, sum)
    <2>1. sum[0] = 0
      BY <1>a
    <2>2. ASSUME NEW n \in 0 .. Len(s), sum[n] \notin Nat PROVE FALSE
      <3> DEFINE S == {i \in 0 .. Len(s) : sum[i] \notin Nat}
      <3>1. S \in SUBSET Nat /\ S # {}
        BY <1>0, <2>2
      <3>2. PICK m \in S : \A i \in S : m <= i
        <4> HIDE DEF S
        <4> QED
          BY <3>1, LeastNat
      <3>3. m \in 0 .. Len(s) /\ sum[m] \notin Nat /\ m # 0
        BY <2>1, <3>2
      <3>4. m - 1 \in 0 .. Len(s) /\ m \in 1 .. Len(s) /\ ~(m <= m - 1)
        BY <1>0, <3>3
      <3>a. m - 1 \notin S
        <4> HIDE DEF S
        <4> QED
          BY <3>2, <3>4
      <3>5. sum[m - 1] \in Nat
        BY <3>4, <3>a
      <3>b. s[m].count \in Nat
        <4>1. s[m] \in Events
          BY <3>4
        <4> QED
          BY <4>1 DEF Events
      <3>6. sum[m] = IF s[m].key = k THEN sum[m - 1] + s[m].count ELSE sum[m - 1]
        BY <1>a, <3>4
      <3> QED
        BY <3>3, <3>5, <3>b, <3>6
    <2>3. ASSUME NEW i \in 1 .. Len(s) PROVE sum[i] = sum[i - 1] + Share(s[i], k)
      <3>1. i \in 0 .. Len(s) /\ i - 1 \in 0 .. Len(s) /\ i # 0
        BY <1>0
      <3>2. sum[i] = IF s[i].key = k THEN sum[i - 1] + s[i].count ELSE sum[i - 1]
        BY <1>a
      <3>3. sum[i - 1] \in Nat
        BY <2>2, <3>1
      <3> QED
        BY <3>2, <3>3 DEF Share
    <2> QED
      BY <2>1, <2>3 DEF Sums
  <1>5. sum[Len(s)] = g[Len(s)] /\ f[Len(s)] = g[Len(s)] /\ g[Len(s)] \in Nat
    BY <1>0, <1>1, <1>4, SumsAgree
  <1> QED
    BY <1>b, <1>5

LEMMA TotalIsNat ==
    ASSUME NEW s \in Seq(Events), NEW k \in Keys PROVE Total(s)[k] \in Nat
  BY SumsExist, TotalOfSums

LEMMA TotalOfNone ==
    ASSUME NEW k \in Keys PROVE Total(<<>>)[k] = 0
  <1>1. << >> \in Seq(Events) /\ Len(<< >>) = 0
    OBVIOUS
  <1>2. PICK f \in [0 .. 0 -> Nat] : Sums(<< >>, k, f)
    BY <1>1, SumsExist
  <1> QED
    BY <1>1, <1>2, TotalOfSums DEF Sums

\* An event more at the end, or one less at the head, is its share more or less.
LEMMA TotalOfAppend ==
    ASSUME NEW s \in Seq(Events), NEW e \in Events, NEW k \in Keys
    PROVE  Total(Append(s, e))[k] = Total(s)[k] + Share(e, k)
  <1> DEFINE t == Append(s, e)
  <1>1. /\ t \in Seq(Events) /\ Len(t) = Len(s) + 1 /\ Len(s) \in Nat
        /\ t[Len(s) + 1] = e /\ \A i \in 1 .. Len(s) : t[i] = s[i]
    OBVIOUS
  <1> HIDE DEF t
  <1>2. PICK f \in [0 .. Len(t) -> Nat] : Sums(t, k, f)
    BY <1>1, SumsExist
  <1>3. Sums(s, k, f)
    BY <1>1, <1>2 DEF Sums
  <1>4. f[Len(s) + 1] = f[Len(s)] + Share(e, k)
    <2>1. Len(s) + 1 \in 1 .. Len(t) /\ Len(s) + 1 - 1 = Len(s)
      BY <1>1
    <2> QED
      BY <1>1, <1>2, <2>1 DEF Sums
  <1>5. Total(t)[k] = f[Len(t)] /\ Total(s)[k] = f[Len(s)]
    BY <1>1, <1>2, <1>3, TotalOfSums
  <1> QED
    BY <1>1, <1>4, <1>5 DEF t

LEMMA TotalOfTail ==
    ASSUME NEW s \in Seq(Events), s # <<>>, NEW k \in Keys
    PROVE  Total(s)[k] = Share(Head(s), k) + Total(Tail(s))[k]
  <1> DEFINE t == Tail(s)
  <1>1. /\ t \in Seq(Events) /\ Len(t) = Len(s) - 1 /\ Len(s) \in Nat \ {0}
        /\ Head(s) = s[1] /\ \A i \in 1 .. Len(t) : t[i] = s[i + 1]
    OBVIOUS
  <1> HIDE DEF t
  <1>2. PICK f \in [0 .. Len(s) -> Nat] : Sums(s, k, f)
    BY SumsExist
  <1>3. \A i \in 0 .. Len(s) : f[i] \in Nat
    BY <1>2
  <1> DEFINE g == [i \in 0 .. Len(t) |-> f[i + 1] - f[1]]
  <1>4. Sums(t, k, g)
    <2>1. g[0] = 0
      BY <1>1, <1>3
    <2>2. ASSUME NEW i \in 1 .. Len(t) PROVE g[i] = g[i - 1] + Share(t[i], k)
      <3>1. i + 1 \in 1 .. Len(s) /\ i \in 0 .. Len(s) /\ i \in 0 .. Len(t) /\ i - 1 \in 0 .. Len(t)
            /\ 1 \in 0 .. Len(s) /\ i + 1 \in 0 .. Len(s)
        BY <1>1
      <3>2. f[i + 1] = f[i] + Share(t[i], k)
        <4>1. i + 1 - 1 = i
          BY <3>1
        <4> QED
          BY <1>1, <1>2, <3>1, <4>1 DEF Sums
      <3>3. g[i] = f[i + 1] - f[1] /\ g[i - 1] = f[i] - f[1]
        BY <3>1
      <3>4. Share(t[i], k) \in Nat
        BY <1>1, ShareIsNat
      <3> HIDE DEF g
      <3> QED
        BY <1>3, <3>1, <3>2, <3>3, <3>4
    <2> HIDE DEF g
    <2> QED
      BY <2>1, <2>2 DEF Sums
  <1>5. Total(s)[k] = f[Len(s)] /\ Total(t)[k] = g[Len(t)]
    <2> HIDE DEF g
    <2> QED
      BY <1>1, <1>2, <1>4, TotalOfSums
  <1>6. g[Len(t)] = f[Len(s)] - f[1]
    BY <1>1
  <1>7. f[1] = Share(Head(s), k)
    <2>1. f[1] = f[0] + Share(s[1], k) /\ f[0] = 0 /\ Share(s[1], k) \in Nat
      BY <1>1, <1>2, ShareIsNat DEF Sums
    <2> QED
      BY <1>1, <2>1
  <1>8. f[1] \in Nat /\ f[Len(s)] \in Nat
    BY <1>1, <1>3
  <1> HIDE DEF g
  <1> QED
    BY <1>5, <1>6, <1>7, <1>8 DEF t

-----------------------------------------------------------------------------
(* The counts                                                              *)

Counts == [Keys -> Nat]

UTypeOK ==
    /\ counts \in Counts /\ flushing \in Counts /\ table \in Counts
    /\ dropped \in Counts /\ repeated \in Counts
    /\ channel \in Seq(Events) /\ batch \in Seq(Events)

UInv == UTypeOK /\ CountsConserved

LEMMA UnderwayIs ==
    ASSUME UTypeOK, NEW k \in Keys
    PROVE  /\ Total(channel)[k] \in Nat /\ Total(batch)[k] \in Nat
           /\ counts[k] \in Nat /\ flushing[k] \in Nat /\ table[k] \in Nat
           /\ dropped[k] \in Nat /\ repeated[k] \in Nat
           /\ Underway[k] = Total(channel)[k] + Total(batch)[k] + flushing[k]
  BY TotalIsNat DEF UTypeOK, Counts, Underway

LEMMA PlusFacts ==
    \A f \in Counts, k \in Keys, n \in Nat :
        /\ Plus(f, k, n) \in Counts
        /\ \A j \in Keys : Plus(f, k, n)[j] = IF j = k THEN f[j] + n ELSE f[j]
  BY DEF Plus, Counts

LEMMA IncrementKeeps ==
    ASSUME UInv, NEW k \in Keys, NEW n \in Amounts, Increment(k, n)
    PROVE  UInv'
  <1>0. UTypeOK /\ n \in Nat
    BY UsageAssumption DEF UInv
  <1> DEFINE e == [key |-> k, count |-> n]
  <1>1. e \in Events /\ \A j \in Keys : Share(e, j) = IF j = k THEN n ELSE 0
    BY <1>0 DEF Events, Share
  <1>2. /\ counts' = Plus(counts, k, n)
        /\ \/ channel' = Append(channel, e) /\ dropped' = dropped
           \/ channel' = channel /\ dropped' = Plus(dropped, k, n)
        /\ UNCHANGED <<batch, flushing, table, repeated>>
    BY DEF Increment
  <1> HIDE DEF e
  <1>a. Append(channel, e) \in Seq(Events)
    BY <1>0, <1>1 DEF UTypeOK
  <1>b. /\ Plus(counts, k, n) \in Counts /\ Plus(dropped, k, n) \in Counts
        /\ \A j \in Keys : /\ Plus(counts, k, n)[j] = IF j = k THEN counts[j] + n ELSE counts[j]
                           /\ Plus(dropped, k, n)[j] = IF j = k THEN dropped[j] + n ELSE dropped[j]
    BY <1>0, PlusFacts DEF UTypeOK
  <1>3. UTypeOK'
    BY <1>0, <1>2, <1>a, <1>b, Zenon DEF UTypeOK
  <1>4. ASSUME NEW j \in Keys
        PROVE  table'[j] + Underway'[j] + dropped'[j] = counts'[j] + repeated'[j]
    <2>1. table[j] + Underway[j] + dropped[j] = counts[j] + repeated[j]
      BY DEF UInv, CountsConserved
    <2>2. /\ Underway[j] = Total(channel)[j] + Total(batch)[j] + flushing[j]
          /\ Total(channel)[j] \in Nat /\ Total(batch)[j] \in Nat
          /\ counts[j] \in Nat /\ flushing[j] \in Nat /\ table[j] \in Nat
          /\ dropped[j] \in Nat /\ repeated[j] \in Nat
      BY <1>0, UnderwayIs
    <2>3. Underway'[j] = Total(channel')[j] + Total(batch)[j] + flushing[j]
      BY <1>2 DEF Underway
    <2>4. /\ counts'[j] = counts[j] + Share(e, j)
          /\ table'[j] = table[j] /\ repeated'[j] = repeated[j]
      BY <1>0, <1>1, <1>2, <1>b, <2>2
    <2>5. \/ Total(channel')[j] = Total(channel)[j] + Share(e, j) /\ dropped'[j] = dropped[j]
          \/ Total(channel')[j] = Total(channel)[j] /\ dropped'[j] = dropped[j] + Share(e, j)
      <3>1. CASE channel' = Append(channel, e) /\ dropped' = dropped
        <4>1. Total(Append(channel, e))[j] = Total(channel)[j] + Share(e, j)
          BY <1>0, <1>1, TotalOfAppend DEF UTypeOK
        <4> QED
          BY <3>1, <4>1
      <3>2. CASE channel' = channel /\ dropped' = Plus(dropped, k, n)
        BY <1>0, <1>1, <1>b, <2>2, <3>2
      <3> QED
        BY <1>2, <3>1, <3>2
    <2>6. Share(e, j) \in Nat
      BY <1>1, ShareIsNat
    <2> QED
      BY <2>1, <2>2, <2>3, <2>4, <2>5, <2>6
  <1> QED
    BY <1>3, <1>4 DEF UInv, CountsConserved

\* The batch becomes what is being written.
LEMMA FlushFacts ==
    ASSUME NEW s \in Seq(Events), FlushBatch(s)
    PROVE  /\ batch' = <<>> /\ flushing' \in Counts
           /\ \A k \in Keys : flushing'[k] = Total(s)[k] /\ Total(batch')[k] = 0
  <1>1. flushing' = Total(s) /\ batch' = <<>>
    BY DEF FlushBatch, Aggregate
  <1>2. Total(s) = [k \in Keys |-> Total(s)[k]]
    BY DEF Total
  <1> QED
    BY <1>1, <1>2, TotalIsNat, TotalOfNone DEF Counts

LEMMA ReceiveKeeps ==
    ASSUME UInv, Receive
    PROVE  UInv'
  <1>0. UTypeOK
    BY DEF UInv
  <1> DEFINE e == Head(channel)
             s == Append(batch, e)
  <1>1. /\ channel # <<>> /\ channel' = Tail(channel) /\ e \in Events /\ s \in Seq(Events)
        /\ FlushBatch(s) \/ (batch' = s /\ flushing' = flushing)
        /\ UNCHANGED <<counts, table, dropped, repeated>>
        /\ \A k \in Keys : flushing[k] = 0
    BY <1>0 DEF Receive, Idle, None0, UTypeOK
  <1>2. \A k \in Keys : /\ Total(channel)[k] = Share(e, k) + Total(channel')[k]
                        /\ Total(s)[k] = Total(batch)[k] + Share(e, k)
    BY <1>0, <1>1, TotalOfTail, TotalOfAppend DEF UTypeOK
  <1> HIDE DEF e, s
  <1>3. channel' \in Seq(Events)
    BY <1>0, <1>1 DEF UTypeOK
  <1>4. UTypeOK'
    <2>1. batch' \in Seq(Events) /\ flushing' \in Counts
      <3>1. CASE FlushBatch(s)
        <4>1. << >> \in Seq(Events)
          OBVIOUS
        <4> QED
          BY <1>1, <3>1, <4>1, FlushFacts
      <3>2. CASE batch' = s /\ flushing' = flushing
        BY <1>0, <1>1, <3>2 DEF UTypeOK
      <3> QED
        BY <1>1, <3>1, <3>2
    <2> QED
      BY <1>0, <1>1, <1>3, <2>1, Zenon DEF UTypeOK
  <1>5. ASSUME NEW k \in Keys
        PROVE  table'[k] + Underway'[k] + dropped'[k] = counts'[k] + repeated'[k]
    <2>1. table[k] + Underway[k] + dropped[k] = counts[k] + repeated[k]
      BY DEF UInv, CountsConserved
    <2>2. /\ Underway[k] = Total(channel)[k] + Total(batch)[k] + 0
          /\ Total(channel)[k] \in Nat /\ Total(batch)[k] \in Nat
          /\ counts[k] \in Nat /\ table[k] \in Nat
          /\ dropped[k] \in Nat /\ repeated[k] \in Nat
      BY <1>0, <1>1, UnderwayIs
    <2>3. Underway'[k] = Total(channel')[k] + Total(batch')[k] + flushing'[k]
      BY DEF Underway
    <2>4. Total(channel')[k] \in Nat /\ Share(e, k) \in Nat
      BY <1>1, <1>3, TotalIsNat, ShareIsNat
    <2>5. /\ Total(batch')[k] + flushing'[k] = Total(s)[k]
          /\ Total(batch')[k] \in Nat /\ flushing'[k] \in Nat
      <3>0. Total(s)[k] \in Nat
        BY <1>1, TotalIsNat
      <3>1. CASE FlushBatch(s)
        BY <1>1, <3>0, <3>1, FlushFacts
      <3>2. CASE batch' = s /\ flushing' = flushing
        BY <1>1, <3>0, <3>2
      <3> QED
        BY <1>1, <3>1, <3>2
    <2>6. /\ Total(channel)[k] = Share(e, k) + Total(channel')[k]
          /\ Total(s)[k] = Total(batch)[k] + Share(e, k)
          /\ counts' = counts /\ table' = table /\ dropped' = dropped /\ repeated' = repeated
      BY <1>1, <1>2
    <2> QED
      BY <2>1, <2>2, <2>3, <2>4, <2>5, <2>6
  <1> QED
    BY <1>4, <1>5 DEF UInv, CountsConserved

LEMMA FlushKeeps ==
    ASSUME UInv, FlushTick \/ Closed
    PROVE  UInv'
  <1>0. UTypeOK /\ channel' = channel /\ UNCHANGED <<counts, table, dropped, repeated>>
    BY DEF UInv, FlushTick, Closed
  <1>1. FlushBatch(batch) \/ UNCHANGED <<batch, flushing>>
    BY DEF FlushTick, Closed
  <1>2. CASE UNCHANGED <<batch, flushing>>
    BY <1>0, <1>2 DEF UInv, UTypeOK, CountsConserved, Underway
  <1>3. CASE FlushBatch(batch)
    <2>0. << >> \in Seq(Events) /\ batch \in Seq(Events)
      BY <1>0 DEF UTypeOK
    <2>a. /\ batch' = << >> /\ flushing' \in Counts
          /\ \A k \in Keys : flushing'[k] = Total(batch)[k] /\ Total(batch')[k] = 0
      BY <1>3, <2>0, FlushFacts, Zenon
    <2>1. UTypeOK'
      BY <1>0, <2>0, <2>a, Zenon DEF UTypeOK
    <2>2. ASSUME NEW k \in Keys
          PROVE  table'[k] + Underway'[k] + dropped'[k] = counts'[k] + repeated'[k]
      <3>1. flushing[k] = 0
        <4>1. Idle
          BY <1>3 DEF FlushTick, Closed
        <4> QED
          BY <4>1 DEF Idle, None0
      <3>2. /\ Underway[k] = Total(channel)[k] + Total(batch)[k] + 0
            /\ Total(channel)[k] \in Nat /\ Total(batch)[k] \in Nat
        BY <1>0, <3>1, UnderwayIs
      <3>3. Underway'[k] = Total(channel)[k] + 0 + Total(batch)[k]
        BY <1>0, <2>a DEF Underway
      <3>4. table[k] + Underway[k] + dropped[k] = counts[k] + repeated[k]
        BY DEF UInv, CountsConserved
      <3>5. Underway'[k] = Underway[k]
        BY <3>2, <3>3
      <3> QED
        BY <1>0, <3>4, <3>5
    <2> QED
      BY <2>1, <2>2 DEF UInv, CountsConserved
  <1> QED
    BY <1>1, <1>2, <1>3

LEMMA UpsertKeeps ==
    ASSUME UInv, NEW k \in Keys, Upsert(k)
    PROVE  UInv'
  <1>0. UTypeOK /\ UNCHANGED <<counts, channel, batch>>
    BY DEF UInv, Upsert
  <1> DEFINE n == flushing[k]
             Gone == flushing' = [flushing EXCEPT ![k] = 0]
  <1>1. n \in Nat
    BY <1>0, UnderwayIs
  <1>2. \/ table' = Plus(table, k, n) /\ Gone /\ UNCHANGED <<dropped, repeated>>
        \/ UNCHANGED <<table, repeated>> /\ UNCHANGED <<flushing, dropped>>
        \/ UNCHANGED <<table, repeated>> /\ Gone /\ dropped' = Plus(dropped, k, n)
        \/ /\ table' = Plus(table, k, n) /\ repeated' = Plus(repeated, k, n)
           /\ UNCHANGED <<flushing, dropped>>
        \/ /\ table' = Plus(table, k, n) /\ repeated' = Plus(repeated, k, n)
           /\ Gone /\ dropped' = Plus(dropped, k, n)
    BY DEF Upsert, Failed
  <1>3. Gone => /\ flushing' \in Counts
                /\ \A j \in Keys : flushing'[j] = IF j = k THEN 0 ELSE flushing[j]
    BY <1>0 DEF UTypeOK, Counts
  <1>a. \A f \in {table, dropped, repeated} :
            /\ Plus(f, k, n) \in Counts
            /\ \A j \in Keys : Plus(f, k, n)[j] = IF j = k THEN f[j] + flushing[j] ELSE f[j]
    <2>1. ASSUME NEW f \in Counts
          PROVE  /\ Plus(f, k, n) \in Counts
                 /\ \A j \in Keys : Plus(f, k, n)[j] = IF j = k THEN f[j] + flushing[j] ELSE f[j]
      BY <1>1, PlusFacts
    <2> QED
      BY <1>0, <2>1, Zenon DEF UTypeOK
  <1> HIDE DEF n, Gone
  <1>4. UTypeOK'
    BY <1>0, <1>2, <1>3, <1>a, Zenon DEF UTypeOK
  <1>5. ASSUME NEW j \in Keys
        PROVE  table'[j] + Underway'[j] + dropped'[j] = counts'[j] + repeated'[j]
    <2>1. table[j] + Underway[j] + dropped[j] = counts[j] + repeated[j]
      BY DEF UInv, CountsConserved
    <2>2. /\ Underway[j] = Total(channel)[j] + Total(batch)[j] + flushing[j]
          /\ Total(channel)[j] \in Nat /\ Total(batch)[j] \in Nat
          /\ counts[j] \in Nat /\ flushing[j] \in Nat /\ table[j] \in Nat
          /\ dropped[j] \in Nat /\ repeated[j] \in Nat
      BY <1>0, UnderwayIs
    <2>3. Underway'[j] = Total(channel)[j] + Total(batch)[j] + flushing'[j] /\ counts' = counts
      BY <1>0 DEF Underway
    <2>4. CASE j # k
      <3>1. /\ flushing'[j] = flushing[j] /\ table'[j] = table[j]
            /\ dropped'[j] = dropped[j] /\ repeated'[j] = repeated[j]
        BY <1>2, <1>3, <1>a, <2>4, Zenon
      <3> QED
        BY <2>1, <2>2, <2>3, <3>1
    <2>5. CASE j = k
      <3>1. /\ Gone => flushing'[j] = 0
            /\ Plus(table, k, n)[j] = table[j] + flushing[j]
            /\ Plus(dropped, k, n)[j] = dropped[j] + flushing[j]
            /\ Plus(repeated, k, n)[j] = repeated[j] + flushing[j]
        BY <1>3, <1>a, <2>5, Zenon
      <3>2. \/ /\ table'[j] = table[j] + flushing[j] /\ flushing'[j] = 0
               /\ dropped'[j] = dropped[j] /\ repeated'[j] = repeated[j]
            \/ /\ table'[j] = table[j] /\ flushing'[j] = flushing[j]
               /\ dropped'[j] = dropped[j] /\ repeated'[j] = repeated[j]
            \/ /\ table'[j] = table[j] /\ flushing'[j] = 0
               /\ dropped'[j] = dropped[j] + flushing[j] /\ repeated'[j] = repeated[j]
            \/ /\ table'[j] = table[j] + flushing[j] /\ flushing'[j] = flushing[j]
               /\ dropped'[j] = dropped[j] /\ repeated'[j] = repeated[j] + flushing[j]
            \/ /\ table'[j] = table[j] + flushing[j] /\ flushing'[j] = 0
               /\ dropped'[j] = dropped[j] + flushing[j]
               /\ repeated'[j] = repeated[j] + flushing[j]
        BY <1>2, <3>1
      <3> QED
        BY <2>1, <2>2, <2>3, <3>2
    <2> QED
      BY <2>4, <2>5
  <1> QED
    BY <1>4, <1>5 DEF UInv, CountsConserved

\* For any keys, amounts, capacities and numbers of attempts, what was counted is
\* in the table, under way or dropped, whatever order increments, batches, failed
\* attempts and the end of the server come in.
THEOREM CountsAreConserved == USpec => []CountsConserved
  <1>1. UInit => UInv
    <2> SUFFICES ASSUME UInit PROVE UInv
      OBVIOUS
    <2>1. None0 \in Counts /\ \A k \in Keys : None0[k] = 0
      BY DEF None0, Counts
    <2>2. UTypeOK
      BY <2>1 DEF UInit, UTypeOK
    <2>3. \A k \in Keys : Underway[k] = 0 + 0 + 0
      BY <2>1, TotalOfNone DEF UInit, Underway
    <2> QED
      BY <2>1, <2>2, <2>3 DEF UInit, UInv, CountsConserved
  <1>2. UInv /\ [UNext]_uvars => UInv'
    <2> SUFFICES ASSUME UInv, [UNext]_uvars PROVE UInv'
      OBVIOUS
    <2>1. CASE UNCHANGED uvars \/ ShutDown \/ Return \/ Kill
      BY <2>1 DEF uvars, ShutDown, Return, Kill, UInv, UTypeOK, CountsConserved, Underway
    <2>2. CASE \E k \in Keys, n \in Amounts : Increment(k, n)
      BY <2>2, IncrementKeeps
    <2>3. CASE FlushLoop
      BY <2>3, ReceiveKeeps, FlushKeeps, UpsertKeeps DEF FlushLoop
    <2> QED
      BY <2>1, <2>2, <2>3 DEF UNext
  <1>3. UInv => CountsConserved
    BY DEF UInv
  <1> QED
    BY <1>1, <1>2, <1>3, PTL DEF USpec
=============================================================================
