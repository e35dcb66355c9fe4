--------------------- MODULE ConsolidationWorkspaceProofs ---------------------
(***************************************************************************)
(* The promotion pass of one process, for any sources, texts and           *)
(* similarity, any pages and bounds, and any number of writes and          *)
(* interruptions: the stored cursor has passed nothing that is undecided,  *)
(* a promotion rests on sources that are there when it is committed, and   *)
(* the clusters are those of the reference, however the run that makes     *)
(* them is cut into pages and resumptions.                                 *)
(***************************************************************************)
EXTENDS ConsolidationWorkspace, FiniteSetTheorems, WellFoundedInduction, TLAPS

\* The gate of a process lets one run at a time into a namespace
\* (OneOwner of ConsolidationGate); two processes are another question.
OneRunner == \A p, q \in Runners : p = q

-----------------------------------------------------------------------------
(* Pages                                                                   *)

\* A set of numbers that is not empty has a least one.
LEMMA LeastNat ==
    ASSUME NEW S \in SUBSET Nat, S # {}
    PROVE  \E m \in S : \A n \in S : m <= n
  <1>1. PICK x \in S : \A y \in S : <<y, x>> \notin OpToRel(<, Nat)
    BY NatLessThanWellFounded, WFMin
  <1>2. \A y \in S : ~(y < x)
    BY <1>1 DEF OpToRel
  <1> QED
    BY <1>2

LEMMA MinOf ==
    ASSUME NEW S \in SUBSET Sources, S # {}
    PROVE  Min(S) \in S /\ \A s \in S : Min(S) <= s
  <1>1. S \in SUBSET Nat
    BY WorkspaceAssumption DEF Sources
  <1> QED
    BY <1>1, LeastNat DEF Min

LEMMA MaxOf ==
    ASSUME NEW S \in SUBSET Sources, S # {}
    PROVE  Max(S) \in S /\ \A s \in S : s <= Max(S)
  <1> DEFINE D == {N - s : s \in S}
  <1>1. N \in Nat /\ \A s \in S : s \in Nat /\ N - s \in Nat
    BY WorkspaceAssumption DEF Sources
  <1>2. PICK d \in D : \A e \in D : d <= e
    <2>1. D \in SUBSET Nat /\ D # {}
      BY <1>1
    <2> HIDE DEF D
    <2> QED
      BY <2>1, LeastNat
  <1>3. PICK m \in S : d = N - m
    BY <1>2
  <1>4. ASSUME NEW s \in S PROVE m >= s
    <2>1. N - m <= N - s
      BY <1>2, <1>3
    <2> QED
      BY <1>1, <2>1
  <1>5. Max(S) \in S /\ \A s \in S : Max(S) >= s
    BY <1>3, <1>4 DEF Max
  <1> QED
    BY <1>1, <1>5

LEMMA SourcesAreFinite == \A S \in SUBSET Sources : IsFiniteSet(S) /\ Cardinality(S) \in Nat
  <1>1. IsFiniteSet(Sources)
    BY WorkspaceAssumption, FS_Interval DEF Sources
  <1> QED
    BY <1>1, FS_Subset, FS_CardinalityType

\* How many elements come before one grows with it.
LEMMA CountBefore ==
    ASSUME NEW S \in SUBSET Sources, NEW s \in S, NEW t \in S, s < t
    PROVE  Cardinality({u \in S : u < s}) < Cardinality({u \in S : u < t})
  <1> DEFINE A == {u \in S : u < s}
             B == {u \in S : u < t}
  <1>1. \A u \in S : u \in Int
    BY WorkspaceAssumption DEF Sources
  <1>2. A \in SUBSET B /\ s \in B /\ s \notin A /\ B \in SUBSET Sources
    BY <1>1
  <1> HIDE DEF A, B
  <1>3. IsFiniteSet(B) /\ Cardinality(A) \in Nat /\ Cardinality(B) \in Nat
    BY <1>2, SourcesAreFinite
  <1>4. Cardinality(A) <= Cardinality(B) /\ (Cardinality(A) = Cardinality(B) => A = B)
    BY <1>2, <1>3, FS_Subset
  <1>5. Cardinality(A) < Cardinality(B)
    BY <1>2, <1>3, <1>4
  <1> QED
    BY <1>5 DEF A, B

\* A page and its next cursor part a set: what is not in the page comes after
\* the cursor, and what is in it does not.
LEMMA PageFacts ==
    ASSUME NEW S \in SUBSET Sources, NEW k \in Nat \ {0}
    PROVE  LET page == First(k, S)
               next == NextCursor(page, k)
           IN  /\ page \subseteq S
               /\ page = {} => S = {}
               /\ next \in 1 .. NoMore /\ (next = NoMore \/ next \in page)
               /\ \A s \in page : s <= next
               /\ \A s \in S : s \in page \/ s > next
  <1> DEFINE Before(s) == Cardinality({u \in S : u < s})
             P == First(k, S)
  <1>1. N \in Nat /\ \A s \in S : s \in 1 .. N
    BY WorkspaceAssumption DEF Sources
  <1>2. \A s \in S : Before(s) \in Nat
    <2>1. \A s \in S : {u \in S : u < s} \in SUBSET Sources
      OBVIOUS
    <2> QED
      BY <2>1, SourcesAreFinite
  <1>3. \A s, t \in S : s < t => Before(s) < Before(t)
    BY CountBefore
  <1>4. P = {s \in S : Before(s) < k}
    BY DEF First
  <1> HIDE DEF Before, P
  <1>5. P \in SUBSET Sources /\ IsFiniteSet(P) /\ Cardinality(P) \in Nat
    BY <1>4, SourcesAreFinite
  <1>6. P = {} => S = {}
    <2> SUFFICES ASSUME S # {} PROVE P # {}
      OBVIOUS
    <2>1. {u \in S : u < Min(S)} = {} /\ Min(S) \in S
      BY <1>1, MinOf
    <2>2. Before(Min(S)) = 0
      BY <2>1, FS_EmptySet DEF Before
    <2> QED
      BY <1>4, <2>1, <2>2
  <1>7. CASE Cardinality(P) = k
    <2>1. P # {}
      BY <1>7, FS_EmptySet
    <2>2. Max(P) \in P /\ \A s \in P : s <= Max(P)
      BY <1>5, <2>1, MaxOf
    <2>3. NextCursor(P, k) = Max(P)
      BY <1>7 DEF NextCursor
    <2>4. ASSUME NEW s \in S, s \notin P PROVE s > Max(P)
      <3>1. Before(Max(P)) < k /\ ~(Before(s) < k) /\ Max(P) \in S
        BY <1>4, <2>2, <2>4
      <3>2. ~(s < Max(P)) /\ s # Max(P)
        BY <1>2, <1>3, <2>2, <2>4, <3>1
      <3> QED
        BY <1>1, <3>1, <3>2
    <2> QED
      BY <1>1, <1>4, <1>6, <2>2, <2>3, <2>4 DEF P, NoMore
  <1>8. CASE Cardinality(P) # k
    <2>1. NextCursor(P, k) = NoMore
      BY <1>8 DEF NextCursor
    <2>2. S \subseteq P
      <3> DEFINE R == S \ P
      <3> SUFFICES ASSUME R # {} PROVE FALSE
        OBVIOUS
      <3>1. Min(R) \in R /\ \A s \in R : Min(R) <= s
        BY MinOf
      <3> DEFINE m == Min(R)
                 B == {u \in S : u < m}
      <3> HIDE DEF R, m
      <3>2. m \in S /\ m \notin P /\ \A s \in S \ P : m <= s
        BY <3>1 DEF R, m
      <3>3. B \in SUBSET P
        BY <1>1, <3>2
      <3>4. P \in SUBSET B
        <4>1. ASSUME NEW s \in P PROVE s < m
          <5>1. s \in S /\ Before(s) < k /\ ~(Before(m) < k) /\ s # m
            BY <1>4, <3>2
          <5>2. ~(m < s)
            BY <1>2, <1>3, <3>2, <5>1
          <5> QED
            BY <1>1, <3>2, <5>1, <5>2
        <4> QED
          BY <1>4, <4>1
      <3>5. Before(m) = Cardinality(P)
        BY <3>3, <3>4 DEF Before
      <3>6. Before(m) >= k
        BY <1>2, <1>4, <3>2
      <3>7. PICK x \in P : \A s \in P : s <= x
        <4>1. P # {}
          BY <1>6, <3>2
        <4> QED
          BY <4>1, <1>5, MaxOf
      \* The greatest of the page has one fewer before it than the page has.
      <3> DEFINE C == {u \in S : u < x}
      <3>8. C = P \ {x}
        <4>1. ASSUME NEW u \in S, u < x PROVE u \in P
          <5>1. Before(u) < Before(x) /\ Before(x) < k
            BY <1>3, <1>4, <4>1
          <5> QED
            BY <1>2, <1>4, <4>1, <5>1
        <4>2. ASSUME NEW u \in P, u # x PROVE u \in S /\ u < x
          BY <1>1, <1>4, <3>7, <4>2
        <4>3. ~(x < x)
          BY <1>1, <1>4
        <4> QED
          BY <4>1, <4>2, <4>3
      <3>9. Cardinality(P \ {x}) = Cardinality(P) - 1
        BY <1>5, FS_RemoveElement
      <3>10. Before(x) = Cardinality(P) - 1 /\ Before(x) < k
        BY <1>4, <3>8, <3>9 DEF Before
      <3>11. Cardinality(P) = k
        BY <1>5, <3>5, <3>6, <3>10
      <3> QED
        BY <1>8, <3>11
    <2> QED
      BY <1>1, <1>4, <1>6, <2>1, <2>2 DEF P, NoMore
  <1> QED
    BY <1>7, <1>8

-----------------------------------------------------------------------------
(* The workspace                                                           *)

Known == {s \in Sources : snap[s] # NoText}

Decided(s) == state[s] \in {"discarded", "promoted"}

\* The sources that a run still has to visit, in order.
Undecided == {s \in Known : ~Decided(s) /\ anchor[s] \in {0, s}}

Least(a) == a \in Undecided /\ \A o \in Undecided : a <= o

\* What is stored of a source: it is in the cluster of an earlier one, or of
\* itself, that is similar and shares its fate; a cluster that is not decided
\* is that of the least open source; and decisions are made in order.
Clustered(s) ==
    /\ anchor[s] = 0 <=> state[s] \in {"unassigned", "discarded"}
    /\ anchor[s] # 0 =>
          LET a == anchor[s]
          IN  /\ a <= s /\ s \in Known /\ a \in Known /\ anchor[a] = a
              /\ EntityOf[s] = EntityOf[a] /\ <<snap[a], snap[s]>> \in Similar
              /\ state[s] = "promoted" <=> state[a] = "promoted"
              /\ ~Decided(s) => \A o \in Undecided : a <= o
    /\ s \in Known /\ Decided(s) /\ anchor[s] = s => \A o \in Undecided : s < o
    /\ s \in Known /\ Decided(s) /\ anchor[s] = 0 => \A o \in Undecided : s < o

States == {"unassigned", "tentative", "finalized", "discarded", "promoted"}

\* What the rows of a workspace are, and with the cursor.
Rows ==
    /\ snap \in [Sources -> Texts \union {NoText}]
    /\ state \in [Sources -> States]
    /\ anchor \in [Sources -> 0 .. N]
    /\ \A s \in Sources : Clustered(s)

WorkspaceInv ==
    /\ text \in [Sources -> Texts \union {NoText}]
    /\ Rows
    /\ cursor \in 0 .. N
    /\ CursorCoversDecided

LEMMA Numbers == N \in Nat \ {0} /\ \A s \in Sources : s \in Nat /\ s # 0 /\ s \in 0 .. N
  BY WorkspaceAssumption DEF Sources

\* A source that is in a cluster that is not decided is in that of the least
\* open one.
LEMMA UndecidedCluster ==
    ASSUME Rows, NEW a, Least(a), NEW s \in Known, ~Decided(s), anchor[s] # 0
    PROVE  anchor[s] = a
  <1> DEFINE b == anchor[s]
  <1>1. s \in Sources /\ Clustered(s)
    BY DEF Rows, Known
  <1>2. b \in Known /\ anchor[b] = b /\ b # 0 /\ \A o \in Undecided : b <= o
    BY <1>1 DEF Clustered
  <1>3. b \in Sources /\ Clustered(b)
    BY <1>2 DEF Rows, Known
  <1>4. ~Decided(b)
    BY <1>1, <1>2, <1>3 DEF Clustered, Decided
  <1>5. b \in Undecided /\ b <= a /\ a <= b /\ a \in Sources
    BY <1>2, <1>4 DEF Undecided, Least, Known
  <1> QED
    BY <1>3, <1>5, Numbers

\* What is not decided up to the least open source is that source.
LEMMA DecidedBelow ==
    ASSUME Rows, NEW s \in Known, ~Decided(s), \A o \in Undecided : s <= o
    PROVE  s \in Undecided
  <1> SUFFICES ASSUME anchor[s] # 0, anchor[s] # s PROVE FALSE
    BY DEF Undecided
  <1> DEFINE b == anchor[s]
  <1>1. s \in Sources /\ Clustered(s)
    BY DEF Rows, Known
  <1>2. b \in Known /\ anchor[b] = b /\ b # 0 /\ b <= s
    BY <1>1 DEF Clustered
  <1>3. b \in Sources /\ Clustered(b)
    BY <1>2 DEF Rows, Known
  <1>4. ~Decided(b)
    BY <1>1, <1>2, <1>3 DEF Clustered, Decided
  <1>5. b \in Undecided /\ s <= b
    BY <1>2, <1>4 DEF Undecided
  <1> QED
    BY <1>1, <1>2, <1>3, <1>5, Numbers

\* Where nothing is open, everything is decided.
LEMMA NothingOpen ==
    ASSUME Rows, Undecided = {}, NEW s \in Known
    PROVE  Decided(s)
  BY DecidedBelow

\* A least open source, or a source in its cluster, is given to the cluster.
LEMMA AssignStep ==
    ASSUME Rows, NEW a, NEW m, Least(a),
           \/ m = a
           \/ /\ anchor[a] = a /\ m \in Known /\ a < m /\ state[m] = "unassigned"
              /\ EntityOf[m] = EntityOf[a] /\ <<snap[a], snap[m]>> \in Similar,
           snap' = snap,
           state' = [state EXCEPT ![m] = "tentative"],
           anchor' = [anchor EXCEPT ![m] = a]
    PROVE  /\ Rows' /\ Known' = Known
           /\ \A s \in Sources : Decided(s)' <=> Decided(s)
           /\ Undecided' = IF m = a THEN Undecided ELSE Undecided \ {m}
           /\ Least(a)' /\ anchor'[a] = a
  <1>1. a \in Sources /\ m \in Sources /\ a \in Known /\ m \in Known /\ a <= m
    BY Numbers DEF Least, Undecided, Known
  <1>2. ~Decided(a) /\ ~Decided(m) /\ anchor[a] \in {0, a} /\ anchor[m] \in {0, m}
    <2>1. ~Decided(a) /\ anchor[a] \in {0, a}
      BY DEF Least, Undecided
    <2>2. Clustered(m)
      BY <1>1 DEF Rows
    <2> QED
      BY <2>1, <2>2 DEF Clustered, Decided
  <1>3. /\ state'[m] = "tentative" /\ anchor'[m] = a
        /\ \A s \in Sources : s # m => state'[s] = state[s] /\ anchor'[s] = anchor[s]
    BY <1>1 DEF Rows
  <1>4. Known' = Known
    BY DEF Known
  <1>5. \A s \in Sources : Decided(s)' <=> Decided(s)
    BY <1>2, <1>3 DEF Decided
  <1>6. anchor'[a] = a
    BY <1>1, <1>3
  <1>7. Undecided' = IF m = a THEN Undecided ELSE Undecided \ {m}
    <2>1. a # 0 /\ m # 0 /\ m \in Undecided
      BY <1>1, <1>2, Numbers DEF Undecided
    <2>2. ASSUME NEW s \in Sources, s # m PROVE s \in Undecided' <=> s \in Undecided
      BY <1>3, <1>4, <1>5, <2>2 DEF Undecided
    <2>3. m \in Undecided' <=> m = a
      BY <1>1, <1>2, <1>3, <1>4, <1>5, <2>1 DEF Undecided
    <2>4. Undecided \subseteq Sources /\ Undecided' \subseteq Sources
      BY <1>4 DEF Undecided, Known
    <2> QED
      BY <2>1, <2>2, <2>3, <2>4
  <1>8. Least(a)'
    BY <1>7 DEF Least
  <1>9. ASSUME NEW s \in Sources PROVE Clustered(s)'
    <2>1. Clustered(s) /\ Clustered(a) /\ Undecided' \subseteq Undecided
      BY <1>1, <1>7 DEF Rows
    <2>2. CASE s = m
      <3>1. <<snap[a], snap[m]>> \in Similar
        <4>1. snap[a] \in Texts
          BY <1>1 DEF Rows, Known
        <4> QED
          BY <4>1, WorkspaceAssumption
      <3>2. a # 0 /\ EntityOf[m] = EntityOf[a] /\ anchor'[s] = a /\ state'[s] = "tentative"
        BY <1>1, <1>3, <2>2, Numbers
      <3>3. state'[a] # "promoted"
        BY <1>1, <1>2, <1>3 DEF Decided
      <3>4. /\ ~Decided(s)'
            /\ \A o \in Undecided' : a <= o
        BY <1>1, <1>2, <1>5, <2>1, <2>2 DEF Least
      <3> QED
        BY <1>1, <1>4, <1>6, <2>2, <3>1, <3>2, <3>3, <3>4 DEF Clustered
    <2>3. CASE s # m
      <3>1. anchor'[s] = anchor[s] /\ state'[s] = state[s] /\ (Decided(s)' <=> Decided(s))
        BY <1>3, <1>5, <2>3
      <3>2. ASSUME anchor[s] # 0
            PROVE  LET b == anchor[s]
                   IN  anchor'[b] = b /\ (state'[b] = "promoted" <=> state[b] = "promoted")
        <4> DEFINE b == anchor[s]
        <4>1. b \in Sources /\ anchor[b] = b /\ b # 0
          BY <2>1, <3>2 DEF Clustered, Known
        <4>2. b = m => m = a
          <5>1. Clustered(m)
            BY <1>1 DEF Rows
          <5> QED
            BY <4>1, <5>1 DEF Clustered
        <4>3. b = m => state[b] # "promoted"
          BY <1>2 DEF Decided
        <4> QED
          BY <1>3, <4>1, <4>2, <4>3
      <3> QED
        BY <1>4, <2>1, <3>1, <3>2 DEF Clustered
    <2> QED
      BY <2>2, <2>3
  <1>10. state' \in [Sources -> States] /\ anchor' \in [Sources -> 0 .. N]
    BY <1>1, Numbers DEF Rows, States
  <1> QED
    BY <1>4, <1>5, <1>6, <1>7, <1>8, <1>9, <1>10 DEF Rows

\* Sources of a cluster that is not decided are not decided.
LEMMA MembersFacts ==
    ASSUME Rows, NEW a, Least(a), anchor[a] = a
    PROVE  /\ a \in Members(a) /\ Members(a) \in SUBSET Known
           /\ \A s \in Members(a) : anchor[s] = a /\ ~Decided(s) /\ s \in Sources
  <1>1. a \in Known /\ a \in Sources /\ a # 0 /\ ~Decided(a)
    BY Numbers DEF Least, Undecided, Known
  <1>2. ASSUME NEW s \in Members(a) PROVE ~Decided(s)
    <2>1. s \in Sources /\ anchor[s] = a /\ Clustered(s)
      BY <1>2 DEF Members, Rows
    <2> QED
      BY <1>1, <2>1 DEF Clustered, Decided
  <1> QED
    BY <1>1, <1>2 DEF Members, Known

\* The members of the least open source are finalized or promoted together.
LEMMA MembersStep ==
    ASSUME Rows, NEW a, Least(a), anchor[a] = a, NEW v \in {"finalized", "promoted"},
           snap' = snap, anchor' = anchor,
           state' = [s \in Sources |-> IF s \in Members(a) THEN v ELSE state[s]]
    PROVE  /\ Rows' /\ Known' = Known
           /\ \A s \in Sources : Decided(s)' <=> Decided(s) \/ (v = "promoted" /\ s \in Members(a))
           /\ Undecided' = IF v = "promoted" THEN Undecided \ {a} ELSE Undecided
           /\ \A s \in Members(a) : state'[s] = v
  <1>1. a \in Members(a) /\ \A s \in Members(a) : anchor[s] = a /\ ~Decided(s) /\ s \in Sources
    BY MembersFacts
  <1>2. a \in Sources /\ a \in Undecided /\ \A o \in Undecided : a <= o
    BY <1>1 DEF Least
  <1>3. \A s \in Sources : state'[s] = IF s \in Members(a) THEN v ELSE state[s]
    OBVIOUS
  <1>4. Known' = Known
    BY DEF Known
  <1>5. \A s \in Sources : Decided(s)' <=> Decided(s) \/ (v = "promoted" /\ s \in Members(a))
    BY <1>1, <1>3 DEF Decided
  <1>6. Undecided' = IF v = "promoted" THEN Undecided \ {a} ELSE Undecided
    <2>1. \A s \in Members(a) : s # a => s \notin Undecided
      BY <1>1, <1>2, Numbers DEF Undecided
    <2>2. ASSUME NEW s \in Sources PROVE s \in Undecided' <=> s \in Undecided /\ ~(v = "promoted" /\ s \in Members(a))
      BY <1>4, <1>5 DEF Undecided
    <2>3. Undecided \in SUBSET Sources /\ Undecided' \in SUBSET Sources
      BY <1>4 DEF Undecided, Known
    <2> HIDE DEF Members
    <2> QED
      BY <1>1, <2>1, <2>2, <2>3
  <1>7. ASSUME NEW s \in Sources PROVE Clustered(s)'
    <2>1. Clustered(s) /\ Undecided' \subseteq Undecided
      BY <1>6 DEF Rows
    <2>2. CASE s \in Members(a)
      <3>1. anchor'[s] = a /\ anchor'[a] = a /\ state'[s] = v /\ state'[a] = v /\ a # 0
        BY <1>1, <1>2, <1>3, <2>2, Numbers
      <3>2. \A o \in Undecided' : a <= o
        BY <1>2, <2>1
      <3>3. v = "promoted" => \A o \in Undecided' : a < o
        <4>1. \A o \in Undecided : o \in Nat /\ a \in Nat
          BY <1>2, Numbers DEF Undecided, Known
        <4> QED
          BY <1>2, <1>6, <4>1
      <3>4. Decided(s)' => v = "promoted"
        BY <3>1 DEF Decided
      <3>5. s \in Known /\ a <= s /\ a \in Known /\ EntityOf[s] = EntityOf[a] /\ <<snap[a], snap[s]>> \in Similar
        BY <1>1, <2>1, <2>2, <3>1 DEF Clustered
      <3> HIDE DEF Members
      <3> QED
        BY <1>4, <3>1, <3>2, <3>3, <3>4, <3>5 DEF Clustered
    <2>3. CASE s \notin Members(a)
      <3>1. state'[s] = state[s] /\ anchor'[s] = anchor[s] /\ (Decided(s)' <=> Decided(s))
        BY <1>3, <1>5, <2>3
      <3>2. ASSUME anchor[s] # 0 PROVE state'[anchor[s]] = state[anchor[s]]
        <4> DEFINE b == anchor[s]
        <4>1. b \in Sources /\ anchor[b] = b /\ s \in Known
          BY <2>1, <3>2 DEF Clustered, Known
        <4>2. b \notin Members(a)
          BY <1>1, <2>3, <4>1 DEF Members, Known
        <4> QED
          BY <1>3, <4>1, <4>2
      <3> QED
        BY <1>4, <2>1, <3>1, <3>2 DEF Clustered
    <2> QED
      BY <2>2, <2>3
  <1>8. state' \in [Sources -> States]
    BY DEF Rows, States
  <1> QED
    BY <1>1, <1>3, <1>4, <1>5, <1>6, <1>7, <1>8 DEF Rows

\* The least open source is discarded when it is alone in its cluster.
LEMMA DiscardStep ==
    ASSUME Rows, NEW a, Least(a), anchor[a] = a, Members(a) = {a},
           snap' = snap,
           state' = [state EXCEPT ![a] = "discarded"], anchor' = [anchor EXCEPT ![a] = 0]
    PROVE  /\ Rows' /\ Known' = Known
           /\ \A s \in Sources : Decided(s)' <=> Decided(s) \/ s = a
           /\ Undecided' = Undecided \ {a}
  <1>1. a \in Sources /\ a \in Known /\ ~Decided(a) /\ \A o \in Undecided : a <= o
    BY Numbers DEF Least, Undecided, Known
  <1>2. /\ state'[a] = "discarded" /\ anchor'[a] = 0
        /\ \A s \in Sources : s # a => state'[s] = state[s] /\ anchor'[s] = anchor[s]
    BY <1>1 DEF Rows
  <1>3. Known' = Known
    BY DEF Known
  <1>4. \A s \in Sources : Decided(s)' <=> Decided(s) \/ s = a
    BY <1>2 DEF Decided
  <1>5. Undecided' = Undecided \ {a}
    <2>1. \A s \in Sources : s \in Undecided' <=> s \in Undecided /\ s # a
      BY <1>2, <1>3, <1>4 DEF Undecided
    <2>2. Undecided \in SUBSET Sources /\ Undecided' \in SUBSET Sources
      BY <1>3 DEF Undecided, Known
    <2> QED
      BY <2>1, <2>2
  <1>6. ASSUME NEW s \in Sources PROVE Clustered(s)'
    <2>1. Clustered(s) /\ Undecided' \subseteq Undecided
      BY <1>5 DEF Rows
    <2>2. CASE s = a
      <3>1. \A o \in Undecided' : s < o
        <4>1. \A o \in Undecided : o \in Nat /\ a \in Nat
          BY <1>1, Numbers DEF Undecided, Known
        <4> QED
          BY <1>1, <1>5, <2>2, <4>1
      <3> QED
        BY <1>2, <2>2, <3>1 DEF Clustered
    <2>3. CASE s # a
      <3>1. state'[s] = state[s] /\ anchor'[s] = anchor[s] /\ (Decided(s)' <=> Decided(s))
        BY <1>2, <1>4, <2>3
      <3>2. ASSUME anchor[s] # 0
            PROVE  state'[anchor[s]] = state[anchor[s]] /\ anchor'[anchor[s]] = anchor[anchor[s]]
        <4>1. s \in Known /\ anchor[s] \in Sources
          BY <2>1, <3>2 DEF Clustered, Known
        <4>2. anchor[s] # a
          BY <2>3, <4>1 DEF Members, Known
        <4> QED
          BY <1>2, <4>1, <4>2
      <3> QED
        BY <1>3, <2>1, <3>1, <3>2 DEF Clustered
    <2> QED
      BY <2>2, <2>3
  <1>7. state' \in [Sources -> States] /\ anchor' \in [Sources -> 0 .. N]
    BY <1>1, Numbers DEF Rows, States
  <1> QED
    BY <1>3, <1>4, <1>5, <1>6, <1>7 DEF Rows

\* A new snapshot has no clusters and nothing decided.
LEMMA FreshRows ==
    ASSUME NEW f \in [Sources -> Texts \union {NoText}], snap' = f,
           state' = [s \in Sources |-> "unassigned"], anchor' = [s \in Sources |-> 0]
    PROVE  Rows' /\ \A s \in Sources : ~Decided(s)' /\ anchor'[s] = 0
  BY Numbers DEF Rows, States, Clustered, Decided

LEMMA SameRows ==
    ASSUME snap' = snap, state' = state, anchor' = anchor
    PROVE  /\ Rows' <=> Rows
           /\ Known' = Known /\ Undecided' = Undecided
           /\ \A s : Decided(s)' <=> Decided(s)
           /\ \A a : Members(a)' = Members(a)
  BY DEF Rows, Known, Undecided, Decided, Members, Clustered

-----------------------------------------------------------------------------
(* The run                                                                 *)

InLoop == {"source", "load", "scan", "match", "finalize", "commit", "checkpoint"}
AtCluster == {"load", "scan", "match", "finalize", "commit"}

Resting == [pc : {"off", "begun"}]

Paging ==
    [pc : {"paging", "source", "load", "checkpoint", "complete"},
     after : -1 .. NoMore, cursor : 0 .. N, page : SUBSET Sources]

Scanning ==
    [pc : {"scan", "match", "finalize", "checkpoint"},
     after : -1 .. NoMore, cursor : 0 .. N, page : SUBSET Sources,
     vector : Texts, scanned : 0 .. NoMore, similar : SUBSET Sources]

Committing ==
    [pc : {"commit"}, after : -1 .. NoMore, cursor : 0 .. N, page : SUBSET Sources,
     object : Texts \union {NoText}, provenance : SUBSET Sources]

Records == Resting \union Paging \union Scanning \union Committing

\* What a run that is in its loop holds: a page with the least open source in
\* front, behind which everything open is, and the rest after it.
PageKnows(q) ==
    LET a == Min(q.page)
    IN  /\ q.page # {} /\ q.page \subseteq Known
        /\ q.after \in 1 .. NoMore
        /\ \A s \in q.page : s <= q.after
        /\ \A s \in Undecided : s \in q.page \/ s > q.after
        /\ \A s \in q.page \ {a} : anchor[s] \in {0, s} => ~Decided(s)
        /\ q.pc = "source" => (anchor[a] \in {0, a} => ~Decided(a))
        /\ q.pc \in AtCluster => anchor[a] = a /\ ~Decided(a)
        /\ q.pc = "checkpoint" => Decided(a)

\* What it has read of the candidates of its anchor.
ScanKnows(q) ==
    LET a == Min(q.page)
    IN  /\ q.vector = snap[a] /\ a <= q.scanned
        /\ \A m \in q.similar :
               /\ m \in Known /\ a < m /\ state[m] = "unassigned"
               /\ EntityOf[m] = EntityOf[a] /\ <<snap[a], snap[m]>> \in Similar
        /\ q.pc = "scan" <=> q.similar = {}

\* What it is about to commit.
CommitKnows(q) ==
    LET members == Members(Min(q.page))
    IN  /\ q.provenance = members /\ Cardinality(members) >= 2
        /\ \A s \in members : state[s] = "finalized"

Knows(q) ==
    /\ q.pc \notin {"off", "begun"} => q.cursor = cursor
    /\ q.pc = "paging" => \A s \in Undecided : s > (IF q.after = Stored THEN cursor ELSE q.after)
    /\ q.pc \in InLoop => PageKnows(q)
    /\ q.pc \in {"scan", "match"} => ScanKnows(q)
    /\ q.pc = "commit" => CommitKnows(q)
    /\ q.pc = "complete" => Undecided = {}

PassInv == WorkspaceInv /\ run \in [Runners -> Records] /\ \A r \in Runners : Knows(run[r])

-----------------------------------------------------------------------------

\* The step of the only run is that of its record.
LEMMA OnlyRun ==
    ASSUME OneRunner, run \in [Runners -> Records], NEW r \in Runners, NEW q \in Records,
           run' = [run EXCEPT ![r] = q], Knows(q)'
    PROVE  run' \in [Runners -> Records] /\ \A p \in Runners : Knows(run[p])'
  <1>1. run'[r] = q /\ \A p \in Runners : p = r
    BY DEF OneRunner
  <1>2. \A p \in Runners : run'[p] = q
    BY <1>1
  <1>3. \A p \in Runners : Knows(run[p])'
    BY <1>2 DEF Knows, PageKnows, ScanKnows, CommitKnows
  <1> QED
    BY <1>1, <1>3

\* A run that has returned knows nothing.
LEMMA Returned ==
    ASSUME OneRunner, run \in [Runners -> Records], NEW r \in Runners, Return(r)
    PROVE  run' \in [Runners -> Records] /\ \A p \in Runners : Knows(run[p])'
  <1> PICK q : q = Off
    OBVIOUS
  <1>1. q \in Records /\ q.pc = "off"
    BY DEF Off, Records, Resting
  <1>2. Knows(q)'
    BY <1>1 DEF Knows, InLoop
  <1>3. run' = [run EXCEPT ![r] = q]
    BY DEF Return
  <1> QED
    BY <1>1, <1>2, <1>3, OnlyRun

LEMMA SameKnowledge ==
    ASSUME snap' = snap, state' = state, anchor' = anchor, cursor' = cursor, NEW q
    PROVE  /\ Knows(q) <=> Knows(q)'
           /\ PageKnows(q) <=> PageKnows(q)'
           /\ ScanKnows(q) <=> ScanKnows(q)'
           /\ CommitKnows(q) <=> CommitKnows(q)'
  BY DEF Knows, PageKnows, ScanKnows, CommitKnows, Undecided, Known, Decided, Members

\* The shape of the record of a run.
LEMMA Shapes ==
    ASSUME NEW q \in Records
    PROVE  /\ q.pc \in {"paging", "source", "load", "complete"} => q \in Paging
           /\ q.pc \in {"scan", "match", "finalize"} => q \in Scanning
           /\ q.pc = "commit" => q \in Committing
           /\ q.pc \in InLoop \union {"paging", "complete"} =>
                  /\ q.after \in -1 .. NoMore /\ q.cursor \in 0 .. N /\ q.page \in SUBSET Sources
  BY DEF Records, Resting, Paging, Scanning, Committing, InLoop

\* Nothing open comes before the anchor, and the anchor of a cluster is open.
LEMMA AnchorFacts ==
    ASSUME PassInv, NEW r \in Runners, run[r].pc \in InLoop
    PROVE  LET a == Anchor(r)
           IN  /\ a = Min(run[r].page)
               /\ a \in run[r].page /\ a \in Known /\ a \in Sources
               /\ \A s \in run[r].page : a <= s
               /\ \A o \in Undecided : a <= o
               /\ PageKnows(run[r])
               /\ run[r].pc \in AtCluster => Least(a) /\ anchor[a] = a
  <1> DEFINE q == run[r]
             a == Min(q.page)
  <1>1. q \in Records /\ Knows(q) /\ a = Anchor(r)
    BY DEF PassInv, Anchor
  <1>2. PageKnows(q) /\ q.page \in SUBSET Sources
    BY <1>1, Shapes DEF Knows
  <1>3. q.page # {} /\ q.page \subseteq Known /\ q.after \in Int
    BY <1>2 DEF PageKnows
  <1>4. a \in q.page /\ \A s \in q.page : a <= s
    BY <1>2, <1>3, MinOf
  <1>5. a \in Known /\ a \in Sources
    BY <1>2, <1>3, <1>4
  <1>6. ASSUME NEW o \in Undecided PROVE a <= o
    <2>1. o \in q.page \/ o > q.after
      BY <1>2 DEF PageKnows
    <2>2. a <= q.after /\ o \in Sources
      BY <1>2, <1>4 DEF PageKnows, Undecided, Known
    <2> QED
      BY <1>3, <1>4, <1>5, <2>1, <2>2, Numbers
  <1>7. q.pc \in AtCluster => Least(a) /\ anchor[a] = a
    <2>1. q.pc \in AtCluster => anchor[a] = a /\ ~Decided(a)
      BY <1>2 DEF PageKnows
    <2> QED
      BY <1>5, <1>6, <2>1 DEF Least, Undecided
  <1> QED
    BY <1>1, <1>2, <1>4, <1>5, <1>6, <1>7

\* A step of the workspace that takes no decision back.
LEMMA WorkspaceStep ==
    ASSUME WorkspaceInv, Rows', text' = text, snap' = snap, cursor' = cursor,
           \A s \in Sources : Decided(s) => Decided(s)'
    PROVE  WorkspaceInv'
  BY DEF WorkspaceInv, CursorCoversDecided, Decided

\* A step that leaves the workspace alone.
LEMMA WorkspaceStays ==
    ASSUME WorkspaceInv, text' = text, snap' = snap, state' = state, anchor' = anchor, cursor' = cursor
    PROVE  WorkspaceInv'
  BY SameRows, WorkspaceStep DEF WorkspaceInv

\* The run ends, with or without a checkpoint.
LEMMA ReturnStep ==
    ASSUME OneRunner, PassInv, NEW r \in Runners, Return(r),
           text' = text, snap' = snap, state' = state, anchor' = anchor,
           cursor' = cursor \/ (cursor' = run[r].cursor /\ run[r].pc \notin {"off", "begun"})
    PROVE  PassInv'
  <1>1. cursor' = cursor
    BY DEF PassInv, Knows
  <1> QED
    BY <1>1, Returned, WorkspaceStays DEF PassInv

LEMMA RebuildStep ==
    ASSUME WorkspaceInv, Rebuild, text' = text
    PROVE  WorkspaceInv'
  <1> PICK f : f = [s \in Sources |-> Current(s)]
    OBVIOUS
  <1>1. f \in [Sources -> Texts \union {NoText}]
    BY DEF Current, WorkspaceInv
  <1>2. Rows'
    BY <1>1, FreshRows DEF Rebuild
  <1>3. cursor' = 0
    BY DEF Rebuild
  <1>4. \A s \in Sources : ~(s <= 0)
    BY Numbers
  <1> QED
    BY <1>2, <1>3, <1>4, Numbers DEF WorkspaceInv, CursorCoversDecided

LEMMA BeginStep ==
    ASSUME OneRunner, PassInv, NEW r \in Runners, Begin(r)
    PROVE  PassInv'
  <1> PICK q : q = [pc |-> "begun"]
    OBVIOUS
  <1>1. q \in Records /\ q.pc = "begun"
    BY DEF Records, Resting
  <1>2. Knows(q)'
    BY <1>1 DEF Knows, InLoop
  <1>3. run' = [run EXCEPT ![r] = q] /\ text' = text
    BY DEF Begin, sourceVars
  <1>4. WorkspaceInv'
    <2>1. CASE Rebuild
      BY <1>3, <2>1, RebuildStep DEF PassInv
    <2>2. CASE cursor' = 0 /\ UNCHANGED <<snap, state, anchor, disturbed>>
      <3>1. \A s \in Sources : ~(s <= 0)
        BY Numbers
      <3> QED
        BY <1>3, <2>2, <3>1, SameRows, Numbers DEF WorkspaceInv, PassInv, CursorCoversDecided
    <2>3. CASE UNCHANGED <<workspaceVars, disturbed>>
      BY <1>3, <2>3, WorkspaceStays DEF PassInv, workspaceVars
    <2> QED
      BY <2>1, <2>2, <2>3 DEF Begin
  <1>5. run \in [Runners -> Records]
    BY DEF PassInv
  <1>6. run' \in [Runners -> Records] /\ \A p \in Runners : Knows(run[p])'
    BY <1>1, <1>2, <1>3, <1>5, OnlyRun
  <1> QED
    BY <1>4, <1>6 DEF PassInv

LEMMA ReadCursorStep ==
    ASSUME OneRunner, PassInv, NEW r \in Runners, ReadCursor(r)
    PROVE  PassInv'
  <1> PICK q : q = [pc |-> "paging", after |-> Stored, cursor |-> cursor, page |-> {}]
    OBVIOUS
  <1>1. q \in Paging /\ q.pc = "paging" /\ q.after = Stored /\ q.cursor = cursor
    BY Numbers DEF Paging, Stored, NoMore, PassInv, WorkspaceInv
  <1>2. /\ run' = [run EXCEPT ![r] = q] /\ text' = text
        /\ snap' = snap /\ state' = state /\ anchor' = anchor /\ cursor' = cursor
    BY DEF ReadCursor, sourceVars, workspaceVars
  <1>3. \A s \in Undecided : s > cursor
    <2>1. ASSUME NEW s \in Undecided PROVE ~(s <= cursor)
      BY DEF PassInv, WorkspaceInv, CursorCoversDecided, Undecided, Known, Decided
    <2> QED
      BY <2>1, Numbers DEF Undecided, Known, PassInv, WorkspaceInv
  <1>4. Knows(q)
    BY <1>1, <1>3 DEF Knows, InLoop
  <1>5. Knows(q)' /\ WorkspaceInv'
    BY <1>2, <1>4, SameKnowledge, WorkspaceStays DEF PassInv
  <1>6. q \in Records /\ run \in [Runners -> Records]
    BY <1>1 DEF Records, PassInv
  <1>7. run' \in [Runners -> Records] /\ \A p \in Runners : Knows(run[p])'
    BY <1>2, <1>5, <1>6, OnlyRun
  <1> QED
    BY <1>5, <1>7 DEF PassInv

LEMMA NextPageStep ==
    ASSUME OneRunner, PassInv, NEW r \in Runners, NextPage(r)
    PROVE  PassInv'
  <1> DEFINE from == IF run[r].after = Stored THEN cursor ELSE run[r].after
             S == {s \in Sources : /\ snap[s] # NoText /\ s > from
                                   /\ state[s] \notin {"discarded", "promoted"}
                                   /\ anchor[s] \in {0, s}}
             page == First(SourcePage, S)
             next == NextCursor(page, SourcePage)
             pc == IF page = {} THEN "complete" ELSE "source"
  <1>1. run[r] \in Records /\ Knows(run[r]) /\ run[r].pc = "paging"
    BY DEF NextPage, At, PassInv
  <1>2. S = Undecided
    <2>1. \A s \in Undecided : s > from
      BY <1>1 DEF Knows
    <2> QED
      BY <2>1 DEF Undecided, Known, Decided
  <1> HIDE DEF from
  <1>3. /\ page \subseteq S
        /\ page = {} => S = {}
        /\ next \in 1 .. NoMore
        /\ \A s \in page : s <= next
        /\ \A s \in S : s \in page \/ s > next
    <2>1. S \in SUBSET Sources /\ SourcePage \in Nat \ {0}
      BY WorkspaceAssumption
    <2> HIDE DEF S
    <2> QED
      BY <2>1, PageFacts
  <1>4. run' = [run EXCEPT ![r] = [run[r] EXCEPT !.page = page, !.after = next, !.pc = pc]]
    BY DEF NextPage, from
  <1> HIDE DEF S, page, next
  <1> PICK q : q = [run[r] EXCEPT !.page = page, !.after = next, !.pc = pc]
    OBVIOUS
  <1>5. q \in Paging /\ q.page = page /\ q.after = next /\ q.pc = pc /\ q.cursor = run[r].cursor
    <2>1. run[r] \in Paging
      BY <1>1, Shapes
    <2>2. page \in SUBSET Sources /\ next \in -1 .. NoMore
      BY <1>2, <1>3, Numbers DEF Undecided, Known, NoMore
    <2>3. pc \in {"complete", "source"}
      OBVIOUS
    <2> HIDE DEF pc
    <2> QED
      BY <2>1, <2>2, <2>3 DEF Paging
  <1>6. Knows(q)
    <2>1. q.cursor = cursor
      BY <1>1, <1>5 DEF Knows
    <2>2. CASE page = {}
      BY <1>2, <1>3, <1>5, <2>1, <2>2 DEF Knows, InLoop
    <2>3. CASE page # {}
      <3>1. q.pc = "source"
        BY <1>5, <2>3
      <3>2. \A s \in q.page : s \in Undecided
        BY <1>2, <1>3, <1>5
      <3>3. q.page # {} /\ Min(q.page) \in q.page
        <4>1. q.page \in SUBSET Sources /\ q.page # {}
          BY <1>5, <2>3 DEF Paging
        <4> QED
          BY <4>1, MinOf
      <3>4. \A s \in q.page : s \in Known /\ ~Decided(s)
        BY <3>2 DEF Undecided
      <3>5. PageKnows(q)
        BY <1>2, <1>3, <1>5, <3>1, <3>3, <3>4 DEF PageKnows, AtCluster
      <3> QED
        BY <2>1, <3>1, <3>5 DEF Knows
    <2> QED
      BY <2>2, <2>3
  <1>7. /\ run' = [run EXCEPT ![r] = q] /\ text' = text
        /\ snap' = snap /\ state' = state /\ anchor' = anchor /\ cursor' = cursor
    BY <1>4 DEF NextPage, sourceVars, workspaceVars
  <1>8. Knows(q)' /\ WorkspaceInv'
    BY <1>6, <1>7, SameKnowledge, WorkspaceStays DEF PassInv
  <1>9. q \in Records /\ run \in [Runners -> Records]
    BY <1>5 DEF Records, PassInv
  <1>10. run' \in [Runners -> Records] /\ \A p \in Runners : Knows(run[p])'
    BY <1>7, <1>8, <1>9, OnlyRun
  <1> QED
    BY <1>8, <1>10 DEF PassInv

LEMMA TakeSourceStep ==
    ASSUME OneRunner, PassInv, NEW r \in Runners, TakeSource(r)
    PROVE  PassInv'
  <1> DEFINE a == Anchor(r)
             pc == IF Matches(a, a) THEN "load" ELSE "checkpoint"
  <1>1. run[r] \in Paging /\ Knows(run[r]) /\ run[r].pc = "source"
    BY Shapes DEF TakeSource, At, PassInv
  <1>2. /\ a = Min(run[r].page) /\ a \in run[r].page /\ a \in Known /\ a \in Sources
        /\ \A o \in Undecided : a <= o
        /\ PageKnows(run[r])
    BY <1>1, AnchorFacts DEF InLoop
  <1>3. run' = [run EXCEPT ![r] = [run[r] EXCEPT !.pc = pc]]
    BY DEF TakeSource
  <1> HIDE DEF a
  <1> PICK q : q = [run[r] EXCEPT !.pc = pc]
    OBVIOUS
  <1>4. q \in Paging /\ q.page = run[r].page /\ q.after = run[r].after /\ q.pc = pc /\ q.cursor = run[r].cursor
    <2>1. pc \in {"load", "checkpoint"}
      OBVIOUS
    <2> HIDE DEF pc
    <2> QED
      BY <1>1, <2>1 DEF Paging
  <1>5. text' = text /\ snap' = snap /\ cursor' = cursor /\ RecordMatch(a, a)
    BY DEF TakeSource, sourceVars, a
  <1>6. Rows /\ Clustered(a)
    BY <1>2 DEF PassInv, WorkspaceInv, Rows
  <1>7. CASE Matches(a, a)
    <2>1. state' = [state EXCEPT ![a] = "tentative"] /\ anchor' = [anchor EXCEPT ![a] = a]
      BY <1>5, <1>7 DEF RecordMatch
    <2>2. anchor[a] \in {0, a}
      BY <1>6, <1>7 DEF Matches, Clustered
    <2>3. ~Decided(a)
      BY <1>1, <1>2, <2>2 DEF PageKnows
    <2>4. Least(a)
      BY <1>2, <2>2, <2>3 DEF Least, Undecided
    <2>5. /\ Rows' /\ Known' = Known
          /\ \A s \in Sources : Decided(s)' <=> Decided(s)
          /\ Undecided' = Undecided
          /\ anchor'[a] = a
      BY <1>5, <1>6, <2>1, <2>4, AssignStep
    <2>6. \A s \in Sources : s # a => anchor'[s] = anchor[s]
      BY <1>6, <2>1 DEF Rows
    <2>7. q.pc = "load"
      BY <1>4, <1>7
    <2>8. PageKnows(q)'
      <3>1. \A s \in q.page : s \in Sources
        BY <1>4 DEF Paging
      <3> QED
        BY <1>2, <1>4, <2>3, <2>5, <2>6, <2>7, <3>1 DEF PageKnows, AtCluster
    <2>9. Knows(q)'
      BY <1>1, <1>4, <1>5, <2>7, <2>8 DEF Knows
    <2>10. WorkspaceInv'
      BY <1>5, <2>5, WorkspaceStep DEF PassInv
    <2> QED
      BY <1>3, <1>4, <2>9, <2>10, OnlyRun DEF PassInv, Records
  <1>8. CASE ~Matches(a, a)
    <2>1. state' = state /\ anchor' = anchor
      <3>1. state \in [Sources -> States] /\ anchor \in [Sources -> 0 .. N]
        BY <1>6 DEF Rows
      <3> QED
        BY <1>2, <1>5, <1>8, <3>1 DEF RecordMatch
    <2>2. Decided(a)
      <3>1. state[a] # "unassigned" /\ anchor[a] # a
        BY <1>2, <1>8 DEF Matches, Known
      <3>2. anchor[a] = 0 => Decided(a)
        BY <1>6, <3>1 DEF Clustered, Decided
      <3>3. a \in Undecided => FALSE
        BY <3>1, <3>2 DEF Undecided
      <3> QED
        BY <1>2, <1>6, <3>3, DecidedBelow
    <2>3. q.pc = "checkpoint"
      BY <1>4, <1>8
    <2>4. PageKnows(q)
      BY <1>2, <1>4, <2>2, <2>3 DEF PageKnows, AtCluster
    <2>5. Knows(q)
      BY <1>1, <1>4, <2>3, <2>4 DEF Knows
    <2>6. Knows(q)' /\ WorkspaceInv'
      BY <1>5, <2>1, <2>5, SameKnowledge, WorkspaceStays DEF PassInv
    <2> QED
      BY <1>3, <1>4, <2>6, OnlyRun DEF PassInv, Records
  <1> QED
    BY <1>7, <1>8

LEMMA LoadStep ==
    ASSUME OneRunner, PassInv, NEW r \in Runners, LoadAnchor(r)
    PROVE  PassInv'
  <1> DEFINE a == Anchor(r)
  <1>1. run[r] \in Paging /\ Knows(run[r]) /\ run[r].pc = "load"
    BY Shapes DEF LoadAnchor, At, PassInv
  <1>2. /\ a = Min(run[r].page) /\ a \in Known /\ a \in Sources /\ anchor[a] = a /\ Least(a)
        /\ PageKnows(run[r])
    BY <1>1, AnchorFacts DEF InLoop, AtCluster
  <1> HIDE DEF a
  <1>3. text' = text /\ snap' = snap /\ state' = state /\ anchor' = anchor /\ cursor' = cursor
    BY DEF LoadAnchor, Fail, sourceVars, workspaceVars
  <1>4. CASE Return(r)
    BY <1>3, <1>4, ReturnStep
  <1>5. CASE ~Return(r)
    <2> PICK q : q = [pc |-> "scan", after |-> run[r].after, cursor |-> run[r].cursor, page |-> run[r].page,
                      vector |-> snap[a], scanned |-> a, similar |-> {}]
      OBVIOUS
    <2>1. run' = [run EXCEPT ![r] = q]
      BY <1>5 DEF LoadAnchor, Fail, a
    <2>2. /\ q \in Scanning /\ q.pc = "scan" /\ q.after = run[r].after /\ q.cursor = run[r].cursor
          /\ q.page = run[r].page /\ q.vector = snap[a] /\ q.scanned = a /\ q.similar = {}
      <3>1. snap[a] \in Texts
        BY <1>2 DEF Known, PassInv, WorkspaceInv, Rows
      <3>2. a \in 0 .. NoMore
        BY <1>2, Numbers DEF NoMore
      <3> QED
        BY <1>1, <3>1, <3>2 DEF Paging, Scanning
    <2>3. PageKnows(q)
      BY <1>1, <1>2, <2>2 DEF PageKnows, AtCluster
    <2>4. ScanKnows(q)
      BY <1>2, <2>2, Numbers DEF ScanKnows
    <2>5. Knows(q)
      BY <1>1, <2>2, <2>3, <2>4 DEF Knows
    <2>6. Knows(q)' /\ WorkspaceInv'
      BY <1>3, <2>5, SameKnowledge, WorkspaceStays DEF PassInv
    <2> QED
      BY <2>1, <2>2, <2>6, OnlyRun DEF PassInv, Records
  <1> QED
    BY <1>4, <1>5

LEMMA ScanStep ==
    ASSUME OneRunner, PassInv, NEW r \in Runners, ScanCandidates(r)
    PROVE  PassInv'
  <1> DEFINE a == Anchor(r)
             S == {s \in Sources : /\ EntityOf[s] = EntityOf[a] /\ s > run[r].scanned
                                   /\ state[s] = "unassigned" /\ Intact(s)}
             page == First(CandidatePage, S)
             similar == {s \in page : <<run[r].vector, snap[s]>> \in Similar}
             next == NextCursor(page, CandidatePage)
             pc == CASE similar # {} -> "match"
                     [] similar = {} /\ next # NoMore -> "scan"
                     [] OTHER -> "finalize"
  <1>1. run[r] \in Scanning /\ Knows(run[r]) /\ run[r].pc = "scan"
    BY Shapes DEF ScanCandidates, At, PassInv
  <1>2. /\ a = Min(run[r].page) /\ a \in Known /\ a \in Sources /\ anchor[a] = a /\ Least(a)
        /\ PageKnows(run[r]) /\ ScanKnows(run[r])
    BY <1>1, AnchorFacts DEF InLoop, AtCluster, Knows
  <1> HIDE DEF a
  <1>3. text' = text /\ snap' = snap /\ state' = state /\ anchor' = anchor /\ cursor' = cursor
    BY DEF ScanCandidates, Fail, sourceVars, workspaceVars
  <1>4. CASE Return(r)
    BY <1>3, <1>4, ReturnStep
  <1>5. CASE ~Return(r)
    <2>1. /\ page \subseteq S
          /\ next \in 1 .. NoMore /\ (next = NoMore \/ next \in page)
      <3>1. S \in SUBSET Sources /\ CandidatePage \in Nat \ {0}
        BY WorkspaceAssumption
      <3> HIDE DEF S
      <3> QED
        BY <3>1, PageFacts
    <2>2. /\ similar \subseteq S /\ \A s \in similar : <<run[r].vector, snap[s]>> \in Similar
          /\ S \subseteq Sources
      BY <2>1
    <2>3. ASSUME NEW s \in S PROVE a < s /\ s \in Known /\ state[s] = "unassigned" /\ EntityOf[s] = EntityOf[a]
      <3>1. a <= run[r].scanned /\ run[r].scanned \in Int /\ s > run[r].scanned /\ s \in Sources
        BY <1>1, <1>2, Numbers DEF ScanKnows, Scanning, NoMore
      <3> QED
        BY <1>2, <3>1, Numbers DEF Intact, Known
    <2>4. run' = [run EXCEPT ![r] = [run[r] EXCEPT !.similar = similar, !.scanned = next, !.pc = pc]]
      BY <1>5 DEF ScanCandidates, Fail, a
    <2>5. pc \in {"match", "scan", "finalize"} /\ (pc = "match" <=> similar # {})
      OBVIOUS
    <2>6. a <= next
      BY <1>2, <2>1, <2>3, Numbers DEF NoMore
    <2> HIDE DEF S, page, similar, next, pc
    <2> PICK q : q = [run[r] EXCEPT !.similar = similar, !.scanned = next, !.pc = pc]
      OBVIOUS
    <2>7. /\ q \in Scanning /\ q.pc = pc /\ q.after = run[r].after /\ q.cursor = run[r].cursor
          /\ q.page = run[r].page /\ q.vector = run[r].vector /\ q.scanned = next /\ q.similar = similar
      <3>1. next \in 0 .. NoMore /\ similar \in SUBSET Sources
        BY <2>1, <2>2, Numbers DEF NoMore
      <3> QED
        BY <1>1, <2>5, <3>1 DEF Scanning
    <2>8. PageKnows(q)
      BY <1>1, <1>2, <2>5, <2>7 DEF PageKnows, AtCluster
    <2>9. pc # "finalize" => ScanKnows(q)
      BY <1>2, <2>2, <2>3, <2>5, <2>6, <2>7 DEF ScanKnows
    <2>10. Knows(q)
      BY <1>1, <2>5, <2>7, <2>8, <2>9 DEF Knows
    <2>11. Knows(q)' /\ WorkspaceInv'
      BY <1>3, <2>10, SameKnowledge, WorkspaceStays DEF PassInv
    <2> QED
      BY <2>4, <2>7, <2>11, OnlyRun DEF PassInv, Records
  <1> QED
    BY <1>4, <1>5

\* What the least similar candidate is when it is matched.
LEMMA MatchFacts ==
    ASSUME PassInv, NEW r \in Runners, MatchCandidate(r)
    PROVE  LET a == Anchor(r)
               m == Min(run[r].similar)
           IN  /\ m \in run[r].similar /\ m \in Known /\ m \in Sources
               /\ a < m /\ state[m] = "unassigned"
               /\ EntityOf[m] = EntityOf[a] /\ <<snap[a], snap[m]>> \in Similar
               /\ Matches(a, m)
               /\ state' = [state EXCEPT ![m] = "tentative"]
               /\ anchor' = [anchor EXCEPT ![m] = a]
  <1> DEFINE a == Anchor(r)
             m == Min(run[r].similar)
  <1>1. run[r] \in Scanning /\ Knows(run[r]) /\ run[r].pc = "match"
    BY Shapes DEF MatchCandidate, At, PassInv
  <1>2. a = Min(run[r].page) /\ ScanKnows(run[r])
    BY <1>1 DEF Anchor, Knows
  <1>3. run[r].similar # {} /\ run[r].similar \in SUBSET Sources
    BY <1>1, <1>2 DEF ScanKnows, Scanning
  <1>4. m \in run[r].similar
    BY <1>3, MinOf
  <1>5. RecordMatch(a, m)
    BY DEF MatchCandidate
  <1> HIDE DEF a, m
  <1>6. /\ m \in Known /\ a < m /\ state[m] = "unassigned"
        /\ EntityOf[m] = EntityOf[a] /\ <<snap[a], snap[m]>> \in Similar
    BY <1>2, <1>4 DEF ScanKnows
  <1>7. Matches(a, m)
    BY <1>6 DEF Matches, Known
  <1>8. state' = [state EXCEPT ![m] = "tentative"] /\ anchor' = [anchor EXCEPT ![m] = a]
    BY <1>5, <1>7 DEF RecordMatch
  <1> QED
    BY <1>3, <1>4, <1>6, <1>7, <1>8 DEF a, m

LEMMA MatchStep ==
    ASSUME OneRunner, PassInv, NEW r \in Runners, MatchCandidate(r)
    PROVE  PassInv'
  <1> PICK a, m : a = Anchor(r) /\ m = Min(run[r].similar)
    OBVIOUS
  <1> DEFINE rest == run[r].similar \ {m}
             pc == CASE rest # {} -> "match"
                     [] rest = {} /\ run[r].scanned # NoMore -> "scan"
                     [] OTHER -> "finalize"
  <1>1. run[r] \in Scanning /\ Knows(run[r]) /\ run[r].pc = "match"
    BY Shapes DEF MatchCandidate, At, PassInv
  <1>2. /\ a = Min(run[r].page) /\ a \in Known /\ a \in Sources /\ anchor[a] = a /\ Least(a)
        /\ PageKnows(run[r]) /\ ScanKnows(run[r])
    BY <1>1, AnchorFacts DEF InLoop, AtCluster, Knows
  <1>3. /\ m \in run[r].similar /\ m \in Known /\ m \in Sources
        /\ a < m /\ state[m] = "unassigned"
        /\ EntityOf[m] = EntityOf[a] /\ <<snap[a], snap[m]>> \in Similar
        /\ state' = [state EXCEPT ![m] = "tentative"]
        /\ anchor' = [anchor EXCEPT ![m] = a]
    BY MatchFacts
  <1>4. Rows
    BY DEF PassInv, WorkspaceInv
  <1>5. text' = text /\ snap' = snap
    BY DEF MatchCandidate, sourceVars
  <1>6. \/ Return(r) /\ cursor' = run[r].cursor
        \/ /\ run' = [run EXCEPT ![r] = [run[r] EXCEPT !.similar = rest, !.pc = pc]]
           /\ cursor' = cursor
    BY DEF MatchCandidate, Incomplete
  <1>7. pc \in {"match", "scan", "finalize"} /\ (pc = "match" <=> rest # {})
    OBVIOUS
  <1>8. rest \in SUBSET Sources /\ \A n \in rest : n \in run[r].similar /\ n # m
    BY <1>1 DEF Scanning
  <1> HIDE DEF rest, pc
  <1>9. /\ Rows' /\ Known' = Known
        /\ \A s \in Sources : Decided(s)' <=> Decided(s)
        /\ Undecided' \subseteq Undecided /\ anchor'[a] = a
    BY <1>2, <1>3, <1>4, <1>5, AssignStep
  <1>10. cursor' = cursor
    BY <1>1, <1>6 DEF Knows
  <1>11. WorkspaceInv'
    BY <1>5, <1>9, <1>10, WorkspaceStep DEF PassInv
  <1>12. CASE Return(r)
    BY <1>11, <1>12, Returned DEF PassInv
  <1>13. CASE run' = [run EXCEPT ![r] = [run[r] EXCEPT !.similar = rest, !.pc = pc]]
    <2> PICK q : q = [run[r] EXCEPT !.similar = rest, !.pc = pc]
      OBVIOUS
    <2>1. /\ q \in Scanning /\ q.pc = pc /\ q.after = run[r].after /\ q.cursor = run[r].cursor
          /\ q.page = run[r].page /\ q.vector = run[r].vector
          /\ q.scanned = run[r].scanned /\ q.similar = rest
      BY <1>1, <1>7, <1>8 DEF Scanning
    <2>2. \A s \in Sources : s # m => anchor'[s] = anchor[s] /\ state'[s] = state[s]
      BY <1>4, <1>3 DEF Rows
    <2>3. anchor'[m] = a /\ a # m /\ a # 0
      BY <1>2, <1>3, <1>4, Numbers DEF Rows
    <2>4. PageKnows(q)'
      <3>1. q.page \in SUBSET Sources
        BY <2>1 DEF Scanning
      <3>2. ASSUME NEW s \in q.page \ {a}, anchor'[s] \in {0, s} PROVE ~Decided(s)'
        <4>1. s # m
          BY <2>3, <3>2, <1>3, <1>2
        <4> QED
          BY <1>2, <1>9, <2>1, <2>2, <3>1, <3>2, <4>1 DEF PageKnows
      <3>3. ~Decided(a)'
        BY <1>1, <1>2, <1>9 DEF PageKnows, AtCluster
      <3> QED
        BY <1>2, <1>7, <1>9, <2>1, <3>2, <3>3 DEF PageKnows, AtCluster
    <2>5. pc # "finalize" => ScanKnows(q)'
      BY <1>2, <1>5, <1>7, <1>8, <1>9, <2>1, <2>2 DEF ScanKnows, Known
    <2>6. Knows(q)'
      BY <1>1, <1>7, <1>10, <2>1, <2>4, <2>5 DEF Knows
    <2> QED
      BY <1>11, <1>13, <2>1, <2>6, OnlyRun DEF PassInv, Records
  <1> QED
    BY <1>6, <1>12, <1>13

\* A cluster with one member is its anchor.
LEMMA AloneIs ==
    ASSUME NEW S \in SUBSET Sources, NEW a \in S, Cardinality(S) <= 1
    PROVE  S = {a}
  <1>1. IsFiniteSet(S) /\ Cardinality(S) \in Nat
    BY SourcesAreFinite
  <1>2. {a} \in SUBSET S /\ Cardinality({a}) = 1
    BY FS_Singleton
  <1>3. Cardinality({a}) <= Cardinality(S) /\ (Cardinality(S) = Cardinality({a}) => S = {a})
    BY <1>1, <1>2, FS_Subset
  <1> QED
    BY <1>1, <1>2, <1>3

LEMMA FinalizeStep ==
    ASSUME OneRunner, PassInv, NEW r \in Runners, Finalize(r)
    PROVE  PassInv'
  <1> PICK a : a = Anchor(r)
    OBVIOUS
  <1>1. run[r] \in Scanning /\ Knows(run[r]) /\ run[r].pc = "finalize"
    BY Shapes DEF Finalize, At, PassInv
  <1>2. /\ a = Min(run[r].page) /\ a \in Known /\ a \in Sources /\ anchor[a] = a /\ Least(a)
        /\ PageKnows(run[r])
    BY <1>1, AnchorFacts DEF InLoop, AtCluster
  <1>3. Rows
    BY DEF PassInv, WorkspaceInv
  <1>4. text' = text /\ snap' = snap
    BY DEF Finalize, sourceVars
  <1>5. a \in Members(a) /\ Members(a) \in SUBSET Sources
    BY <1>2, <1>3, MembersFacts DEF Known
  <1>6. CASE Return(r) /\ state' = state /\ anchor' = anchor /\ (cursor' = cursor \/ cursor' = run[r].cursor)
    BY <1>1, <1>4, <1>6, ReturnStep
  <1>7. CASE /\ Cardinality(Members(a)) <= 1
             /\ state' = [state EXCEPT ![a] = IF snap[a] # NoText THEN "discarded" ELSE @]
             /\ anchor' = [anchor EXCEPT ![a] = 0]
             /\ run' = [run EXCEPT ![r].pc = "checkpoint"]
             /\ UNCHANGED cursor
    <2>1. state' = [state EXCEPT ![a] = "discarded"]
      BY <1>2, <1>7 DEF Known
    <2>2. Members(a) = {a}
      BY <1>5, <1>7, AloneIs
    <2>3. /\ Rows' /\ Known' = Known
          /\ \A s \in Sources : Decided(s)' <=> Decided(s) \/ s = a
          /\ Undecided' = Undecided \ {a}
      BY <1>2, <1>3, <1>4, <1>7, <2>1, <2>2, DiscardStep
    <2>4. WorkspaceInv'
      BY <1>4, <1>7, <2>3, WorkspaceStep DEF PassInv
    <2> PICK q : q = [run[r] EXCEPT !.pc = "checkpoint"]
      OBVIOUS
    <2>5. /\ q \in Scanning /\ q.pc = "checkpoint" /\ q.after = run[r].after
          /\ q.cursor = run[r].cursor /\ q.page = run[r].page
      BY <1>1 DEF Scanning
    <2>6. \A s \in Sources : s # a => anchor'[s] = anchor[s]
      BY <1>3, <1>7 DEF Rows
    <2>7. PageKnows(q)'
      <3>1. q.page \in SUBSET Sources
        BY <2>5 DEF Scanning
      <3> QED
        BY <1>2, <2>3, <2>5, <2>6, <3>1 DEF PageKnows, AtCluster
    <2>8. Knows(q)'
      BY <1>1, <1>7, <2>5, <2>7 DEF Knows
    <2> QED
      BY <1>7, <2>4, <2>5, <2>8, OnlyRun DEF PassInv, Records
  <1>8. ASSUME NEW object, object \in Texts \union {NoText},
               Cardinality(Members(a)) >= 2,
               state' = [s \in Sources |-> IF s \in Members(a) THEN "finalized" ELSE state[s]],
               UNCHANGED <<anchor, cursor>>,
               run' = [run EXCEPT ![r] =
                     [pc |-> "commit", after |-> run[r].after, cursor |-> run[r].cursor,
                      page |-> run[r].page, object |-> object, provenance |-> Members(a)]]
        PROVE  PassInv'
    <2>1. /\ Rows' /\ Known' = Known
          /\ \A s \in Sources : Decided(s)' <=> Decided(s)
          /\ Undecided' = Undecided
          /\ \A s \in Members(a) : state'[s] = "finalized"
      BY <1>2, <1>3, <1>4, <1>8, MembersStep
    <2>2. WorkspaceInv'
      BY <1>4, <1>8, <2>1, WorkspaceStep DEF PassInv
    <2> PICK q : q = [pc |-> "commit", after |-> run[r].after, cursor |-> run[r].cursor,
                      page |-> run[r].page, object |-> object, provenance |-> Members(a)]
      OBVIOUS
    <2>3. /\ q \in Committing /\ q.pc = "commit" /\ q.after = run[r].after
          /\ q.cursor = run[r].cursor /\ q.page = run[r].page /\ q.provenance = Members(a)
      BY <1>1, <1>5, <1>8 DEF Scanning, Committing
    <2>4. PageKnows(q)'
      <3>1. q.page \in SUBSET Sources
        BY <2>3 DEF Committing
      <3> QED
        BY <1>1, <1>2, <1>8, <2>1, <2>3, <3>1 DEF PageKnows, AtCluster
    <2>5. Members(a)' = Members(a)
      BY <1>4, <1>8 DEF Members
    <2>6. CommitKnows(q)'
      BY <1>2, <1>8, <2>1, <2>3, <2>5 DEF CommitKnows
    <2>7. Knows(q)'
      BY <1>1, <1>8, <2>3, <2>4, <2>6 DEF Knows
    <2> QED
      BY <1>8, <2>2, <2>3, <2>7, OnlyRun DEF PassInv, Records
  <1>9. CASE /\ Cardinality(Members(a)) \in 2 .. MaxMembers
             /\ {s \in Members(a) : text[s] # NoText} # {}
             /\ state' = [s \in Sources |-> IF s \in Members(a) THEN "finalized" ELSE state[s]]
             /\ run' = [run EXCEPT ![r] =
                     [pc |-> "commit", after |-> @.after, cursor |-> @.cursor, page |-> @.page,
                      object |-> text[Max({s \in Members(a) : text[s] # NoText})],
                      provenance |-> Members(a)]]
             /\ UNCHANGED <<anchor, cursor>>
    <2> PICK object : object = text[Max({s \in Members(a) : text[s] # NoText})]
      OBVIOUS
    <2>1. object \in Texts \union {NoText}
      <3> DEFINE present == {s \in Members(a) : text[s] # NoText}
      <3>1. present \in SUBSET Sources /\ present # {}
        BY <1>5, <1>9
      <3> HIDE DEF present
      <3>2. Max(present) \in Sources
        BY <3>1, MaxOf
      <3> QED
        BY <3>2 DEF PassInv, WorkspaceInv, present
    <2>2. Cardinality(Members(a)) >= 2
      BY <1>9
    <2>3. run' = [run EXCEPT ![r] =
                     [pc |-> "commit", after |-> run[r].after, cursor |-> run[r].cursor,
                      page |-> run[r].page, object |-> object, provenance |-> Members(a)]]
      BY <1>9
    <2> QED
      BY <1>8, <1>9, <2>1, <2>2, <2>3
  <1> QED
    BY <1>6, <1>7, <1>9 DEF Finalize, Incomplete

LEMMA CommitStep ==
    ASSUME OneRunner, PassInv, NEW r \in Runners, CommitPromotion(r)
    PROVE  PassInv'
  <1> PICK a : a = Anchor(r)
    OBVIOUS
  <1>1. run[r] \in Committing /\ Knows(run[r]) /\ run[r].pc = "commit"
    BY Shapes DEF CommitPromotion, At, PassInv
  <1>2. /\ a = Min(run[r].page) /\ a \in Known /\ a \in Sources /\ anchor[a] = a /\ Least(a)
        /\ PageKnows(run[r])
    BY <1>1, AnchorFacts DEF InLoop, AtCluster
  <1>3. Rows
    BY DEF PassInv, WorkspaceInv
  <1>4. text' = text
    BY DEF CommitPromotion, sourceVars
  <1>5. CASE Rebuild /\ Return(r)
    BY <1>4, <1>5, RebuildStep, Returned DEF PassInv
  <1>6. CASE Return(r) /\ UNCHANGED workspaceVars
    BY <1>4, <1>6, ReturnStep DEF workspaceVars
  <1>7. CASE /\ state' = [s \in Sources |-> IF s \in Members(a) THEN "promoted" ELSE state[s]]
             /\ run' = [run EXCEPT ![r] =
                     [pc |-> "checkpoint", after |-> @.after, cursor |-> @.cursor, page |-> @.page]]
             /\ UNCHANGED <<snap, anchor, cursor>>
    <2>1. /\ Rows' /\ Known' = Known
          /\ \A s \in Sources : Decided(s)' <=> Decided(s) \/ s \in Members(a)
          /\ Undecided' = Undecided \ {a}
      BY <1>2, <1>3, <1>7, MembersStep
    <2>2. WorkspaceInv'
      BY <1>4, <1>7, <2>1, WorkspaceStep DEF PassInv
    <2> PICK q : q = [pc |-> "checkpoint", after |-> run[r].after, cursor |-> run[r].cursor, page |-> run[r].page]
      OBVIOUS
    <2>3. run' = [run EXCEPT ![r] = q]
      BY <1>7
    <2>4. /\ q \in Paging /\ q.pc = "checkpoint" /\ q.after = run[r].after
          /\ q.cursor = run[r].cursor /\ q.page = run[r].page
      BY <1>1 DEF Paging, Committing
    <2>5. a \in Members(a) /\ \A s \in Members(a) : anchor[s] = a
      BY <1>2, <1>3, MembersFacts
    <2>6. PageKnows(q)'
      <3>1. q.page \in SUBSET Sources
        BY <2>4 DEF Paging
      <3>2. ASSUME NEW s \in q.page \ {a}, anchor'[s] \in {0, s} PROVE ~Decided(s)'
        <4>1. s \notin Members(a)
          BY <1>2, <1>7, <2>5, <3>2, Numbers
        <4> QED
          BY <1>2, <1>7, <2>1, <2>4, <3>1, <3>2, <4>1 DEF PageKnows
      <3> QED
        BY <1>2, <2>1, <2>4, <2>5, <3>1, <3>2 DEF PageKnows, AtCluster
    <2>7. Knows(q)'
      BY <1>1, <1>7, <2>4, <2>6 DEF Knows
    <2> QED
      BY <2>2, <2>3, <2>4, <2>7, OnlyRun DEF PassInv, Records
  <1> QED
    BY <1>5, <1>6, <1>7 DEF CommitPromotion

LEMMA CheckpointStep ==
    ASSUME OneRunner, PassInv, NEW r \in Runners, Checkpoint(r)
    PROVE  PassInv'
  <1> PICK a : a = Anchor(r)
    OBVIOUS
  <1>1. run[r] \in Records /\ Knows(run[r]) /\ run[r].pc = "checkpoint"
    BY DEF Checkpoint, At, PassInv
  <1>2. /\ a = Min(run[r].page) /\ a \in run[r].page /\ a \in Known /\ a \in Sources
        /\ \A s \in run[r].page : a <= s
        /\ \A o \in Undecided : a <= o
        /\ PageKnows(run[r]) /\ Decided(a)
    BY <1>1, AnchorFacts DEF InLoop, PageKnows
  <1>3. /\ run[r].page \in SUBSET Sources /\ run[r].after \in 1 .. NoMore
        /\ \A o \in Undecided : o # a
    BY <1>1, <1>2, Shapes DEF InLoop, PageKnows, Undecided
  <1>4. Rows
    BY DEF PassInv, WorkspaceInv
  <1>5. /\ text' = text /\ snap' = snap /\ state' = state /\ anchor' = anchor /\ cursor' = a
    BY DEF Checkpoint, sourceVars
  <1>6. CursorCoversDecided'
    <2>1. ASSUME NEW s \in Sources, s <= a, s \in Known PROVE Decided(s)
      <3>1. \A o \in Undecided : s <= o
        BY <1>2, <2>1, Numbers DEF Undecided, Known
      <3>2. s \in Undecided => s = a
        BY <1>2, <2>1, Numbers
      <3> QED
        BY <1>2, <1>4, <2>1, <3>1, <3>2, DecidedBelow
    <2> QED
      BY <1>5, <2>1 DEF CursorCoversDecided, Known, Decided
  <1>7. WorkspaceInv'
    BY <1>2, <1>5, <1>6, SameRows, Numbers DEF WorkspaceInv, PassInv
  <1> DEFINE rest == run[r].page \ {a}
             pc == CASE rest # {} -> "source"
                     [] rest = {} /\ run[r].after # NoMore -> "paging"
                     [] OTHER -> "complete"
  <1> PICK q : q = [pc |-> pc, after |-> run[r].after, cursor |-> a, page |-> rest]
    OBVIOUS
  <1>8. run' = [run EXCEPT ![r] = q]
    BY DEF Checkpoint
  <1>9. /\ pc \in {"source", "paging", "complete"}
        /\ pc = "source" <=> rest # {}
        /\ pc = "complete" => rest = {} /\ run[r].after = NoMore
    OBVIOUS
  <1> HIDE DEF pc
  <1>10. /\ q \in Paging /\ q.pc = pc /\ q.after = run[r].after /\ q.cursor = a /\ q.page = rest
    BY <1>2, <1>3, <1>9, Numbers DEF Paging, NoMore
  <1>11. \A o \in Undecided : o \in rest \/ o > run[r].after
    BY <1>2, <1>3 DEF PageKnows
  <1>12. Undecided' = Undecided /\ Known' = Known /\ \A s : Decided(s)' <=> Decided(s)
    BY <1>5, SameRows
  <1>13. pc = "source" => PageKnows(q)'
    <2>1. ASSUME rest # {} PROVE Min(rest) \in rest
      BY <1>3, <2>1, MinOf
    <2>2. \A s \in rest : anchor[s] \in {0, s} => ~Decided(s)
      BY <1>2 DEF PageKnows
    <2>3. rest \subseteq Known /\ \A s \in rest : s <= run[r].after
      BY <1>2 DEF PageKnows
    <2> HIDE DEF rest
    <2> QED
      BY <1>3, <1>5, <1>9, <1>10, <1>11, <1>12, <2>1, <2>2, <2>3 DEF PageKnows, AtCluster
  <1>14. pc = "paging" => \A s \in Undecided : s > run[r].after /\ run[r].after # Stored
    BY <1>3, <1>9, <1>11, Numbers DEF Stored, NoMore
  <1>15. pc = "complete" => Undecided = {}
    <2>1. \A s \in Undecided : ~(s > NoMore)
      BY Numbers DEF Undecided, Known, NoMore, Sources
    <2> QED
      BY <1>9, <1>11, <2>1
  <1>16. Knows(q)'
    BY <1>5, <1>9, <1>10, <1>12, <1>13, <1>14, <1>15 DEF Knows, InLoop
  <1> QED
    BY <1>7, <1>8, <1>10, <1>16, OnlyRun DEF PassInv, Records

-----------------------------------------------------------------------------

LEMMA PassStarts == Init => PassInv
  <1> SUFFICES ASSUME Init PROVE PassInv
    OBVIOUS
  <1>1. Off \in Records /\ Off.pc = "off"
    BY DEF Off, Records, Resting
  <1>2. \A r \in Runners : Knows(run[r])
    BY <1>1 DEF Init, Knows, InLoop
  <1>3. Rows
    BY Numbers DEF Init, Rows, States, Clustered, Known
  <1>4. cursor \in 0 .. N /\ CursorCoversDecided
    BY Numbers DEF Init, CursorCoversDecided
  <1> QED
    BY <1>1, <1>2, <1>3, <1>4 DEF Init, PassInv, WorkspaceInv

\* Writers leave the workspace and the runs alone.
LEMMA WriterStep ==
    ASSUME PassInv, Writer
    PROVE  /\ PassInv' /\ run' = run
           /\ snap' = snap /\ state' = state /\ anchor' = anchor /\ cursor' = cursor
           /\ text' \in [Sources -> Texts \union {NoText}]
  <1>1. /\ run' = run
        /\ snap' = snap /\ state' = state /\ anchor' = anchor /\ cursor' = cursor
    BY DEF Writer, RetireSource, DeleteSource, WriteSource, SourceWrite, SupersedePromotion,
           ForgetPromotion, workspaceVars
  <1>2. text' \in [Sources -> Texts \union {NoText}]
    BY DEF Writer, RetireSource, DeleteSource, WriteSource, SupersedePromotion,
           ForgetPromotion, sourceVars, PassInv, WorkspaceInv
  <1>3. WorkspaceInv'
    BY <1>1, <1>2, SameRows DEF PassInv, WorkspaceInv, CursorCoversDecided
  <1>4. \A r \in Runners : Knows(run[r])'
    <2>1. ASSUME NEW r \in Runners PROVE Knows(run[r])'
      <3>1. PICK q : q = run[r]
        OBVIOUS
      <3>2. Knows(q)
        BY <3>1 DEF PassInv
      <3>3. Knows(q)'
        BY <1>1, <3>2, SameKnowledge
      <3> QED
        BY <1>1, <3>1, <3>3
    <2> QED
      BY <2>1
  <1> QED
    BY <1>1, <1>2, <1>3, <1>4 DEF PassInv

LEMMA PassStep == OneRunner /\ PassInv /\ [Next]_vars => PassInv'
  <1> SUFFICES ASSUME OneRunner, PassInv, [Next]_vars PROVE PassInv'
    OBVIOUS
  <1>1. CASE Writer
    BY <1>1, WriterStep
  <1>2. ASSUME NEW r \in Runners, Pass(r) PROVE PassInv'
    <2>1. CASE Complete(r)
      BY <2>1, ReturnStep DEF Complete, sourceVars, workspaceVars
    <2> QED
      BY <1>2, <2>1, BeginStep, ReadCursorStep, NextPageStep, TakeSourceStep, LoadStep, ScanStep,
         MatchStep, FinalizeStep, CommitStep, CheckpointStep DEF Pass
  <1>3. ASSUME NEW r \in Runners, Stop(r) PROVE PassInv'
    BY <1>3, ReturnStep DEF Stop, Incomplete, sourceVars
  <1>4. CASE UNCHANGED vars
    <2>1. WorkspaceInv'
      BY <1>4, WorkspaceStays DEF PassInv, vars
    <2>2. ASSUME NEW r \in Runners PROVE Knows(run[r])'
      <3>1. run' = run /\ snap' = snap /\ state' = state /\ anchor' = anchor /\ cursor' = cursor
        BY <1>4 DEF vars
      <3>2. PICK q : q = run[r]
        OBVIOUS
      <3>3. Knows(q)
        BY <3>2 DEF PassInv
      <3>4. Knows(q)'
        BY <3>1, <3>3, SameKnowledge
      <3> QED
        BY <3>1, <3>2, <3>4
    <2> QED
      BY <1>4, <2>1, <2>2 DEF PassInv, vars
  <1> QED
    BY <1>1, <1>2, <1>3, <1>4 DEF Next

\* What one process may be sure of at any time of a run, and of a run that
\* resumes another.
THEOREM PassInvariant == OneRunner /\ Spec => []PassInv
  <1> SUFFICES ASSUME OneRunner PROVE Spec => []PassInv
    OBVIOUS
  <1>1. PassInv /\ [Next]_vars => PassInv'
    BY PassStep
  <1> QED
    BY <1>1, PassStarts, PTL DEF Spec

\* A run that resumes behind the stored cursor misses nothing.
THEOREM CursorAlwaysCovers == OneRunner /\ Spec => []CursorCoversDecided
  <1>1. PassInv => CursorCoversDecided
    BY DEF PassInv, WorkspaceInv
  <1> QED
    BY <1>1, PassInvariant, PTL

-----------------------------------------------------------------------------
(* The evidence of a promotion                                             *)

\* The step of EvidenceIsCurrent.
RestsOnCurrent ==
    \A r \in Runners : Promotes(r) =>
        LET a == Anchor(r)
        IN  /\ Cardinality(run[r].provenance) >= 2
            /\ Current(a) # NoText
            /\ \A s \in run[r].provenance :
                   /\ EntityOf[s] = EntityOf[a]
                   /\ <<Current(a), Current(s)>> \in Similar

LEMMA OthersDoNotPromote ==
    ASSUME NEW r \in Runners, Promotes(r), run \in [Runners -> Records], OneRunner, [Next]_vars
    PROVE  CommitPromotion(r)
  <1>1. run[r].pc = "commit" /\ run'[r].pc = "checkpoint"
    BY DEF Promotes, At
  <1>2. ~Writer /\ ~UNCHANGED vars
    BY <1>1 DEF Writer, RetireSource, DeleteSource, WriteSource, SourceWrite, SupersedePromotion,
               ForgetPromotion, vars
  <1>3. ~Stop(r)
    <2>1. Return(r) => run'[r].pc = "off"
      BY DEF Return, Off
    <2> QED
      BY <1>1, <2>1 DEF Stop, Incomplete
  <1>4. \E p \in Runners : Pass(p) \/ Stop(p)
    BY <1>2 DEF Next
  <1>5. Pass(r)
    BY <1>3, <1>4 DEF OneRunner
  <1> QED
    BY <1>1, <1>5 DEF Pass, At, Begin, ReadCursor, NextPage, TakeSource, LoadAnchor, ScanCandidates,
                      MatchCandidate, Finalize, Checkpoint, Complete

\* A promotion rests on what the namespace holds when it is committed.
THEOREM EvidenceIsAlwaysCurrent == OneRunner /\ Spec => EvidenceIsCurrent
  <1> SUFFICES ASSUME OneRunner PROVE Spec => EvidenceIsCurrent
    OBVIOUS
  <1>1. ASSUME PassInv, [Next]_vars PROVE RestsOnCurrent
    <2> SUFFICES ASSUME NEW r \in Runners, Promotes(r)
                 PROVE  LET a == Anchor(r)
                        IN  /\ Cardinality(run[r].provenance) >= 2
                            /\ Current(a) # NoText
                            /\ \A s \in run[r].provenance :
                                   /\ EntityOf[s] = EntityOf[a]
                                   /\ <<Current(a), Current(s)>> \in Similar
      BY DEF RestsOnCurrent
    <2>1. CommitPromotion(r)
      BY <1>1, OthersDoNotPromote DEF PassInv
    <2> PICK a : a = Anchor(r)
      OBVIOUS
    <2>2. run[r].pc = "commit" /\ Knows(run[r]) /\ run'[r].pc = "checkpoint"
      BY <1>1 DEF Promotes, At, PassInv
    <2>3. a = Min(run[r].page) /\ a \in Known /\ anchor[a] = a /\ Least(a)
      BY <1>1, <2>2, AnchorFacts DEF InLoop, AtCluster
    <2>4. CommitKnows(run[r])
      BY <2>2 DEF Knows
    <2>5. /\ run[r].provenance = Members(a) /\ Cardinality(Members(a)) >= 2
          /\ \A s \in Members(a) : state[s] = "finalized"
      BY <2>3, <2>4 DEF CommitKnows
    <2>6. ~Return(r)
      BY <1>1, <2>2 DEF Return, Off, PassInv
    <2>7. {s \in {m \in Members(a) : state[m] = "finalized"} : Intact(s)} = {m \in Members(a) : state[m] = "finalized"}
      BY <2>1, <2>6 DEF CommitPromotion
    <2>8. \A s \in Members(a) : snap[s] # NoText /\ snap[s] = Current(s)
      BY <2>5, <2>7 DEF Intact
    <2>9. a \in Members(a) /\ \A s \in Members(a) : anchor[s] = a /\ s \in Sources
      BY <1>1, <2>3, MembersFacts DEF PassInv, WorkspaceInv
    <2>10. ASSUME NEW s \in Members(a)
           PROVE  EntityOf[s] = EntityOf[a] /\ <<snap[a], snap[s]>> \in Similar
      <3>1. Clustered(s) /\ a # 0
        BY <1>1, <2>3, <2>9, Numbers DEF PassInv, WorkspaceInv, Rows, Known
      <3> QED
        BY <2>9, <3>1 DEF Clustered
    <2> QED
      BY <2>5, <2>8, <2>9, <2>10
  <1> QED
    BY <1>1, PassInvariant, PTL DEF Spec, EvidenceIsCurrent, RestsOnCurrent

-----------------------------------------------------------------------------
(* The reference clustering, unfolded                                      *)

\* An empty set and a step define sets of sources up to N.
LEMMA Recursion ==
    ASSUME NEW step \in [(1 .. N) \X SUBSET Sources -> SUBSET Sources]
    PROVE  \E f \in [0 .. N -> SUBSET Sources] :
               f[0] = {} /\ \A k \in 1 .. N : f[k] = step[<<k, f[k - 1]>>]
  <1> DEFINE Upto(n, f) == f[0] = {} /\ \A k \in 1 .. n : f[k] = step[<<k, f[k - 1]>>]
             S == {n \in 0 .. N : ~\E f \in [0 .. n -> SUBSET Sources] : Upto(n, f)}
  <1>1. N \in Nat /\ N \in 0 .. N
    BY Numbers
  <1>2. S = {}
    <2> SUFFICES ASSUME S # {} PROVE FALSE
      OBVIOUS
    <2>1. PICK m \in S : \A n \in S : m <= n
      <3>1. S \in SUBSET Nat
        BY <1>1
      <3> HIDE DEF S
      <3> QED
        BY <3>1, LeastNat
    <2>2. m \in 0 .. N
      BY <2>1
    <2> HIDE DEF Upto
    <2>3. CASE m = 0
      <3> DEFINE f == [k \in 0 .. 0 |-> {}]
      <3>1. f \in [0 .. m -> SUBSET Sources] /\ Upto(m, f)
        BY <2>3 DEF Upto
      <3> HIDE DEF f
      <3> QED
        BY <2>1, <3>1
    <2>4. CASE m # 0
      <3>1. m - 1 \in 0 .. N /\ m - 1 \notin S
        BY <1>1, <2>1, <2>2, <2>4
      <3>2. PICK f \in [0 .. m - 1 -> SUBSET Sources] : Upto(m - 1, f)
        BY <3>1
      <3> DEFINE g == [k \in 0 .. m |-> IF k = m THEN step[<<m, f[m - 1]>>] ELSE f[k]]
      <3>3. step[<<m, f[m - 1]>>] \in SUBSET Sources
        <4>1. f[m - 1] \in SUBSET Sources
          BY <2>2, <2>4, <3>2
        <4>2. m \in 1 .. N
          BY <1>1, <2>2, <2>4
        <4> QED
          BY <4>1, <4>2
      <3>4. g \in [0 .. m -> SUBSET Sources]
        <4>1. ASSUME NEW k \in 0 .. m, k # m PROVE f[k] \in SUBSET Sources
          <5>1. k \in 0 .. m - 1
            BY <2>2, <4>1
          <5> QED
            BY <3>2, <5>1
        <4> QED
          BY <3>3, <4>1
      <3>5. g[0] = {}
        BY <2>2, <2>4, <3>2 DEF Upto
      <3>6. ASSUME NEW k \in 1 .. m PROVE g[k] = step[<<k, g[k - 1]>>]
        <4>1. CASE k = m
          <5>1. m - 1 \in 0 .. m /\ m - 1 # m /\ m \in 0 .. m
            BY <2>2, <2>4
          <5>2. g[m - 1] = f[m - 1] /\ g[m] = step[<<m, f[m - 1]>>]
            BY <5>1
          <5> QED
            BY <4>1, <5>2
        <4>2. CASE k # m
          <5>1. k \in 1 .. m - 1 /\ k \in 0 .. m /\ k - 1 \in 0 .. m /\ k - 1 # m
            BY <2>2, <2>4, <4>2
          <5>2. g[k] = f[k] /\ g[k - 1] = f[k - 1]
            BY <4>2, <5>1
          <5>3. f[k] = step[<<k, f[k - 1]>>]
            BY <3>2, <5>1 DEF Upto
          <5> QED
            BY <5>2, <5>3
        <4> QED
          BY <4>1, <4>2
      <3>7. Upto(m, g)
        BY <3>5, <3>6 DEF Upto
      <3> HIDE DEF g
      <3> QED
        BY <2>1, <3>4, <3>7
    <2> QED
      BY <2>3, <2>4
  <1> QED
    BY <1>1, <1>2

\* What the first k sources have taken, from what those before have.
LEMMA TakenUnfolds ==
    /\ Taken[0] = {}
    /\ \A k \in 1 .. N :
           Taken[k] = IF k \in Taken[k - 1] \/ snap[k] = NoText THEN Taken[k - 1]
                      ELSE Taken[k - 1] \union Cluster(k, Taken[k - 1])
  <1> DEFINE Step(k, taken) ==
                 IF k \in taken \/ snap[k] = NoText THEN taken ELSE taken \union Cluster(k, taken)
             Same(f) == f = [k \in 0 .. N |-> IF k = 0 THEN {} ELSE Step(k, f[k - 1])]
  <1>1. N \in Nat
    BY Numbers
  <1>2. PICK p \in [0 .. N -> SUBSET Sources] :
            p[0] = {} /\ \A k \in 1 .. N : p[k] = Step(k, p[k - 1])
    <2> PICK step : step = [x \in (1 .. N) \X SUBSET Sources |-> Step(x[1], x[2])]
      OBVIOUS
    <2>1. ASSUME NEW k \in 1 .. N, NEW taken \in SUBSET Sources
          PROVE  Step(k, taken) \in SUBSET Sources /\ step[<<k, taken>>] = Step(k, taken)
      <3>1. k \in Sources
        BY DEF Sources
      <3>2. Step(k, taken) \in SUBSET Sources
        BY <3>1 DEF Cluster
      <3> HIDE DEF Step
      <3> QED
        BY <3>2
    <2>2. step \in [(1 .. N) \X SUBSET Sources -> SUBSET Sources]
      <3> HIDE DEF Step
      <3> QED
        BY <2>1
    <2>3. PICK p \in [0 .. N -> SUBSET Sources] :
              p[0] = {} /\ \A k \in 1 .. N : p[k] = step[<<k, p[k - 1]>>]
      BY <2>2, Recursion
    <2>4. ASSUME NEW k \in 1 .. N PROVE p[k - 1] \in SUBSET Sources
      <3>1. k - 1 \in 0 .. N
        BY <1>1
      <3> QED
        BY <2>3, <3>1
    <2> HIDE DEF Step
    <2> QED
      BY <2>1, <2>3, <2>4
  <1> HIDE DEF Step
  <1>3. Same(p)
    <2>1. \A k \in 0 .. N : p[k] = IF k = 0 THEN {} ELSE Step(k, p[k - 1])
      BY <1>1, <1>2
    <2>2. p = [k \in 0 .. N |-> p[k]]
      BY <1>2
    <2> QED
      BY <2>1, <2>2
  <1>4. Same(Taken)
    <2>1. Taken = CHOOSE f : Same(f)
      BY DEF Taken, Step
    <2> HIDE DEF Same
    <2> QED
      BY <1>3, <2>1
  <1>5. Taken[0] = {} /\ \A k \in 1 .. N : Taken[k] = Step(k, Taken[k - 1])
    <2>1. 0 \in 0 .. N /\ \A k \in 1 .. N : k \in 0 .. N /\ k # 0
      BY <1>1
    <2> QED
      BY <1>4, <2>1
  <1> QED
    BY <1>5 DEF Step

-----------------------------------------------------------------------------
(* The clusters are those of the reference                                 *)

\* What has been taken by decisions of the first k sources.
Done(k) ==
    {s \in Known : \/ state[s] = "discarded" /\ s <= k
                   \/ state[s] = "promoted" /\ anchor[s] <= k}

\* The cluster that a should get.
Due(a) == Cluster(a, Done(a - 1))

\* A decided anchor has got it.
Resolved ==
    \A a \in Known : Decided(a) /\ anchor[a] \in {0, a} =>
        IF state[a] = "discarded" THEN Due(a) = {a} ELSE Due(a) = Members(a) /\ Due(a) # {a}

\* What is in a cluster that is not decided belongs there.
Gathered == \A s \in Known : anchor[s] # 0 /\ ~Decided(s) => s \in Due(anchor[s])

\* What belongs in the cluster of the anchor is there, or in the hands of the
\* run, or still to be scanned.
ScansAll(q) ==
    LET a == Min(q.page)
    IN  /\ q.pc \in {"scan", "match"} =>
              \A s \in Due(a) : s \in Members(a) \/ s \in q.similar \/ s > q.scanned
        /\ q.pc \in {"finalize", "commit"} => Due(a) \subseteq Members(a)

GreedyInv ==
    /\ disturbed \in BOOLEAN
    /\ ~disturbed => /\ \A s \in Sources : snap[s] = Current(s)
                     /\ Resolved /\ Gathered
                     /\ \A r \in Runners : ScansAll(run[r])

-----------------------------------------------------------------------------

\* Where neither decisions nor rows up to k change, what is taken stays.
LEMMA DoneStays ==
    ASSUME snap' = snap, NEW k,
           \A s \in Known :
               \/ state'[s] = state[s] /\ anchor'[s] = anchor[s]
               \/ ~Decided(s) /\ ~Decided(s)'
               \/ ~Decided(s) /\ state'[s] = "discarded" /\ ~(s <= k)
               \/ ~Decided(s) /\ state'[s] = "promoted" /\ ~(anchor'[s] <= k)
    PROVE  Done(k)' = Done(k)
  <1>1. Known' = Known
    BY DEF Known
  <1>2. \A s \in Known : s \in Done(k)' <=> s \in Done(k)
    BY <1>1 DEF Done, Decided
  <1> QED
    BY <1>1, <1>2 DEF Done

LEMMA DueStays ==
    ASSUME snap' = snap, NEW a, Done(a - 1)' = Done(a - 1)
    PROVE  Due(a)' = Due(a)
  BY DEF Due, Cluster

\* What belongs in the cluster of the least open source is in it or has not
\* been assigned.
LEMMA Reached ==
    ASSUME Rows, NEW a, Least(a), anchor[a] = a, NEW s \in Due(a)
    PROVE  \/ s \in Members(a)
           \/ /\ s \in Known /\ a < s /\ state[s] = "unassigned"
              /\ EntityOf[s] = EntityOf[a] /\ <<snap[a], snap[s]>> \in Similar
  <1>1. a \in Known /\ a \in Sources /\ a \in Undecided /\ a \in Members(a) /\ \A o \in Undecided : a <= o
    BY MembersFacts DEF Least, Undecided, Known
  <1> SUFFICES ASSUME s # a
               PROVE  s \in Members(a) \/ state[s] = "unassigned"
    BY <1>1 DEF Due, Cluster, Known
  <1>2. s \in Known /\ s \in Sources /\ a < s /\ s \notin Done(a - 1)
    BY DEF Due, Cluster, Known
  <1>3. Clustered(s)
    BY <1>2 DEF Rows
  <1>4. state[s] # "discarded"
    BY <1>1, <1>2, <1>3, Numbers DEF Clustered, Decided
  <1>5. CASE state[s] = "promoted"
    <2> DEFINE b == anchor[s]
    <2>1. b # 0 /\ b \in Known /\ anchor[b] = b /\ state[b] = "promoted"
      BY <1>3, <1>5 DEF Clustered
    <2>2. b \in Sources /\ Clustered(b)
      BY <2>1 DEF Known, Rows
    <2>3. b < a
      BY <1>1, <2>1, <2>2 DEF Clustered, Decided
    <2>4. b <= a - 1
      BY <1>1, <2>2, <2>3, Numbers
    <2> QED
      BY <1>2, <1>5, <2>4 DEF Done
  <1>6. CASE state[s] \in {"tentative", "finalized"}
    <2>1. ~Decided(s) /\ anchor[s] # 0
      BY <1>3, <1>6 DEF Clustered, Decided
    <2>2. anchor[s] = a
      BY <1>2, <2>1, UndecidedCluster
    <2> QED
      BY <1>2, <2>2 DEF Members, Known
  <1>7. state[s] \in States
    BY <1>2 DEF Rows
  <1> QED
    BY <1>4, <1>5, <1>6, <1>7 DEF States

\* What AssignStep assigns belongs there, and the rest is as it was.
LEMMA AssignGreedy ==
    ASSUME Rows, Resolved, Gathered, NEW a, NEW m, Least(a),
           \/ m = a
           \/ /\ anchor[a] = a /\ m \in Known /\ a < m /\ state[m] = "unassigned"
              /\ EntityOf[m] = EntityOf[a] /\ <<snap[a], snap[m]>> \in Similar,
           snap' = snap,
           state' = [state EXCEPT ![m] = "tentative"],
           anchor' = [anchor EXCEPT ![m] = a]
    PROVE  Resolved' /\ Gathered' /\ Due(a)' = Due(a) /\ Members(a)' = Members(a) \union {m}
  <1>1. /\ Known' = Known /\ \A s \in Sources : Decided(s)' <=> Decided(s)
    BY AssignStep
  <1>2. a \in Known /\ m \in Known /\ a \in Sources /\ m \in Sources /\ a # 0
    BY Numbers DEF Least, Undecided, Known
  <1>3. /\ state'[m] = "tentative" /\ anchor'[m] = a
        /\ \A s \in Sources : s # m => state'[s] = state[s] /\ anchor'[s] = anchor[s]
    BY <1>2 DEF Rows
  <1>4. ~Decided(m) /\ ~Decided(m)' /\ ~Decided(a) /\ ~Decided(a)' /\ anchor[m] \in {0, m}
    <2>1. ~Decided(a) /\ anchor[a] \in {0, a}
      BY DEF Least, Undecided
    <2>2. Clustered(m)
      BY <1>2 DEF Rows
    <2>3. ~Decided(m) /\ anchor[m] \in {0, m}
      BY <2>1, <2>2 DEF Clustered, Decided
    <2> QED
      BY <1>1, <1>2, <2>1, <2>3
  <1>5. ASSUME NEW b PROVE Done(b - 1)' = Done(b - 1) /\ Due(b)' = Due(b)
    <2>1. \A s \in Known : \/ state'[s] = state[s] /\ anchor'[s] = anchor[s]
                           \/ ~Decided(s) /\ ~Decided(s)'
      BY <1>3, <1>4 DEF Known
    <2>2. Done(b - 1)' = Done(b - 1)
      BY <2>1, DoneStays
    <2> QED
      BY <2>2, DueStays
  <1>6. Members(a)' = Members(a) \union {m}
    BY <1>2, <1>3, <1>4 DEF Members, Known
  <1>7. Resolved'
    <2> SUFFICES ASSUME NEW b \in Known, Decided(b)', anchor'[b] \in {0, b}
                 PROVE  IF state'[b] = "discarded" THEN Due(b)' = {b} ELSE Due(b)' = Members(b)' /\ Due(b)' # {b}
      BY <1>1 DEF Resolved
    <2>1. b \in Sources /\ b # m /\ b # a /\ Decided(b)
      BY <1>1, <1>4 DEF Known
    <2>2. state'[b] = state[b] /\ anchor'[b] = anchor[b]
      BY <1>3, <2>1
    <2>3. Members(b)' = Members(b)
      <3>1. anchor[m] # b
        BY <1>4, <2>1, Numbers
      <3> QED
        BY <1>3, <2>1, <3>1 DEF Members
    <2> QED
      BY <1>5, <2>1, <2>2, <2>3 DEF Resolved
  <1>8. Gathered'
    <2> SUFFICES ASSUME NEW s \in Known, anchor'[s] # 0, ~Decided(s)', NEW c, c = anchor'[s]
                 PROVE  s \in Due(c)'
      BY <1>1 DEF Gathered
    <2>1. CASE s # m
      <3>1. anchor[s] = c /\ ~Decided(s)
        BY <1>1, <1>3, <2>1 DEF Known
      <3>2. s \in Due(c)
        BY <3>1 DEF Gathered
      <3> QED
        BY <1>5, <3>2
    <2>2. CASE s = m
      <3>1. m \in Due(a)
        <4>1. CASE m = a
          BY <4>1 DEF Due, Cluster
        <4>2. CASE m # a
          <5>1. m \notin Done(a - 1)
            BY <4>2 DEF Done
          <5> QED
            BY <1>2, <4>2, <5>1 DEF Due, Cluster, Known
        <4> QED
          BY <4>1, <4>2
      <3> QED
        BY <1>3, <1>5, <2>2, <3>1
    <2> QED
      BY <2>1, <2>2
  <1> QED
    BY <1>5, <1>6, <1>7, <1>8

\* A step of the least open source's members alone that changes no decision.
LEMMA FinalizedGreedy ==
    ASSUME Rows, Resolved, Gathered, NEW a, Least(a), anchor[a] = a,
           snap' = snap, anchor' = anchor,
           state' = [s \in Sources |-> IF s \in Members(a) THEN "finalized" ELSE state[s]]
    PROVE  Resolved' /\ Gathered' /\ Due(a)' = Due(a) /\ Members(a)' = Members(a)
  <1>1. /\ Known' = Known /\ \A s \in Sources : Decided(s)' <=> Decided(s)
    BY MembersStep
  <1>2. \A b : Members(b)' = Members(b)
    BY DEF Members
  <1>3. \A s \in Members(a) : ~Decided(s)
    BY MembersFacts
  <1>4. \A s \in Sources : state'[s] = IF s \in Members(a) THEN "finalized" ELSE state[s]
    OBVIOUS
  <1> HIDE DEF Members
  <1>5. ASSUME NEW b PROVE Due(b)' = Due(b)
    <2>1. \A s \in Known : \/ state'[s] = state[s] /\ anchor'[s] = anchor[s]
                           \/ ~Decided(s) /\ ~Decided(s)'
      BY <1>1, <1>3, <1>4 DEF Known
    <2>2. Done(b - 1)' = Done(b - 1)
      BY <2>1, DoneStays
    <2> QED
      BY <2>2, DueStays
  <1>6. Resolved'
    <2> SUFFICES ASSUME NEW b \in Known, Decided(b)', anchor'[b] \in {0, b}
                 PROVE  IF state'[b] = "discarded" THEN Due(b)' = {b} ELSE Due(b)' = Members(b)' /\ Due(b)' # {b}
      BY <1>1 DEF Resolved
    <2>1. b \in Sources /\ Decided(b) /\ state'[b] = state[b]
      BY <1>1, <1>3, <1>4 DEF Known
    <2> QED
      BY <1>2, <1>5, <2>1 DEF Resolved
  <1>7. Gathered'
    <2> SUFFICES ASSUME NEW s \in Known, anchor'[s] # 0, ~Decided(s)', NEW c, c = anchor'[s]
                 PROVE  s \in Due(c)'
      BY <1>1 DEF Gathered
    <2>1. ~Decided(s) /\ anchor[s] = c
      BY <1>1 DEF Known
    <2> QED
      BY <1>5, <2>1 DEF Gathered
  <1> QED
    BY <1>2, <1>5, <1>6, <1>7

\* The least open source is decided, and its cluster was what it should be.
LEMMA DecidedGreedy ==
    ASSUME Rows, Resolved, Gathered, NEW a, Least(a), anchor[a] = a, snap' = snap,
           \A s \in Sources : s \notin Members(a) => state'[s] = state[s] /\ anchor'[s] = anchor[s],
           Due(a) = Members(a),
           \/ Members(a) = {a} /\ state'[a] = "discarded" /\ anchor'[a] = 0
           \/ Members(a) # {a} /\ \A s \in Members(a) : state'[s] = "promoted" /\ anchor'[s] = a
    PROVE  Resolved' /\ Gathered'
  <1>1. Known' = Known
    BY DEF Known
  <1>2. a \in Members(a) /\ \A s \in Members(a) : anchor[s] = a /\ ~Decided(s) /\ s \in Sources
    BY MembersFacts
  <1>3. a \in Sources /\ a \in Known /\ a \in Undecided /\ a # 0
    BY Numbers DEF Least, Undecided, Known
  <1>4. \A s \in Members(a) : state'[s] \in {"discarded", "promoted"}
    BY <1>2
  <1>5. \A s \in Sources \ Members(a) : Decided(s)' <=> Decided(s)
    BY DEF Decided
  <1>6. ASSUME NEW b \in Sources, b <= a PROVE Due(b)' = Due(b)
    <2>1. ~(a <= b - 1)
      BY <1>3, <1>6, Numbers
    <2>2. \A s \in Known :
               \/ state'[s] = state[s] /\ anchor'[s] = anchor[s]
               \/ ~Decided(s) /\ ~Decided(s)'
               \/ ~Decided(s) /\ state'[s] = "discarded" /\ ~(s <= b - 1)
               \/ ~Decided(s) /\ state'[s] = "promoted" /\ ~(anchor'[s] <= b - 1)
      <3> SUFFICES ASSUME NEW s \in Members(a)
                   PROVE  \/ ~Decided(s) /\ state'[s] = "discarded" /\ ~(s <= b - 1)
                          \/ ~Decided(s) /\ state'[s] = "promoted" /\ ~(anchor'[s] <= b - 1)
        BY DEF Known
      <3> HIDE DEF Members
      <3> QED
        BY <1>2, <2>1
    <2>3. Done(b - 1)' = Done(b - 1)
      BY <2>2, DoneStays
    <2> QED
      BY <2>3, DueStays
  <1>7. Resolved'
    <2> SUFFICES ASSUME NEW b \in Known, Decided(b)', anchor'[b] \in {0, b}
                 PROVE  IF state'[b] = "discarded" THEN Due(b)' = {b} ELSE Due(b)' = Members(b)' /\ Due(b)' # {b}
      BY <1>1 DEF Resolved
    <2>1. b \in Sources
      BY DEF Known
    <2>2. CASE b = a
      <3>1. Due(b)' = Members(a)
        BY <1>3, <1>6, <2>2, Numbers
      <3>2. CASE Members(a) = {a} /\ state'[a] = "discarded"
        BY <2>2, <3>1, <3>2
      <3>3. CASE Members(a) # {a} /\ \A s \in Members(a) : state'[s] = "promoted" /\ anchor'[s] = a
        <4>1. Members(a)' = Members(a)
          <5>1. \A s \in Sources \ Members(a) : anchor'[s] = anchor[s]
            OBVIOUS
          <5> QED
            BY <1>2, <3>3, <5>1 DEF Members
        <4>2. state'[a] = "promoted"
          BY <1>2, <3>3
        <4> HIDE DEF Members
        <4> QED
          BY <2>2, <3>1, <3>3, <4>1, <4>2
      <3> HIDE DEF Members
      <3> QED
        BY <3>2, <3>3
    <2>3. CASE b # a
      <3>1. b \notin Members(a)
        <4>1. ASSUME b \in Members(a) PROVE FALSE
          <5>1. Members(a) # {a}
            BY <2>3, <4>1
          <5>2. anchor'[b] = a
            BY <4>1, <5>1
          <5> QED
            BY <1>3, <2>3, <5>2
        <4> QED
          BY <4>1
      <3>2. state'[b] = state[b] /\ anchor'[b] = anchor[b] /\ Decided(b) /\ anchor[b] \in {0, b}
        BY <1>5, <2>1, <3>1
      <3>3. b < a
        <4>1. Clustered(b)
          BY <2>1 DEF Rows
        <4> QED
          BY <1>3, <3>2, <4>1 DEF Clustered
      <3>4. Due(b)' = Due(b)
        BY <1>3, <1>6, <2>1, <3>3, Numbers
      <3>5. Members(b)' = Members(b)
        <4>1. \A s \in Members(a) : anchor[s] # b
          BY <1>2, <2>3
        <4>2. \A s \in Members(a) : anchor'[s] # b
          <5>1. b # 0
            BY <2>1, Numbers
          <5> HIDE DEF Members
          <5> QED
            BY <1>2, <2>3, <5>1
        <4>3. \A s \in Sources : s \notin Members(a) => anchor'[s] = anchor[s]
          OBVIOUS
        <4>4. \A s \in Sources : anchor'[s] = b <=> anchor[s] = b
          BY <4>1, <4>2, <4>3
        <4> QED
          BY <4>4 DEF Members
      <3> QED
        BY <3>2, <3>4, <3>5 DEF Resolved
    <2> QED
      BY <2>2, <2>3
  <1>8. Gathered'
    <2> SUFFICES ASSUME NEW s \in Known, anchor'[s] # 0, ~Decided(s)'
                 PROVE  FALSE
      BY <1>1 DEF Gathered
    <2>1. s \in Sources /\ s \notin Members(a)
      BY <1>4 DEF Known, Decided
    <2>2. ~Decided(s) /\ anchor[s] # 0
      BY <1>5, <2>1
    <2>3. anchor[s] = a
      BY <2>2, UndecidedCluster
    <2> QED
      BY <2>1, <2>3 DEF Members, Known
  <1> QED
    BY <1>7, <1>8

-----------------------------------------------------------------------------

\* What the sources hold is the same.
LEMMA SameSources ==
    ASSUME text' = text, retired' = retired, NEW s
    PROVE  Current(s)' = Current(s)
  BY DEF Current

\* The rows are the same, whatever the run does outside its scan.
LEMMA SameRowsGreedy ==
    ASSUME snap' = snap, state' = state, anchor' = anchor
    PROVE  /\ Resolved => Resolved'
           /\ Gathered => Gathered'
           /\ \A q : ScansAll(q) => ScansAll(q)'
           /\ \A a : Due(a)' = Due(a) /\ Members(a)' = Members(a)
  BY DEF Resolved, Gathered, ScansAll, Due, Done, Cluster, Members, Known, Decided

\* A run that is not at a scan has nothing to keep.
NotScanning(q) == q.pc \notin {"scan", "match", "finalize", "commit"}

\* Where the rows stay and the run is not, or no longer, at a scan.
LEMMA QuietStep ==
    ASSUME OneRunner, GreedyInv, text' = text, retired' = retired,
           snap' = snap, state' = state, anchor' = anchor, disturbed' = disturbed,
           \A p \in Runners : NotScanning(run'[p])
    PROVE  GreedyInv'
  <1>1. \A p \in Runners : ScansAll(run[p])'
    BY DEF NotScanning, ScansAll
  <1> QED
    BY <1>1, SameRowsGreedy, SameSources DEF GreedyInv

\* What the only run does is done.
LEMMA OnlyRunIs ==
    ASSUME OneRunner, PassInv, NEW r \in Runners, NEW q, run' = [run EXCEPT ![r] = q]
    PROVE  \A p \in Runners : run'[p] = q
  BY DEF OneRunner, PassInv

LEMMA ReturnQuiet ==
    ASSUME OneRunner, PassInv, NEW r \in Runners, Return(r)
    PROVE  \A p \in Runners : NotScanning(run'[p])
  <1> PICK q : q = Off
    OBVIOUS
  <1>1. \A p \in Runners : run'[p] = q
    BY OnlyRunIs DEF Return
  <1> QED
    BY <1>1 DEF Off, NotScanning

LEMMA RebuildGreedy ==
    ASSUME OneRunner, PassInv, GreedyInv, Rebuild, text' = text, retired' = retired,
           \A p \in Runners : NotScanning(run'[p])
    PROVE  GreedyInv'
  <1>1. \A s \in Sources : snap'[s] = Current(s)'
    BY SameSources DEF Rebuild
  <1>2. \A s \in Sources : state'[s] = "unassigned" /\ anchor'[s] = 0
    BY DEF Rebuild
  <1>3. Resolved' /\ Gathered'
    BY <1>2 DEF Resolved, Gathered, Known, Decided
  <1>4. \A p \in Runners : ScansAll(run[p])'
    BY DEF NotScanning, ScansAll
  <1>5. disturbed' = FALSE
    BY DEF Rebuild
  <1> QED
    BY <1>1, <1>3, <1>4, <1>5 DEF GreedyInv

LEMMA BeginGreedy ==
    ASSUME OneRunner, PassInv, GreedyInv, NEW r \in Runners, Begin(r)
    PROVE  GreedyInv'
  <1> PICK q : q = [pc |-> "begun"]
    OBVIOUS
  <1>1. \A p \in Runners : run'[p] = q
    BY OnlyRunIs DEF Begin
  <1>2. \A p \in Runners : NotScanning(run'[p])
    BY <1>1 DEF NotScanning
  <1>3. text' = text /\ retired' = retired
    BY DEF Begin, sourceVars
  <1>4. \/ Rebuild
        \/ snap' = snap /\ state' = state /\ anchor' = anchor /\ disturbed' = disturbed
    BY DEF Begin, workspaceVars
  <1> QED
    BY <1>2, <1>3, <1>4, RebuildGreedy, QuietStep

\* A page is read, and a checkpoint is made.
LEMMA BetweenGreedy ==
    ASSUME OneRunner, PassInv, GreedyInv, NEW r \in Runners,
           ReadCursor(r) \/ NextPage(r) \/ Checkpoint(r)
    PROVE  GreedyInv'
  <1>1. /\ text' = text /\ retired' = retired /\ snap' = snap /\ state' = state
        /\ anchor' = anchor /\ disturbed' = disturbed
    BY DEF ReadCursor, NextPage, Checkpoint, sourceVars, workspaceVars
  <1>2. NotScanning(run'[r])
    <2>1. CASE ReadCursor(r)
      BY <2>1 DEF ReadCursor, NotScanning, PassInv
    <2>2. CASE NextPage(r)
      <3>1. run[r] \in Paging
        BY <2>2, Shapes DEF NextPage, At, PassInv
      <3> DEFINE pc(page) == IF page = {} THEN "complete" ELSE "source"
      <3>2. \E page, next : run' = [run EXCEPT ![r] =
                [run[r] EXCEPT !.page = page, !.after = next, !.pc = pc(page)]]
        BY <2>2 DEF NextPage
      <3>3. \A page : pc(page) \in {"complete", "source"}
        OBVIOUS
      <3> HIDE DEF pc
      <3>4. run'[r].pc \in {"complete", "source"}
        BY <3>1, <3>2, <3>3 DEF Paging, PassInv
      <3> QED
        BY <3>4 DEF NotScanning
    <2>3. CASE Checkpoint(r)
      <3>1. run'[r].pc \in {"source", "paging", "complete"}
        BY <2>3 DEF Checkpoint, PassInv
      <3> QED
        BY <3>1 DEF NotScanning
    <2> QED
      BY <2>1, <2>2, <2>3
  <1>3. \A p \in Runners : NotScanning(run'[p])
    BY <1>2 DEF OneRunner
  <1> QED
    BY <1>1, <1>3, QuietStep

LEMMA TakeGreedy ==
    ASSUME OneRunner, PassInv, GreedyInv, NEW r \in Runners, TakeSource(r)
    PROVE  GreedyInv'
  <1> PICK a : a = Anchor(r)
    OBVIOUS
  <1>1. run[r] \in Paging /\ run[r].pc = "source"
    BY Shapes DEF TakeSource, At, PassInv
  <1>2. /\ a = Min(run[r].page) /\ a \in Known /\ a \in Sources
        /\ \A o \in Undecided : a <= o
        /\ PageKnows(run[r])
    BY <1>1, AnchorFacts DEF InLoop
  <1>3. /\ text' = text /\ retired' = retired /\ snap' = snap /\ disturbed' = disturbed
        /\ RecordMatch(a, a)
    BY DEF TakeSource, sourceVars
  <1>4. Rows /\ Clustered(a)
    BY <1>2 DEF PassInv, WorkspaceInv, Rows
  <1>5. \A p \in Runners : NotScanning(run'[p])
    <2> DEFINE pc == IF Matches(a, a) THEN "load" ELSE "checkpoint"
    <2>1. run' = [run EXCEPT ![r] = [run[r] EXCEPT !.pc = pc]]
      BY DEF TakeSource
    <2>2. pc \in {"load", "checkpoint"}
      OBVIOUS
    <2> HIDE DEF pc
    <2>3. run'[r].pc \in {"load", "checkpoint"}
      BY <1>1, <2>1, <2>2 DEF Paging, PassInv
    <2> QED
      BY <2>3 DEF NotScanning, OneRunner
  <1>6. CASE Matches(a, a)
    <2>1. state' = [state EXCEPT ![a] = "tentative"] /\ anchor' = [anchor EXCEPT ![a] = a]
      BY <1>3, <1>6 DEF RecordMatch
    <2>2. anchor[a] \in {0, a}
      BY <1>4, <1>6 DEF Matches, Clustered
    <2>3. Least(a)
      BY <1>1, <1>2, <2>2 DEF PageKnows, Least, Undecided
    <2>4. Resolved /\ Gathered => Resolved' /\ Gathered'
      BY <1>3, <1>4, <2>1, <2>3, AssignGreedy
    <2>5. \A p \in Runners : ScansAll(run[p])'
      BY <1>5 DEF NotScanning, ScansAll
    <2> QED
      BY <1>3, <2>4, <2>5, SameSources DEF GreedyInv
  <1>7. CASE ~Matches(a, a)
    <2>1. state' = state /\ anchor' = anchor
      <3>1. state \in [Sources -> States] /\ anchor \in [Sources -> 0 .. N]
        BY <1>4 DEF Rows
      <3> QED
        BY <1>2, <1>3, <1>7, <3>1 DEF RecordMatch
    <2> QED
      BY <1>3, <1>5, <2>1, QuietStep
  <1> QED
    BY <1>6, <1>7

\* The scan starts at the anchor, which is in its own cluster.
LEMMA LoadGreedy ==
    ASSUME OneRunner, PassInv, GreedyInv, NEW r \in Runners, LoadAnchor(r)
    PROVE  GreedyInv'
  <1> PICK a : a = Anchor(r)
    OBVIOUS
  <1>1. run[r] \in Paging /\ run[r].pc = "load"
    BY Shapes DEF LoadAnchor, At, PassInv
  <1>2. a = Min(run[r].page) /\ anchor[a] = a /\ Least(a)
    BY <1>1, AnchorFacts DEF InLoop, AtCluster
  <1>3. /\ text' = text /\ retired' = retired /\ snap' = snap /\ state' = state
        /\ anchor' = anchor /\ disturbed' = disturbed
    BY DEF LoadAnchor, Fail, sourceVars, workspaceVars
  <1>4. CASE Return(r)
    BY <1>3, <1>4, ReturnQuiet, QuietStep
  <1>5. CASE ~Return(r)
    <2>1. /\ run'[r].pc = "scan" /\ run'[r].page = run[r].page /\ run'[r].scanned = a
      BY <1>5 DEF LoadAnchor, Fail, PassInv
    <2>2. a \in Members(a)
      BY <1>2, MembersFacts DEF PassInv, WorkspaceInv
    <2>3. \A s \in Due(a) : s \in Members(a) \/ s > a
      BY <2>2 DEF Due, Cluster
    <2>4. ScansAll(run[r])'
      BY <1>2, <1>3, <2>1, <2>3, SameRowsGreedy DEF ScansAll
    <2>5. \A p \in Runners : ScansAll(run[p])'
      BY <2>4 DEF OneRunner
    <2> QED
      BY <1>3, <2>5, SameRowsGreedy, SameSources DEF GreedyInv
  <1> QED
    BY <1>4, <1>5

\* A page of the scan hands to the run what belongs in the cluster, and goes on
\* behind it.
LEMMA ScanGreedy ==
    ASSUME OneRunner, PassInv, GreedyInv, NEW r \in Runners, ScanCandidates(r)
    PROVE  GreedyInv'
  <1> PICK a : a = Anchor(r)
    OBVIOUS
  <1> DEFINE S == {s \in Sources : /\ EntityOf[s] = EntityOf[Anchor(r)] /\ s > run[r].scanned
                                   /\ state[s] = "unassigned" /\ Intact(s)}
             page == First(CandidatePage, S)
             similar == {s \in page : <<run[r].vector, snap[s]>> \in Similar}
             next == NextCursor(page, CandidatePage)
             pc == CASE similar # {} -> "match"
                     [] similar = {} /\ next # NoMore -> "scan"
                     [] OTHER -> "finalize"
  <1>1. run[r] \in Scanning /\ Knows(run[r]) /\ run[r].pc = "scan"
    BY Shapes DEF ScanCandidates, At, PassInv
  <1>2. /\ a = Min(run[r].page) /\ a \in Known /\ a \in Sources /\ anchor[a] = a /\ Least(a)
        /\ ScanKnows(run[r])
    BY <1>1, AnchorFacts DEF InLoop, AtCluster, Knows
  <1>3. /\ text' = text /\ retired' = retired /\ snap' = snap /\ state' = state
        /\ anchor' = anchor /\ disturbed' = disturbed
    BY DEF ScanCandidates, Fail, sourceVars, workspaceVars
  <1>4. CASE Return(r)
    BY <1>3, <1>4, ReturnQuiet, QuietStep
  <1>5. CASE ~Return(r)
    <2>1. /\ next \in 1 .. NoMore
          /\ \A s \in S : s \in page \/ s > next
      <3>1. S \in SUBSET Sources /\ CandidatePage \in Nat \ {0}
        BY WorkspaceAssumption
      <3> HIDE DEF S
      <3> QED
        BY <3>1, PageFacts
    <2>2. /\ pc \in {"match", "scan", "finalize"}
          /\ pc = "finalize" => similar = {} /\ next = NoMore
      OBVIOUS
    <2>3. run' = [run EXCEPT ![r] = [run[r] EXCEPT !.similar = similar, !.scanned = next, !.pc = pc]]
      BY <1>5 DEF ScanCandidates, Fail
    <2> HIDE DEF pc, similar, next
    <2>4. run'[r].pc = pc /\ run'[r].page = run[r].page /\ run'[r].similar = similar /\ run'[r].scanned = next
      BY <1>1, <2>3 DEF Scanning, PassInv
    <2>5. ASSUME ~disturbed, NEW s \in Due(a), s \notin Members(a)
          PROVE  s \in similar \/ s > next
      <3>1. /\ s \in Known /\ a < s /\ state[s] = "unassigned"
            /\ EntityOf[s] = EntityOf[a] /\ <<snap[a], snap[s]>> \in Similar
        BY <1>2, <2>5, Reached DEF PassInv, WorkspaceInv
      <3>2. s > run[r].scanned
        <4>1. run[r].similar = {}
          BY <1>1, <1>2 DEF ScanKnows
        <4> QED
          BY <1>1, <1>2, <2>5, <4>1 DEF GreedyInv, ScansAll
      <3>3. Intact(s)
        BY <2>5, <3>1 DEF GreedyInv, Intact, Known
      <3>4. s \in S
        BY <3>1, <3>2, <3>3 DEF Known
      <3>5. <<run[r].vector, snap[s]>> \in Similar
        BY <1>2, <3>1 DEF ScanKnows
      <3> HIDE DEF S
      <3> QED
        BY <2>1, <3>4, <3>5 DEF similar
    <2>6. ASSUME ~disturbed PROVE ScansAll(run[r])'
      <3>1. pc = "finalize" => \A s \in Due(a) : ~(s > next)
        <4>1. \A s \in Due(a) : s \in 1 .. N
          BY <1>2 DEF Due, Cluster, Sources
        <4> QED
          BY <2>2, <4>1, Numbers DEF NoMore
      <3>2. pc = "finalize" => Due(a) \subseteq Members(a)
        BY <2>2, <2>5, <2>6, <3>1
      <3> QED
        BY <1>2, <1>3, <2>2, <2>4, <2>5, <2>6, <3>2, SameRowsGreedy DEF ScansAll
    <2>7. ~disturbed => \A p \in Runners : ScansAll(run[p])'
      BY <2>6 DEF OneRunner
    <2> QED
      BY <1>3, <2>7, SameRowsGreedy, SameSources DEF GreedyInv
  <1> QED
    BY <1>4, <1>5

LEMMA MatchGreedy ==
    ASSUME OneRunner, PassInv, GreedyInv, NEW r \in Runners, MatchCandidate(r)
    PROVE  GreedyInv'
  <1> PICK a, m : a = Anchor(r) /\ m = Min(run[r].similar)
    OBVIOUS
  <1> DEFINE rest == run[r].similar \ {m}
             pc == CASE rest # {} -> "match"
                     [] rest = {} /\ run[r].scanned # NoMore -> "scan"
                     [] OTHER -> "finalize"
  <1>1. run[r] \in Scanning /\ Knows(run[r]) /\ run[r].pc = "match"
    BY Shapes DEF MatchCandidate, At, PassInv
  <1>2. a = Min(run[r].page) /\ a \in Known /\ a \in Sources /\ anchor[a] = a /\ Least(a)
    BY <1>1, AnchorFacts DEF InLoop, AtCluster
  <1>3. /\ m \in run[r].similar /\ m \in Known
        /\ a < m /\ state[m] = "unassigned"
        /\ EntityOf[m] = EntityOf[a] /\ <<snap[a], snap[m]>> \in Similar
        /\ state' = [state EXCEPT ![m] = "tentative"]
        /\ anchor' = [anchor EXCEPT ![m] = a]
    BY MatchFacts
  <1>4. text' = text /\ retired' = retired /\ snap' = snap /\ disturbed' = disturbed
    BY DEF MatchCandidate, sourceVars
  <1>5. \/ Return(r)
        \/ run' = [run EXCEPT ![r] = [run[r] EXCEPT !.similar = rest, !.pc = pc]]
    BY DEF MatchCandidate, Incomplete
  <1>6. /\ pc \in {"match", "scan", "finalize"}
        /\ pc = "finalize" => rest = {} /\ run[r].scanned = NoMore
    OBVIOUS
  <1> HIDE DEF rest, pc
  <1>7. Resolved /\ Gathered => /\ Resolved' /\ Gathered'
                                /\ Due(a)' = Due(a) /\ Members(a)' = Members(a) \union {m}
    BY <1>2, <1>3, <1>4, AssignGreedy DEF PassInv, WorkspaceInv
  <1>8. CASE Return(r)
    <2>1. \A p \in Runners : ScansAll(run[p])'
      BY <1>8, ReturnQuiet DEF NotScanning, ScansAll
    <2> QED
      BY <1>4, <1>7, <2>1, SameSources DEF GreedyInv
  <1>9. CASE run' = [run EXCEPT ![r] = [run[r] EXCEPT !.similar = rest, !.pc = pc]]
    <2>1. /\ run'[r].pc = pc /\ run'[r].page = run[r].page /\ run'[r].similar = rest
          /\ run'[r].scanned = run[r].scanned
      BY <1>1, <1>9 DEF Scanning, PassInv
    <2>2. ASSUME ~disturbed PROVE ScansAll(run[r])'
      <3>1. \A s \in Due(a) : s \in Members(a) \/ s \in run[r].similar \/ s > run[r].scanned
        BY <1>1, <1>2, <2>2 DEF GreedyInv, ScansAll
      <3>2. Due(a)' = Due(a) /\ Members(a)' = Members(a) \union {m}
        BY <1>7, <2>2 DEF GreedyInv
      <3>3. \A s \in run[r].similar : s = m \/ s \in rest
        BY DEF rest
      <3>4. \A s \in Due(a) : ~(s > NoMore)
        <4>1. \A s \in Due(a) : s \in 1 .. N
          BY <1>2 DEF Due, Cluster, Sources
        <4> QED
          BY <4>1, Numbers DEF NoMore
      <3> QED
        BY <1>2, <1>6, <2>1, <3>1, <3>2, <3>3, <3>4 DEF ScansAll
    <2>3. ~disturbed => \A p \in Runners : ScansAll(run[p])'
      BY <2>2 DEF OneRunner
    <2> QED
      BY <1>4, <1>7, <2>3, SameSources DEF GreedyInv
  <1> QED
    BY <1>5, <1>8, <1>9

\* A cluster that is finalized or discarded is the one it should be.
LEMMA CompleteCluster ==
    ASSUME PassInv, GreedyInv, ~disturbed, NEW r \in Runners,
           run[r].pc \in {"finalize", "commit"}, NEW a, a = Anchor(r)
    PROVE  Due(a) = Members(a) /\ anchor[a] = a /\ Least(a) /\ a = Min(run[r].page)
  <1>1. a = Min(run[r].page) /\ anchor[a] = a /\ Least(a)
    BY AnchorFacts DEF InLoop, AtCluster
  <1>2. Due(a) \subseteq Members(a)
    BY <1>1 DEF GreedyInv, ScansAll
  <1>3. ASSUME NEW s \in Members(a) PROVE s \in Due(a)
    <2>1. anchor[s] = a /\ ~Decided(s) /\ s \in Known /\ a # 0
      BY <1>1, MembersFacts, Numbers DEF PassInv, WorkspaceInv, Least, Undecided, Known
    <2> QED
      BY <2>1 DEF GreedyInv, Gathered
  <1> QED
    BY <1>1, <1>2, <1>3

LEMMA FinalizeGreedy ==
    ASSUME OneRunner, PassInv, GreedyInv, NEW r \in Runners, Finalize(r)
    PROVE  GreedyInv'
  <1> PICK a : a = Anchor(r)
    OBVIOUS
  <1>1. run[r] \in Scanning /\ run[r].pc = "finalize"
    BY Shapes DEF Finalize, At, PassInv
  <1>2. a = Min(run[r].page) /\ a \in Known /\ a \in Sources /\ anchor[a] = a /\ Least(a)
    BY <1>1, AnchorFacts DEF InLoop, AtCluster
  <1>3. Rows
    BY DEF PassInv, WorkspaceInv
  <1>4. text' = text /\ retired' = retired /\ snap' = snap /\ disturbed' = disturbed
    BY DEF Finalize, sourceVars
  <1>5. ~disturbed => Due(a) = Members(a)
    BY <1>1, CompleteCluster
  <1>6. CASE Return(r) /\ state' = state /\ anchor' = anchor
    BY <1>4, <1>6, ReturnQuiet, QuietStep
  <1>7. CASE /\ Cardinality(Members(a)) <= 1
             /\ state' = [state EXCEPT ![a] = IF snap[a] # NoText THEN "discarded" ELSE @]
             /\ anchor' = [anchor EXCEPT ![a] = 0]
             /\ run' = [run EXCEPT ![r].pc = "checkpoint"]
    <2>1. a \in Members(a) /\ Members(a) \in SUBSET Sources
      BY <1>2, <1>3, MembersFacts DEF Known
    <2>2. Members(a) = {a}
      BY <1>7, <2>1, AloneIs
    <2>3. /\ state'[a] = "discarded" /\ anchor'[a] = 0
          /\ \A s \in Sources : s \notin Members(a) => state'[s] = state[s] /\ anchor'[s] = anchor[s]
      BY <1>2, <1>3, <1>7, <2>2 DEF Known, Rows
    <2>4. ~disturbed => Resolved' /\ Gathered'
      BY <1>2, <1>3, <1>4, <1>5, <2>2, <2>3, DecidedGreedy DEF GreedyInv
    <2>5. run'[r].pc = "checkpoint"
      BY <1>1, <1>7 DEF Scanning, PassInv
    <2>6. \A p \in Runners : ScansAll(run[p])'
      BY <2>5 DEF ScansAll, OneRunner
    <2> QED
      BY <1>4, <2>4, <2>6, SameSources DEF GreedyInv
  <1>8. CASE /\ state' = [s \in Sources |-> IF s \in Members(a) THEN "finalized" ELSE state[s]]
             /\ anchor' = anchor
             /\ \E object : run' = [run EXCEPT ![r] =
                     [pc |-> "commit", after |-> @.after, cursor |-> @.cursor, page |-> @.page,
                      object |-> object, provenance |-> Members(a)]]
    <2>1. Resolved /\ Gathered => /\ Resolved' /\ Gathered'
                                  /\ Due(a)' = Due(a) /\ Members(a)' = Members(a)
      BY <1>2, <1>3, <1>4, <1>8, FinalizedGreedy
    <2>2. run'[r].pc = "commit" /\ run'[r].page = run[r].page
      BY <1>8 DEF PassInv
    <2>3. ~disturbed => ScansAll(run[r])'
      BY <1>2, <1>5, <2>1, <2>2 DEF ScansAll, GreedyInv
    <2>4. ~disturbed => \A p \in Runners : ScansAll(run[p])'
      BY <2>3 DEF OneRunner
    <2> QED
      BY <1>4, <2>1, <2>4, SameSources DEF GreedyInv
  <1> QED
    BY <1>6, <1>7, <1>8 DEF Finalize, Incomplete

LEMMA CommitGreedy ==
    ASSUME OneRunner, PassInv, GreedyInv, NEW r \in Runners, CommitPromotion(r)
    PROVE  GreedyInv'
  <1> PICK a : a = Anchor(r)
    OBVIOUS
  <1>1. run[r] \in Committing /\ Knows(run[r]) /\ run[r].pc = "commit"
    BY Shapes DEF CommitPromotion, At, PassInv
  <1>2. a = Min(run[r].page) /\ anchor[a] = a /\ Least(a)
    BY <1>1, AnchorFacts DEF InLoop, AtCluster
  <1>3. text' = text /\ retired' = retired
    BY DEF CommitPromotion, sourceVars
  <1>4. CASE Rebuild /\ Return(r)
    BY <1>3, <1>4, ReturnQuiet, RebuildGreedy
  <1>5. CASE Return(r) /\ UNCHANGED <<workspaceVars, disturbed>>
    BY <1>3, <1>5, ReturnQuiet, QuietStep DEF workspaceVars
  <1>6. CASE /\ state' = [s \in Sources |-> IF s \in Members(a) THEN "promoted" ELSE state[s]]
             /\ run' = [run EXCEPT ![r] =
                     [pc |-> "checkpoint", after |-> @.after, cursor |-> @.cursor, page |-> @.page]]
             /\ UNCHANGED <<snap, anchor, cursor, disturbed>>
    <2>1. ~disturbed => Due(a) = Members(a)
      BY <1>1, CompleteCluster
    <2>2. Members(a) # {a}
      <3>1. Cardinality(Members(a)) >= 2
        BY <1>1, <1>2 DEF Knows, CommitKnows
      <3>2. Cardinality({a}) = 1
        BY FS_Singleton
      <3> QED
        BY <3>1, <3>2
    <2>3. \A s \in Members(a) : anchor[s] = a /\ s \in Sources
      BY DEF Members
    <2>4. /\ \A s \in Members(a) : state'[s] = "promoted" /\ anchor'[s] = a
          /\ \A s \in Sources : s \notin Members(a) => state'[s] = state[s] /\ anchor'[s] = anchor[s]
      BY <1>6, <2>3
    <2>5. ~disturbed => Resolved' /\ Gathered'
      BY <1>2, <1>6, <2>1, <2>2, <2>4, DecidedGreedy DEF GreedyInv, PassInv, WorkspaceInv
    <2>6. run'[r].pc = "checkpoint"
      BY <1>6 DEF PassInv
    <2>7. \A p \in Runners : ScansAll(run[p])'
      BY <2>6 DEF ScansAll, OneRunner
    <2> QED
      BY <1>3, <1>6, <2>5, <2>7, SameSources DEF GreedyInv
  <1> QED
    BY <1>4, <1>5, <1>6 DEF CommitPromotion

\* Writers disturb when they change what a source holds.
LEMMA WriterGreedy ==
    ASSUME PassInv, GreedyInv, Writer
    PROVE  GreedyInv'
  <1>1. run' = run /\ snap' = snap /\ state' = state /\ anchor' = anchor
    BY WriterStep
  <1>2. /\ disturbed' \in BOOLEAN
        /\ ~disturbed' => ~disturbed /\ \A s \in Sources : Current(s)' = Current(s)
    <2>1. CASE SourceWrite
      BY <2>1 DEF SourceWrite, GreedyInv
    <2>2. CASE sourceVars' = sourceVars /\ disturbed' = disturbed
      BY <2>2, SameSources DEF sourceVars, GreedyInv
    <2> QED
      BY <2>1, <2>2 DEF Writer, RetireSource, DeleteSource, WriteSource, SupersedePromotion, ForgetPromotion
  <1>3. ASSUME NEW r \in Runners, ScansAll(run[r]) PROVE ScansAll(run[r])'
    BY <1>1, <1>3, SameRowsGreedy DEF ScansAll
  <1> QED
    BY <1>1, <1>2, <1>3, SameRowsGreedy DEF GreedyInv

LEMMA GreedyStep == OneRunner /\ PassInv /\ GreedyInv /\ [Next]_vars => GreedyInv'
  <1> SUFFICES ASSUME OneRunner, PassInv, GreedyInv, [Next]_vars PROVE GreedyInv'
    OBVIOUS
  <1>1. CASE Writer
    BY <1>1, WriterGreedy
  <1>2. ASSUME NEW r \in Runners, Pass(r) PROVE GreedyInv'
    <2>1. CASE Complete(r)
      BY <2>1, ReturnQuiet, QuietStep DEF Complete, sourceVars, workspaceVars
    <2> QED
      BY <1>2, <2>1, BeginGreedy, BetweenGreedy, TakeGreedy, LoadGreedy, ScanGreedy,
         MatchGreedy, FinalizeGreedy, CommitGreedy DEF Pass
  <1>3. ASSUME NEW r \in Runners, Stop(r) PROVE GreedyInv'
    BY <1>3, ReturnQuiet, QuietStep DEF Stop, Incomplete, sourceVars
  <1>4. CASE UNCHANGED vars
    <2>1. ASSUME NEW r \in Runners, ScansAll(run[r]) PROVE ScansAll(run[r])'
      BY <1>4, <2>1, SameRowsGreedy DEF ScansAll, vars
    <2> QED
      BY <1>4, <2>1, SameRowsGreedy, SameSources DEF GreedyInv, vars
  <1> QED
    BY <1>1, <1>2, <1>3, <1>4 DEF Next

-----------------------------------------------------------------------------

\* What one more source takes when nothing up to it is open: it has been taken
\* before, or it has been decided with the cluster it should get.
LEMMA OneMoreSource ==
    ASSUME PassInv, Resolved, NEW k \in Sources, \A o \in Undecided : k < o
    PROVE  /\ Done(k) = IF k \in Done(k - 1) \/ snap[k] = NoText THEN Done(k - 1)
                        ELSE Done(k - 1) \union Due(k)
           /\ k \in Known /\ k \notin Done(k - 1) =>
                 /\ Decided(k) /\ anchor[k] \in {0, k}
                 /\ IF state[k] = "discarded" THEN Due(k) = {k}
                    ELSE Due(k) = Members(k) /\ Due(k) # {k}
  <1>1. Rows /\ Clustered(k) /\ k \notin Undecided /\ k \in Nat /\ k # 0
    BY Numbers DEF PassInv, WorkspaceInv, Rows
  <1>2. ASSUME NEW s \in Known
        PROVE  /\ s \in Sources /\ s \in Nat /\ anchor[s] \in Nat /\ Clustered(s)
               /\ s <= k <=> s <= k - 1 \/ s = k
               /\ anchor[s] <= k <=> anchor[s] <= k - 1 \/ anchor[s] = k
    <2>1. s \in Sources /\ s \in Nat /\ anchor[s] \in 0 .. N /\ Clustered(s)
      BY <1>1, Numbers DEF Known, Rows
    <2> QED
      BY <1>1, <2>1, Numbers
  <1>3. ASSUME k \in Known, k \notin Done(k - 1)
        PROVE  Decided(k) /\ anchor[k] \in {0, k}
    <2>1. CASE anchor[k] \in {0, k}
      BY <1>1, <1>3, <2>1 DEF Undecided
    <2>2. CASE anchor[k] \notin {0, k}
      <3> DEFINE b == anchor[k]
      <3>1. b \in Known /\ anchor[b] = b /\ b <= k /\ b # 0 /\ (state[k] = "promoted" <=> state[b] = "promoted")
        BY <1>1, <2>2 DEF Clustered
      <3>2. b \in Sources /\ Clustered(b) /\ b < k /\ b \notin Undecided
        BY <1>1, <1>2, <2>2, <3>1
      <3>3. Decided(b)
        BY <3>1, <3>2 DEF Undecided
      <3>4. state[k] = "promoted"
        BY <3>1, <3>2, <3>3 DEF Clustered, Decided
      <3>5. k \in Done(k - 1)
        BY <1>2, <1>3, <2>2, <3>1, <3>4 DEF Done
      <3> QED
        BY <1>3, <3>5
    <2> QED
      BY <2>1, <2>2
  <1>4. CASE snap[k] = NoText
    <2>1. \A s \in Known : s # k /\ anchor[s] # k
      BY <1>1, <1>2, <1>4 DEF Clustered, Known
    <2>2. Done(k) = Done(k - 1)
      BY <1>2, <2>1 DEF Done
    <2> QED
      BY <1>4, <2>2 DEF Known
  <1>5. CASE snap[k] # NoText /\ k \in Done(k - 1)
    <2>1. state[k] = "promoted" /\ anchor[k] # k
      BY <1>1, <1>5, Numbers DEF Done
    <2>2. ASSUME NEW s \in Known, anchor[s] = k PROVE FALSE
      <3>1. Clustered(s)
        BY <1>2
      <3> QED
        BY <1>1, <2>1, <2>2, <3>1 DEF Clustered
    <2>3. \A s \in Known : state[s] = "discarded" => s # k
      BY <2>1
    <2>4. Done(k) = Done(k - 1)
      BY <1>2, <2>2, <2>3 DEF Done
    <2> QED
      BY <1>5, <2>4
  <1>6. CASE snap[k] # NoText /\ k \notin Done(k - 1)
    <2>1. k \in Known /\ Decided(k) /\ anchor[k] \in {0, k}
      BY <1>3, <1>6 DEF Known
    <2>2. IF state[k] = "discarded" THEN Due(k) = {k} ELSE Due(k) = Members(k) /\ Due(k) # {k}
      BY <2>1 DEF Resolved
    <2>3. CASE state[k] = "discarded"
      <3>1. \A s \in Known : anchor[s] # k
        BY <1>1, <1>2, <2>3 DEF Clustered
      <3>2. Done(k) = Done(k - 1) \union {k}
        BY <1>1, <1>2, <2>1, <2>3, <3>1 DEF Done
      <3> QED
        BY <1>6, <2>1, <2>2, <2>3, <3>2
    <2>4. CASE state[k] # "discarded"
      <3>1. state[k] = "promoted" /\ anchor[k] = k
        BY <1>1, <2>1, <2>4 DEF Decided, Clustered
      <3>2. ASSUME NEW s \in Known, anchor[s] = k PROVE state[s] = "promoted"
        <4>1. Clustered(s)
          BY <1>2
        <4> QED
          BY <1>1, <3>1, <3>2, <4>1 DEF Clustered
      <3>3. \A s \in Known : state[s] = "discarded" => s # k
        BY <3>1
      <3>4. Done(k) = Done(k - 1) \union {s \in Known : anchor[s] = k}
        BY <1>2, <3>2, <3>3 DEF Done
      <3>5. Members(k) = {s \in Known : anchor[s] = k}
        BY DEF Members, Known
      <3> QED
        BY <1>6, <2>1, <2>2, <2>4, <3>4, <3>5
    <2> QED
      BY <2>3, <2>4
  <1> QED
    BY <1>4, <1>5, <1>6

\* What has been taken is what the reference has taken.
LEMMA TakenIsDone ==
    ASSUME PassInv, Resolved, NEW n \in 0 .. N, \A o \in Undecided : n < o
    PROVE  Taken[n] = Done(n)
  <1> DEFINE S == {k \in 0 .. N : k <= n /\ Taken[k] # Done(k)}
  <1> SUFFICES ASSUME S # {} PROVE FALSE
    BY Numbers
  <1>1. PICK k \in S : \A j \in S : k <= j
    <2>1. S \in SUBSET Nat
      BY Numbers
    <2> HIDE DEF S
    <2> QED
      BY <2>1, LeastNat
  <1>2. k \in 0 .. N /\ k <= n /\ Taken[k] # Done(k)
    BY <1>1
  <1>3. CASE k = 0
    <2>1. Done(0) = {}
      <3>1. ASSUME NEW s \in Known PROVE ~(s <= 0) /\ (state[s] = "promoted" => ~(anchor[s] <= 0))
        <4>1. s \in Sources /\ Clustered(s) /\ anchor[s] \in 0 .. N
          BY DEF Known, PassInv, WorkspaceInv, Rows
        <4> QED
          BY <4>1, Numbers DEF Clustered
      <3> QED
        BY <3>1 DEF Done
    <2> QED
      BY <1>2, <1>3, <2>1, TakenUnfolds
  <1>4. CASE k # 0
    <2>1. k \in 1 .. N /\ k \in Sources /\ k - 1 \in 0 .. N /\ k - 1 <= n /\ ~(k <= k - 1)
      BY <1>2, <1>4, Numbers DEF Sources
    <2>2. Taken[k - 1] = Done(k - 1)
      BY <1>1, <2>1
    <2>3. \A o \in Undecided : k < o
      <3>1. \A o \in Undecided : o \in Nat
        BY Numbers DEF Undecided, Known
      <3> QED
        BY <1>2, <3>1
    <2>4. Done(k) = IF k \in Done(k - 1) \/ snap[k] = NoText THEN Done(k - 1)
                    ELSE Done(k - 1) \union Due(k)
      BY <2>1, <2>3, OneMoreSource
    <2>5. Taken[k] = IF k \in Taken[k - 1] \/ snap[k] = NoText THEN Taken[k - 1]
                     ELSE Taken[k - 1] \union Cluster(k, Taken[k - 1])
      BY <2>1, TakenUnfolds
    <2> QED
      BY <1>2, <2>2, <2>4, <2>5 DEF Due
  <1> QED
    BY <1>3, <1>4

LEMMA GreedyHolds == PassInv /\ GreedyInv => ClusteringIsGreedy
  <1> SUFFICES ASSUME PassInv, GreedyInv, ~disturbed, NEW a \in 1 .. cursor, IsAnchor(a)
               PROVE  LET c == Cluster(a, Taken[a - 1])
                      IN  IF c = {a} THEN state[a] = "discarded"
                          ELSE \A s \in c : state[s] = "promoted" /\ anchor[s] = a
    BY DEF ClusteringIsGreedy
  <1>1. Rows /\ Resolved /\ cursor \in 0 .. N /\ CursorCoversDecided
    BY DEF PassInv, WorkspaceInv, GreedyInv
  <1>2. a \in Sources /\ a \in Nat /\ a <= cursor /\ a - 1 \in 0 .. N
    BY <1>1, Numbers DEF Sources
  <1>3. ASSUME NEW o \in Undecided PROVE a < o /\ a - 1 < o
    <2>1. ~(o <= cursor)
      BY <1>1 DEF CursorCoversDecided, Undecided, Known, Decided
    <2> QED
      BY <1>1, <1>2, <2>1, Numbers DEF Undecided, Known
  <1>4. Taken[a - 1] = Done(a - 1)
    BY <1>1, <1>2, <1>3, TakenIsDone
  <1>5. a \in Known /\ a \notin Done(a - 1) /\ Cluster(a, Taken[a - 1]) = Due(a)
    BY <1>2, <1>4 DEF IsAnchor, Known, Due
  <1>6. /\ Decided(a) /\ anchor[a] \in {0, a}
        /\ IF state[a] = "discarded" THEN Due(a) = {a} ELSE Due(a) = Members(a) /\ Due(a) # {a}
    BY <1>1, <1>2, <1>3, <1>5, OneMoreSource
  <1>7. CASE state[a] = "discarded"
    BY <1>5, <1>6, <1>7
  <1>8. CASE state[a] # "discarded"
    <2>1. state[a] = "promoted"
      BY <1>6, <1>8 DEF Decided
    <2>2. ASSUME NEW s \in Members(a) PROVE state[s] = "promoted" /\ anchor[s] = a
      <3>1. s \in Sources /\ anchor[s] = a /\ Clustered(s) /\ a # 0
        BY <1>1, <1>2, Numbers DEF Members, Rows
      <3> QED
        BY <2>1, <3>1 DEF Clustered
    <2> QED
      BY <1>5, <1>6, <1>8, <2>2
  <1> QED
    BY <1>7, <1>8

\* The clusters are those of the reference, whatever the pages, and however
\* often the pass was interrupted and resumed, as long as no source changed.
THEOREM ClusteringIsAlwaysGreedy == OneRunner /\ Spec => []ClusteringIsGreedy
  <1> SUFFICES ASSUME OneRunner PROVE Spec => []ClusteringIsGreedy
    OBVIOUS
  <1>1. Init => GreedyInv
    BY DEF Init, GreedyInv
  <1>2. PassInv /\ GreedyInv /\ [Next]_vars => GreedyInv'
    BY GreedyStep
  <1> QED
    BY <1>1, <1>2, GreedyHolds, PassInvariant, PTL DEF Spec
====
