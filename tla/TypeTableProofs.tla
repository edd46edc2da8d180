-------------------------- MODULE TypeTableProofs --------------------------
(***************************************************************************)
(* Theorems about TypeTable: for every UML model the walk of the           *)
(* constructor finds the classifiers that can be reached, and numbers them *)
(* without gaps.                                                           *)
(***************************************************************************)
EXTENDS TypeTable, SequenceTheorems, FiniteSetTheorems, TLAPS

\* The elements the walk is done with, and those it has met.
Seen == DOMAIN m_id_to_type \cup opened \cup Others
Met == Seen \cup Members(queue)

\* Nothing that follows is forgotten, ...
Covered ==
    /\ uml.root \in Met
    /\ \A e \in Seen : Successors(e) \subseteq Met

\* ... and nothing is met that does not follow.
Sound == DOMAIN m_id_to_type \cup Members(queue) \subseteq Reachable

Inv == TypeOK /\ OneToOne /\ Covered /\ Sound

-----------------------------------------------------------------------------
(* Sequences and sets *)

LEMMA MembersConcat ==
    ASSUME NEW S, NEW s \in Seq(S), NEW t \in Seq(S)
    PROVE  /\ s \o t \in Seq(S)
           /\ Members(s \o t) = Members(s) \cup Members(t)
<1>1. Members(s \o t) = Range(s \o t) /\ Members(s) = Range(s)
      /\ Members(t) = Range(t)
      BY DEF Members, Range
<1>2. s \o t \in Seq(S)
      BY ConcatProperties
<1> QED BY <1>1, <1>2, RangeConcatenation

LEMMA MembersConcatTwo ==
    ASSUME NEW S, NEW q \in Seq(S), NEW s \in Seq(S), NEW t \in Seq(S)
    PROVE  /\ q \o s \o t \in Seq(S)
           /\ Members(q \o s \o t) = Members(q) \cup Members(s) \cup Members(t)
<1> DEFINE u == q \o s
<1>1. u \in Seq(S) /\ Members(u) = Members(q) \cup Members(s)
      BY MembersConcat
<1> HIDE DEF u
<1>2. u \o t \in Seq(S) /\ Members(u \o t) = Members(u) \cup Members(t)
      BY <1>1, MembersConcat
<1> QED BY <1>1, <1>2 DEF u

LEMMA MembersHeadTail ==
    ASSUME NEW S, NEW s \in Seq(S), s # <<>>
    PROVE  /\ Head(s) \in S
           /\ Tail(s) \in Seq(S)
           /\ Members(s) = {Head(s)} \cup Members(Tail(s))
<1>1. /\ Head(s) \in S /\ Tail(s) \in Seq(S)
      /\ Len(s) \in Nat \ {0}
      /\ Len(Tail(s)) = Len(s) - 1
      /\ \A i \in 1 .. Len(Tail(s)) : Tail(s)[i] = s[i + 1]
      /\ DOMAIN s = 1 .. Len(s) /\ DOMAIN Tail(s) = 1 .. Len(Tail(s))
      BY HeadTailProperties, LenProperties, EmptySeq
<1>2. Head(s) = s[1]
      BY <1>1
<1>3. ASSUME NEW i \in DOMAIN s PROVE s[i] \in {Head(s)} \cup Members(Tail(s))
      <2>1. CASE i = 1
            BY <1>2, <2>1
      <2>2. CASE i # 1
            <3>1. i - 1 \in 1 .. Len(Tail(s)) /\ (i - 1) + 1 = i
                  BY <1>1, <2>2
            <3>2. Tail(s)[i - 1] = s[i]
                  BY <1>1, <3>1
            <3> QED BY <1>1, <3>1, <3>2 DEF Members
      <2> QED BY <2>1, <2>2
<1>4. ASSUME NEW i \in DOMAIN Tail(s) PROVE Tail(s)[i] \in Members(s)
      <2>1. i + 1 \in DOMAIN s /\ Tail(s)[i] = s[i + 1]
            BY <1>1
      <2> QED BY <2>1 DEF Members
<1>5. Head(s) \in Members(s)
      BY <1>1, <1>2 DEF Members
<1>6. Members(s) \subseteq {Head(s)} \cup Members(Tail(s))
      BY <1>3 DEF Members
<1>7. Members(Tail(s)) \subseteq Members(s)
      BY <1>4 DEF Members
<1> QED BY <1>1, <1>5, <1>6, <1>7

\* What ptrs() lists are the members of the set.
LEMMA ListingType ==
    ASSUME NEW S, IsFiniteSet(S), NEW T, S \subseteq T, NEW s \in Listings(S)
    PROVE  s \in Seq(T) /\ Members(s) = S
<1>1. Cardinality(S) \in Nat
      BY FS_CardinalityType
<1>2. s \in Seq(S) /\ Members(s) = S
      BY <1>1, SeqDef DEF Listings
<1> QED BY <1>2, SeqMonotonic

LEMMA ElementsFinite ==
    ASSUME NEW S \in SUBSET Elements PROVE IsFiniteSet(S)
<1>1. IsFiniteSet(Elements)
      BY TypeTableAssumption, FS_Union DEF Elements
<1> QED BY <1>1, FS_Subset

-----------------------------------------------------------------------------
(* The UML model *)

LEMMA SuccessorsType ==
    ASSUME uml \in Models, NEW e \in Elements
    PROVE  Successors(e) \subseteq Elements
BY TypeTableAssumption DEF Successors, UmlModel, Elements, AttributeTypes

\* What follows an element that can be reached can be reached.
LEMMA ReachableClosed ==
    ASSUME uml \in Models
    PROVE  /\ uml.root \in Reachable
           /\ \A e \in Reachable : Successors(e) \subseteq Reachable
<1>1. uml.root \in Elements
      BY TypeTableAssumption DEF UmlModel
<1>2. ASSUME NEW e \in Reachable, NEW f \in Successors(e)
      PROVE  f \in Reachable
      <2>1. e \in Elements /\ f \in Elements
            BY <1>2, SuccessorsType DEF Reachable
      <2>2. ASSUME NEW S \in SUBSET Elements, uml.root \in S, Closed(S)
            PROVE  f \in S
            BY <1>2, <2>2 DEF Reachable, Closed
      <2> QED BY <2>1, <2>2 DEF Reachable
<1> QED BY <1>1, <1>2 DEF Reachable

LEMMA SameModel ==
    ASSUME uml' = uml
    PROVE  /\ Reachable' = Reachable
           /\ \A e : Successors(e)' = Successors(e)
BY DEF Reachable, Closed, Successors, AttributeTypes

-----------------------------------------------------------------------------
(* The invariant *)

LEMMA InitInv == Init => Inv
<1> SUFFICES ASSUME Init PROVE Inv
    OBVIOUS
<1>1. uml \in Models /\ uml.root \in Elements
      BY TypeTableAssumption DEF Init, UmlModel
<1>2. queue \in Seq(Elements) /\ Members(queue) = {uml.root}
      BY <1>1 DEF Init, Members
<1>3. TypeOK
      <2>1. 0 .. next_type - 1 = {}
            BY DEF Init
      <2>2. /\ m_uml_types \in [0 .. next_type - 1 -> Classifiers]
            /\ m_id_to_type \in [{} -> 0 .. next_type - 1]
            /\ m_name_to_type \in [{} -> 0 .. next_type - 1]
            BY <2>1 DEF Init, NoEntry
      <2> QED BY <1>1, <1>2, <2>2 DEF Init, TypeOK
<1>4. DOMAIN m_uml_types = {} /\ DOMAIN m_id_to_type = {} /\ opened = {}
      BY DEF Init, NoEntry
<1>5. OneToOne
      BY <1>4 DEF OneToOne
<1>6. Covered
      BY <1>2, <1>4, TypeTableAssumption
      DEF Covered, Met, Seen, Successors, Elements
<1>7. Sound
      BY <1>1, <1>2, <1>4, ReachableClosed DEF Sound
<1> QED BY <1>3, <1>5, <1>6, <1>7 DEF Inv

\* The front of the queue is taken off.
LEMMA Front ==
    ASSUME Inv, queue # <<>>
    PROVE  /\ Head(queue) \in Elements /\ Head(queue) \in Reachable
           /\ Tail(queue) \in Seq(Elements)
           /\ Members(queue) = {Head(queue)} \cup Members(Tail(queue))
<1>1. queue \in Seq(Elements)
      BY DEF Inv, TypeOK
<1>2. /\ Head(queue) \in Elements
      /\ Tail(queue) \in Seq(Elements)
      /\ Members(queue) = {Head(queue)} \cup Members(Tail(queue))
      BY <1>1, MembersHeadTail
<1> QED BY <1>2 DEF Inv, Sound

LEMMA SkipStep == ASSUME Inv, Skip PROVE Inv'
<1>1. /\ queue' = Tail(queue) /\ queue # <<>> /\ uml' = uml
      /\ UNCHANGED <<next_type, m_uml_types, m_id_to_type, m_name_to_type,
                     opened>>
      BY DEF Skip, PassedOver
<1>2. /\ Head(queue) \in Elements
      /\ queue' \in Seq(Elements)
      /\ Members(queue) = {Head(queue)} \cup Members(queue')
      BY <1>1, Front
<1>3. Head(queue) \in Seen
      BY <1>2 DEF Skip, Tracked, Seen, Elements
<1>4. Met' = Met /\ Seen' = Seen /\ Members(queue)' = Members(queue')
      BY <1>1, <1>2, <1>3 DEF Met, Seen
<1>5. TypeOK' /\ OneToOne'
      BY <1>1, <1>2 DEF Inv, TypeOK, OneToOne
<1>6. Covered' /\ Sound'
      BY <1>1, <1>2, <1>4, SameModel DEF Inv, Covered, Sound
<1> QED BY <1>5, <1>6 DEF Inv

\* The tables after a new classifier.
LEMMA TrackTables ==
    ASSUME Inv, Track
    PROVE  /\ next_type' = next_type + 1
           /\ m_uml_types' \in [0 .. next_type' - 1 -> Classifiers]
           /\ m_id_to_type' \in
                 [DOMAIN m_id_to_type \cup {Head(queue)} -> 0 .. next_type' - 1]
           /\ m_name_to_type' \in
                 [DOMAIN m_name_to_type \cup {uml.name[Head(queue)]} ->
                     0 .. next_type' - 1]
           /\ OneToOne'
<1> DEFINE c == Head(queue)
<1>1. /\ next_type \in Nat
      /\ m_uml_types \in [0 .. next_type - 1 -> Classifiers]
      /\ m_id_to_type \in [DOMAIN m_id_to_type -> 0 .. next_type - 1]
      /\ m_name_to_type \in [DOMAIN m_name_to_type -> 0 .. next_type - 1]
      BY DEF Inv, TypeOK
<1>2. /\ c \in Classifiers /\ c \notin DOMAIN m_id_to_type
      /\ m_uml_types' = Emplace(m_uml_types, next_type, c)
      /\ m_id_to_type' = Emplace(m_id_to_type, c, next_type)
      /\ m_name_to_type' = Emplace(m_name_to_type, uml.name[c], next_type)
      /\ next_type' = next_type + 1
      BY DEF Track, Tracked, NextNumber
<1> HIDE DEF c
<1>3. /\ 0 .. next_type' - 1 = 0 .. next_type - 1 \cup {next_type}
      /\ next_type \notin 0 .. next_type - 1
      BY <1>1, <1>2
<1>4. m_uml_types' \in [0 .. next_type' - 1 -> Classifiers]
      BY <1>1, <1>2, <1>3 DEF Emplace
<1>5. m_id_to_type' \in [DOMAIN m_id_to_type \cup {c} -> 0 .. next_type' - 1]
      BY <1>1, <1>2, <1>3 DEF Emplace
<1>6. m_name_to_type' \in [DOMAIN m_name_to_type \cup {uml.name[c]} ->
                              0 .. next_type' - 1]
      BY <1>1, <1>2, <1>3 DEF Emplace
<1>7. /\ \A n \in 0 .. next_type - 1 : m_uml_types'[n] = m_uml_types[n]
      /\ m_uml_types'[next_type] = c
      /\ \A d \in DOMAIN m_id_to_type : m_id_to_type'[d] = m_id_to_type[d]
      /\ m_id_to_type'[c] = next_type
      /\ DOMAIN m_uml_types' = 0 .. next_type - 1 \cup {next_type}
      /\ DOMAIN m_id_to_type' = DOMAIN m_id_to_type \cup {c}
      BY <1>1, <1>2, <1>3 DEF Emplace
<1>8. OneToOne'
      BY <1>1, <1>2, <1>3, <1>7 DEF Inv, OneToOne
<1> QED BY <1>2, <1>4, <1>5, <1>6, <1>8 DEF c

LEMMA TrackStep == ASSUME Inv, Track PROVE Inv'
<1> DEFINE c == Head(queue)
<1>1. /\ queue # <<>> /\ uml' = uml /\ opened' = opened
      /\ c \in Classifiers /\ c \notin Packages
      BY TypeTableAssumption DEF Track
<1>2. /\ c \in Reachable
      /\ Tail(queue) \in Seq(Elements)
      /\ Members(queue) = {c} \cup Members(Tail(queue))
      BY <1>1, Front
<1>3. /\ uml \in UmlModel
      /\ AttributeTypes(c) \subseteq Elements
      /\ Bases(c) \subseteq Elements
      /\ Successors(c) = AttributeTypes(c) \cup Bases(c)
      BY <1>1, TypeTableAssumption
      DEF Inv, TypeOK, UmlModel, Elements, AttributeTypes, Bases, Successors
<1>4. PICK t \in Listings(AttributeTypes(c)), g \in Listings(Bases(c)) :
         queue' = Tail(queue) \o t \o g
      BY DEF Track
<1>5. /\ t \in Seq(Elements) /\ Members(t) = AttributeTypes(c)
      /\ g \in Seq(Elements) /\ Members(g) = Bases(c)
      BY <1>3, ElementsFinite, ListingType
<1> DEFINE rest == Tail(queue)
<1>6. /\ rest \o t \o g \in Seq(Elements)
      /\ Members(rest \o t \o g) =
            Members(rest) \cup Members(t) \cup Members(g)
      <2>1. rest \in Seq(Elements)
            BY <1>2
      <2> HIDE DEF rest
      <2> QED BY <1>5, <2>1, MembersConcatTwo
<1>7. /\ queue' \in Seq(Elements)
      /\ Members(queue') = Members(Tail(queue)) \cup Successors(c)
      <2>1. queue' = rest \o t \o g
            BY <1>4
      <2>2. Members(queue') = Members(rest) \cup Members(t) \cup Members(g)
            BY <1>6, <2>1
      <2> QED BY <1>3, <1>5, <1>6, <2>1, <2>2
<1>8. DOMAIN m_id_to_type' = DOMAIN m_id_to_type \cup {c}
      BY TrackTables
<1>9. /\ Seen' = Seen \cup {c}
      /\ Met' = Met \cup Successors(c)
      /\ Members(queue)' = Members(queue')
      BY <1>1, <1>2, <1>7, <1>8 DEF Seen, Met
<1>10. TypeOK'
       <2>1. /\ DOMAIN m_id_to_type \cup {c} \in SUBSET Classifiers
             /\ DOMAIN m_name_to_type \cup {uml.name[c]} \in SUBSET Names
             /\ uml \in Models /\ next_type \in Nat
             /\ opened \in SUBSET Packages
             BY <1>1, <1>3 DEF Inv, TypeOK, UmlModel
       <2>2. /\ m_uml_types' \in [0 .. next_type' - 1 -> Classifiers]
             /\ \E S \in SUBSET Classifiers :
                   m_id_to_type' \in [S -> 0 .. next_type' - 1]
             /\ \E S \in SUBSET Names :
                   m_name_to_type' \in [S -> 0 .. next_type' - 1]
             BY <2>1, TrackTables
       <2>3. next_type' \in Nat
             BY <2>1, TrackTables
       <2> QED BY <1>1, <1>7, <2>1, <2>2, <2>3 DEF TypeOK
<1>11. Covered'
       BY <1>1, <1>9, SameModel DEF Inv, Covered
<1>12. Sound'
       <2>1. Successors(c) \subseteq Reachable
             BY <1>2, ReachableClosed DEF Inv, TypeOK
       <2> QED BY <1>1, <1>2, <1>7, <1>8, <1>9, <2>1, SameModel
               DEF Inv, Sound
<1> QED BY <1>10, <1>11, <1>12, TrackTables DEF Inv

LEMMA OpenStep == ASSUME Inv, OpenPackage PROVE Inv'
<1> DEFINE p == Head(queue)
<1>1. /\ queue # <<>> /\ uml' = uml /\ opened' = opened \cup {p}
      /\ p \in Packages /\ p \notin Classifiers
      /\ UNCHANGED <<next_type, m_uml_types, m_id_to_type, m_name_to_type>>
      BY TypeTableAssumption DEF OpenPackage
<1>2. /\ p \in Reachable
      /\ Tail(queue) \in Seq(Elements)
      /\ Members(queue) = {p} \cup Members(Tail(queue))
      BY <1>1, Front
<1>3. /\ uml.contents[p] \subseteq Elements
      /\ Successors(p) = uml.contents[p]
      BY <1>1, TypeTableAssumption DEF Inv, TypeOK, UmlModel, Successors
<1>4. PICK s \in Listings(uml.contents[p]) : queue' = Tail(queue) \o s
      BY DEF OpenPackage
<1>5. s \in Seq(Elements) /\ Members(s) = uml.contents[p]
      BY <1>3, ElementsFinite, ListingType
<1>6. /\ queue' \in Seq(Elements)
      /\ Members(queue') = Members(Tail(queue)) \cup Successors(p)
      <2> DEFINE rest == Tail(queue)
      <2>1. rest \in Seq(Elements) /\ queue' = rest \o s
            BY <1>2, <1>4
      <2> HIDE DEF rest
      <2>2. /\ rest \o s \in Seq(Elements)
            /\ Members(rest \o s) = Members(rest) \cup Members(s)
            BY <1>5, <2>1, MembersConcat
      <2> QED BY <1>3, <1>5, <2>1, <2>2 DEF rest
<1>7. /\ Seen' = Seen \cup {p}
      /\ Met' = Met \cup Successors(p)
      /\ Members(queue)' = Members(queue')
      BY <1>1, <1>2, <1>6 DEF Seen, Met
<1>8. TypeOK' /\ OneToOne'
      BY <1>1, <1>6 DEF Inv, TypeOK, OneToOne
<1>9. Covered'
      BY <1>1, <1>7, SameModel DEF Inv, Covered
<1>10. Sound'
       <2>1. Successors(p) \subseteq Reachable
             BY <1>2, ReachableClosed DEF Inv, TypeOK
       <2> QED BY <1>1, <1>2, <1>6, <1>7, <2>1, SameModel DEF Inv, Sound
<1> QED BY <1>8, <1>9, <1>10 DEF Inv

LEMMA InvStep == Inv /\ [Next]_vars => Inv'
<1> SUFFICES ASSUME Inv, [Next]_vars PROVE Inv'
    OBVIOUS
<1>1. CASE UNCHANGED vars
      <2>1. /\ uml' = uml
            /\ UNCHANGED <<queue, next_type, m_uml_types, m_id_to_type,
                           m_name_to_type, opened>>
            BY <1>1 DEF vars
      <2> QED BY <2>1, SameModel
              DEF Inv, TypeOK, OneToOne, Covered, Sound, Met, Seen
<1> QED BY <1>1, SkipStep, TrackStep, OpenStep DEF Next

\* The inductive invariant: what is behind the walk leads only to what is
\* behind it or in the queue.
THEOREM WalkInvariance == Spec => []Inv
BY InitInv, InvStep, PTL DEF Spec

\* The tables have their types.
THEOREM TypeTableTypeCorrect == Spec => []TypeOK
<1>1. Inv => TypeOK
      BY DEF Inv
<1> QED BY <1>1, WalkInvariance, PTL

\* Numbers and classifiers correspond one to one.
THEOREM NumberingIsOneToOne == Spec => []OneToOne
<1>1. Inv => OneToOne
      BY DEF Inv
<1> QED BY <1>1, WalkInvariance, PTL

\* The constructor tracks the classifiers that can be reached and no others.
THEOREM TracksAllAndOnly == Spec => []TracksReachable
<1>1. Inv => TracksReachable
      <2> SUFFICES ASSUME Inv, queue = <<>>
                   PROVE  DOMAIN m_id_to_type = Reachable \cap Classifiers
          BY DEF TracksReachable
      <2>1. Met = Seen
            BY DEF Met, Members
      <2>2. Seen \in SUBSET Elements /\ uml.root \in Seen /\ Closed(Seen)
            BY <2>1 DEF Inv, TypeOK, Covered, Closed, Seen, Elements
      <2>3. Reachable \subseteq Seen
            BY <2>2 DEF Reachable
      <2>4. Seen \cap Classifiers \subseteq DOMAIN m_id_to_type
            BY TypeTableAssumption DEF Inv, TypeOK, Seen
      <2>5. DOMAIN m_id_to_type \subseteq Reachable \cap Classifiers
            BY DEF Inv, TypeOK, Sound
      <2> QED BY <2>3, <2>4, <2>5
<1> QED BY <1>1, WalkInvariance, PTL

\* Creating an element of a tracked type finds the number of every base that the
\* type had when its manager was generated.
THEOREM BasesAreTracked == Spec => []BasesTracked
<1>1. Inv => BasesTracked
      <2> SUFFICES ASSUME Inv, queue = <<>>, NEW now \in UmlModel,
                          NEW c \in DOMAIN m_id_to_type
                   PROVE  BasesWithoutNumber(now, c)
                             \subseteq now.generals[c] \ uml.generals[c]
          BY DEF BasesTracked
      <2>1. Met = Seen /\ c \in Seen /\ c \in Classifiers
            BY DEF Met, Members, Seen, Inv, TypeOK
      <2>2. uml.generals[c] \subseteq Seen \cap Classifiers
            BY <2>1, TypeTableAssumption
            DEF Inv, Covered, Successors, TypeOK, UmlModel
      <2>3. Seen \cap Classifiers \subseteq DOMAIN m_id_to_type
            BY TypeTableAssumption DEF Inv, TypeOK, Seen
      <2> QED BY <2>2, <2>3 DEF BasesWithoutNumber
<1> QED BY <1>1, WalkInvariance, PTL

-----------------------------------------------------------------------------
(* The walk ends *)

\* How far a package is below the top, by ContainmentAssumption.
Depth(m) == CHOOSE depth \in [Packages -> 0 .. Cardinality(Packages)] :
               DeeperInside(m, depth)

\* A package stands in s only once.
Once(s) ==
    \A i, j \in 1 .. Len(s) : s[i] \in Packages /\ s[i] = s[j] => i = j

\* Packages are met through the one package that owns them, from the root
\* downwards, so that none is met again.
Downwards ==
    \A p \in Met \cap Packages :
       /\ p = uml.root \/ \E o \in opened : p \in uml.contents[o]
       /\ uml.root \in Packages
       /\ Depth(uml)[uml.root] <= Depth(uml)[p]

OpenedOnce == Once(queue) /\ Members(queue) \cap opened = {}

TInv == Downwards /\ OpenedOnce

\* What the walk has still to meet, and what a step of the loop does to it:
\* every iteration meets an element more, or shortens the queue.
Ahead == Elements \ Seen
Shrinks ==
    \/ Cardinality(Ahead') < Cardinality(Ahead)
    \/ Ahead' = Ahead /\ Len(queue') < Len(queue)

\* What an iteration needs: the library can list every set that it asks for.
GoesOn ==
    queue # <<>> =>
       LET front == Head(queue) IN
       \/ front \in Others
       \/ front \in Packages /\ Listings(uml.contents[front]) # {}
       \/ /\ front \in Classifiers
          /\ \/ Tracked(front)
             \/ /\ Listings(AttributeTypes(front)) # {}
                /\ Listings(Bases(front)) # {}

LEMMA DepthDeepens ==
    ASSUME NEW m \in Models
    PROVE  Depth(m) \in [Packages -> Nat] /\ DeeperInside(m, Depth(m))
<1>1. \E depth \in [Packages -> 0 .. Cardinality(Packages)] :
         DeeperInside(m, depth)
      BY ContainmentAssumption
<1>2. /\ Depth(m) \in [Packages -> 0 .. Cardinality(Packages)]
      /\ DeeperInside(m, Depth(m))
      BY <1>1 DEF Depth
<1>3. Cardinality(Packages) \in Nat
      BY TypeTableAssumption, FS_CardinalityType
<1> QED BY <1>2, <1>3

\* A listing of a finite set exists, and repeats nothing.
LEMMA ListingExists ==
    ASSUME NEW S, IsFiniteSet(S) PROVE Listings(S) # {}
<1>1. PICK f \in Bijection(1 .. Cardinality(S), S) : TRUE
      BY FS_CardinalityType DEF ExistsBijection
<1>2. f \in [1 .. Cardinality(S) -> S] /\ Members(f) = S
      BY <1>1 DEF Bijection, Injection, Surjection, Members
<1> QED BY <1>2 DEF Listings

LEMMA ListingOnce ==
    ASSUME NEW S, IsFiniteSet(S), NEW s \in Listings(S) PROVE Once(s)
<1> DEFINE n == Cardinality(S)
<1>1. n \in Nat
      BY FS_CardinalityType
<1>2. IsFiniteSet(1 .. n) /\ Cardinality(1 .. n) = n
      BY <1>1, FS_Interval
<1>3. s \in Surjection(1 .. n, S)
      BY DEF Listings, Members, Surjection
<1>4. s \in Injection(1 .. n, S)
      BY <1>2, <1>3, FS_SurjSameCardinalityImpliesInj
<1>5. s \in [1 .. n -> S] /\ Len(s) = n
      BY <1>1 DEF Listings
<1> QED BY <1>4, <1>5 DEF Once, Injection, IsInjective

LEMMA OnceTail ==
    ASSUME NEW s \in Seq(Elements), s # <<>>, Once(s)
    PROVE  /\ Once(Tail(s))
           /\ Head(s) \in Packages => Head(s) \notin Members(Tail(s))
<1>1. /\ Len(s) \in Nat \ {0} /\ Len(Tail(s)) = Len(s) - 1
      /\ Head(s) = s[1]
      /\ DOMAIN Tail(s) = 1 .. Len(Tail(s))
      /\ \A i \in 1 .. Len(Tail(s)) : Tail(s)[i] = s[i + 1]
      BY HeadTailProperties, LenProperties, EmptySeq
<1>2. \A i \in 1 .. Len(Tail(s)) : i + 1 \in 1 .. Len(s) /\ i + 1 # 1
      BY <1>1
<1>3. Once(Tail(s))
      <2> SUFFICES ASSUME NEW i \in 1 .. Len(Tail(s)),
                          NEW j \in 1 .. Len(Tail(s)),
                          Tail(s)[i] \in Packages, Tail(s)[i] = Tail(s)[j]
                   PROVE  i = j
          BY DEF Once
      <2>1. i + 1 = j + 1
            BY <1>1, <1>2 DEF Once
      <2> QED BY <2>1
<1>4. ASSUME Head(s) \in Packages, Head(s) \in Members(Tail(s)) PROVE FALSE
      <2>1. PICK i \in 1 .. Len(Tail(s)) : Tail(s)[i] = s[1]
            BY <1>1, <1>4 DEF Members
      <2>2. s[i + 1] = s[1] /\ i + 1 \in 1 .. Len(s) /\ 1 \in 1 .. Len(s)
            BY <1>1, <1>2, <2>1
      <2>3. i + 1 = 1
            BY <1>1, <1>4, <2>2 DEF Once
      <2> QED BY <1>2, <2>3
<1> QED BY <1>3, <1>4

LEMMA OnceConcat ==
    ASSUME NEW s \in Seq(Elements), NEW t \in Seq(Elements), Once(s), Once(t),
           Members(s) \cap Members(t) \cap Packages = {}
    PROVE  Once(s \o t)
<1> DEFINE m == Len(s)
           n == Len(t)
           u == s \o t
<1>1. /\ m \in Nat /\ n \in Nat /\ Len(u) = m + n
      /\ DOMAIN s = 1 .. m /\ DOMAIN t = 1 .. n
      /\ \A i \in 1 .. m + n : u[i] = IF i <= m THEN s[i] ELSE t[i - m]
      BY ConcatProperties, LenProperties
<1>2. ASSUME NEW i \in 1 .. m + n, NEW j \in 1 .. m + n, i <= m, ~(j <= m),
             u[i] = u[j], u[i] \in Packages
      PROVE  FALSE
      <2>1. i \in 1 .. m /\ j - m \in 1 .. n
            BY <1>1, <1>2
      <2>2. u[i] = s[i] /\ u[j] = t[j - m]
            BY <1>1, <1>2
      <2>3. s[i] \in Members(s) /\ t[j - m] \in Members(t)
            BY <1>1, <2>1 DEF Members
      <2> QED BY <1>2, <2>2, <2>3
<1>3. ASSUME NEW i \in 1 .. m + n, NEW j \in 1 .. m + n,
             u[i] = u[j], u[i] \in Packages
      PROVE  i = j
      <2>1. CASE i <= m /\ j <= m
            <3>1. i \in 1 .. m /\ j \in 1 .. m /\ s[i] = u[i] /\ s[j] = u[j]
                  BY <1>1, <2>1
            <3> QED BY <1>3, <3>1 DEF Once
      <2>2. CASE ~(i <= m) /\ ~(j <= m)
            <3>1. /\ i - m \in 1 .. n /\ j - m \in 1 .. n
                  /\ t[i - m] = u[i] /\ t[j - m] = u[j]
                  BY <1>1, <2>2
            <3>2. i - m = j - m
                  BY <1>3, <3>1 DEF Once
            <3> QED BY <1>1, <3>2
      <2> QED BY <1>2, <1>3, <2>1, <2>2
<1> HIDE DEF m, n, u
<1>4. \A i, j \in 1 .. m + n : u[i] \in Packages /\ u[i] = u[j] => i = j
      BY <1>3
<1>5. Len(u) = m + n
      BY <1>1
<1>6. Once(u)
      BY <1>4, <1>5 DEF Once
<1> QED BY <1>6 DEF u

LEMMA NoPackagesOnce ==
    ASSUME NEW s \in Seq(Elements), Members(s) \cap Packages = {}
    PROVE  Once(s)
BY LenProperties DEF Once, Members

\* What Track and OpenPackage put behind the rest of the queue.
LEMMA TrackQueue ==
    ASSUME Inv, Track
    PROVE  \E r \in Seq(Elements) :
              queue' = Tail(queue) \o r /\ Members(r) \subseteq Classifiers
<1> DEFINE c == Head(queue)
           rest == Tail(queue)
<1>1. c \in Classifiers /\ queue # <<>>
      BY DEF Track
<1>2. rest \in Seq(Elements)
      BY <1>1, Front
<1>3. AttributeTypes(c) \subseteq Classifiers /\ Bases(c) \subseteq Classifiers
      BY <1>1, TypeTableAssumption
      DEF Inv, TypeOK, UmlModel, AttributeTypes, Bases
<1>4. AttributeTypes(c) \subseteq Elements /\ Bases(c) \subseteq Elements
      BY <1>3 DEF Elements
<1>5. PICK t \in Listings(AttributeTypes(c)), g \in Listings(Bases(c)) :
         queue' = rest \o t \o g
      BY DEF Track
<1>6. /\ t \in Seq(Elements) /\ Members(t) = AttributeTypes(c)
      /\ g \in Seq(Elements) /\ Members(g) = Bases(c)
      BY <1>4, ElementsFinite, ListingType
<1> HIDE DEF rest
<1>7. t \o g \in Seq(Elements) /\ Members(t \o g) = Members(t) \cup Members(g)
      BY <1>6, MembersConcat
<1>8. queue' = rest \o (t \o g)
      BY <1>2, <1>5, <1>6, ConcatAssociative
<1>9. Members(t \o g) \subseteq Classifiers
      BY <1>3, <1>6, <1>7
<1> DEFINE r == t \o g
<1>10. /\ r \in Seq(Elements) /\ Members(r) \subseteq Classifiers
       /\ queue' = rest \o r
       BY <1>7, <1>8, <1>9
<1> HIDE DEF r
<1> QED BY <1>10 DEF rest

LEMMA OpenQueue ==
    ASSUME Inv, OpenPackage
    PROVE  \E r \in Seq(Elements) :
              /\ queue' = Tail(queue) \o r
              /\ Members(r) = uml.contents[Head(queue)]
              /\ Once(r)
<1>1. Head(queue) \in Packages
      BY DEF OpenPackage
<1>2. uml.contents[Head(queue)] \subseteq Elements
      BY <1>1, TypeTableAssumption DEF Inv, TypeOK, UmlModel
<1>3. PICK s \in Listings(uml.contents[Head(queue)]) :
         queue' = Tail(queue) \o s
      BY DEF OpenPackage
<1>4. s \in Seq(Elements) /\ Members(s) = uml.contents[Head(queue)]
      BY <1>2, ElementsFinite, ListingType
<1>5. Once(s)
      BY <1>2, ElementsFinite, ListingOnce
<1> QED BY <1>3, <1>4, <1>5

\* Of the packages in what is put behind the rest none has been met.
LEMMA OnceStep ==
    ASSUME Inv, OpenedOnce, queue # <<>>, NEW r \in Seq(Elements), Once(r),
           queue' = Tail(queue) \o r,
           Members(r) \cap Met \cap Packages = {},
           opened' \subseteq opened \cup ({Head(queue)} \cap Packages)
    PROVE  OpenedOnce'
<1> DEFINE rest == Tail(queue)
<1>1. /\ rest \in Seq(Elements)
      /\ Members(queue) = {Head(queue)} \cup Members(rest)
      BY Front
<1>2. /\ Once(rest)
      /\ Head(queue) \in Packages => Head(queue) \notin Members(rest)
      BY OnceTail DEF Inv, TypeOK, OpenedOnce
<1>3. Members(rest) \cap opened' = {}
      BY <1>1, <1>2 DEF OpenedOnce
<1>4. Members(r) \cap opened' = {}
      <2>1. opened' \subseteq Met \cap Packages
            BY <1>1 DEF Met, Seen, Inv, TypeOK
      <2> QED BY <2>1
<1>5. Members(rest) \cap Members(r) \cap Packages = {}
      BY <1>1 DEF Met
<1>6. queue' = rest \o r
      OBVIOUS
<1> HIDE DEF rest
<1>7. Once(rest \o r) /\ Members(rest \o r) = Members(rest) \cup Members(r)
      BY <1>1, <1>2, <1>5, OnceConcat, MembersConcat
<1>8. Once(queue') /\ Members(queue') \cap opened' = {}
      BY <1>3, <1>4, <1>6, <1>7
<1> QED BY <1>8 DEF OpenedOnce, Once, Members

\* What is met after a step that puts r behind the rest.
LEMMA MetStep ==
    ASSUME Inv, queue # <<>>, NEW r \in Seq(Elements),
           queue' = Tail(queue) \o r,
           Seen' = Seen \cup {Head(queue)}
    PROVE  Met' = Met \cup Members(r)
<1> DEFINE rest == Tail(queue)
<1>1. /\ rest \in Seq(Elements) /\ queue' = rest \o r
      /\ Members(queue) = {Head(queue)} \cup Members(rest)
      BY Front
<1> HIDE DEF rest
<1>2. Members(rest \o r) = Members(rest) \cup Members(r)
      BY <1>1, MembersConcat
<1>3. Members(queue)' = Members(rest) \cup Members(r)
      BY <1>1, <1>2 DEF Members
<1> QED BY <1>1, <1>3 DEF Met

LEMMA TrackSeen ==
    ASSUME Inv, Track
    PROVE  /\ Seen' = Seen \cup {Head(queue)}
           /\ Head(queue) \in Elements \ Seen
<1>1. Head(queue) \in Classifiers /\ Head(queue) \notin DOMAIN m_id_to_type
      BY DEF Track, Tracked
<1>2. Head(queue) \notin opened \cup Others
      BY <1>1, TypeTableAssumption DEF Inv, TypeOK
<1>3. DOMAIN m_id_to_type' = DOMAIN m_id_to_type \cup {Head(queue)}
      BY TrackTables
<1>4. opened' = opened
      BY DEF Track
<1> QED BY <1>1, <1>2, <1>3, <1>4 DEF Seen, Elements

LEMMA OpenSeen ==
    ASSUME Inv, OpenedOnce, OpenPackage
    PROVE  /\ Seen' = Seen \cup {Head(queue)}
           /\ Head(queue) \in Elements \ Seen
<1>1. /\ Head(queue) \in Packages /\ queue # <<>>
      /\ opened' = opened \cup {Head(queue)} /\ m_id_to_type' = m_id_to_type
      BY DEF OpenPackage
<1>2. Head(queue) \in Members(queue)
      BY <1>1, Front
<1>3. Head(queue) \notin opened
      BY <1>2 DEF OpenedOnce
<1>4. Head(queue) \notin DOMAIN m_id_to_type \cup Others
      BY <1>1, TypeTableAssumption DEF Inv, TypeOK
<1> QED BY <1>1, <1>3, <1>4 DEF Seen, Elements

LEMMA TrackOnce == ASSUME Inv, TInv, Track PROVE TInv'
<1>1. /\ queue # <<>> /\ uml' = uml /\ opened' = opened
      BY DEF Track
<1>2. PICK r \in Seq(Elements) :
         queue' = Tail(queue) \o r /\ Members(r) \subseteq Classifiers
      BY TrackQueue
<1>3. Members(r) \cap Packages = {}
      BY <1>2, TypeTableAssumption
<1>4. Met' = Met \cup Members(r)
      BY <1>1, <1>2, TrackSeen, MetStep
<1>5. OpenedOnce'
      BY <1>1, <1>2, <1>3, NoPackagesOnce, OnceStep DEF TInv
<1>6. Downwards'
      BY <1>1, <1>3, <1>4 DEF TInv, Downwards
<1> QED BY <1>5, <1>6 DEF TInv

LEMMA OpenOnce == ASSUME Inv, TInv, OpenPackage PROVE TInv'
<1> DEFINE p == Head(queue)
<1>1. /\ queue # <<>> /\ uml' = uml /\ opened' = opened \cup {p}
      /\ p \in Packages /\ uml \in Models
      BY DEF OpenPackage, Inv, TypeOK
<1>2. PICK r \in Seq(Elements) :
         /\ queue' = Tail(queue) \o r
         /\ Members(r) = uml.contents[p]
         /\ Once(r)
      BY OpenQueue
<1>3. p \in Members(queue) /\ p \in Met /\ p \notin opened
      BY <1>1, Front DEF Met, TInv, OpenedOnce
<1>4. /\ uml.root \in Packages
      /\ Depth(uml)[uml.root] <= Depth(uml)[p]
      BY <1>1, <1>3 DEF TInv, Downwards
<1>5. ASSUME NEW q \in Members(r), q \in Packages
      PROVE  /\ q \notin Met
             /\ Depth(uml)[uml.root] < Depth(uml)[q]
      <2>1. /\ Depth(uml)[p] < Depth(uml)[q]
            /\ Depth(uml) \in [Packages -> Nat]
            BY <1>1, <1>2, <1>5, DepthDeepens DEF DeeperInside
      <2>2. Depth(uml)[uml.root] < Depth(uml)[q] /\ q # uml.root
            BY <1>1, <1>4, <1>5, <2>1
      <2>3. ASSUME NEW o \in opened, q \in uml.contents[o] PROVE FALSE
            <3>1. o \in Packages /\ q \in uml.contents[p]
                  BY <1>2, <2>3 DEF Inv, TypeOK
            <3>2. o = p
                  BY <1>1, <1>5, <2>3, <3>1, ContainmentAssumption
            <3> QED BY <1>3, <3>2
      <2> QED BY <1>5, <2>2, <2>3 DEF TInv, Downwards
<1>6. Met' = Met \cup Members(r)
      BY <1>1, <1>2, OpenSeen, MetStep DEF TInv
<1>7. OpenedOnce'
      BY <1>1, <1>2, <1>5, OnceStep DEF TInv
<1>8. Downwards'
      <2> SUFFICES ASSUME NEW q \in Met' \cap Packages
                   PROVE  /\ \/ q = uml.root
                             \/ \E o \in opened' : q \in uml.contents[o]
                          /\ uml.root \in Packages
                          /\ Depth(uml)[uml.root] <= Depth(uml)[q]
          BY <1>1 DEF Downwards
      <2>1. CASE q \in Met
            BY <1>1, <2>1 DEF TInv, Downwards
      <2>2. CASE q \in Members(r)
            <3>1. /\ Depth(uml)[uml.root] < Depth(uml)[q]
                  /\ Depth(uml) \in [Packages -> Nat]
                  BY <1>1, <1>5, <2>2, DepthDeepens
            <3>2. Depth(uml)[uml.root] <= Depth(uml)[q]
                  BY <1>4, <3>1
            <3> QED BY <1>1, <1>2, <1>4, <2>2, <3>2
      <2> QED BY <1>6, <2>1, <2>2
<1> QED BY <1>7, <1>8 DEF TInv

LEMMA SkipOnce == ASSUME Inv, TInv, Skip PROVE TInv'
<1>1. /\ queue # <<>> /\ uml' = uml /\ opened' = opened
      /\ queue' = Tail(queue) /\ Head(queue) \notin Packages
      /\ m_id_to_type' = m_id_to_type
      BY DEF Skip, PassedOver
<1>2. Members(queue) = {Head(queue)} \cup Members(queue')
      BY <1>1, Front
<1>3. Once(queue')
      BY <1>1, OnceTail DEF Inv, TypeOK, TInv, OpenedOnce
<1>4. Met' \subseteq Met
      BY <1>1, <1>2 DEF Met, Seen, Members
<1>5. OpenedOnce'
      <2>1. Members(queue') \cap opened' = {}
            BY <1>1, <1>2 DEF TInv, OpenedOnce
      <2> QED BY <1>3, <2>1 DEF OpenedOnce, Once, Members
<1>6. Downwards'
      BY <1>1, <1>4 DEF TInv, Downwards
<1> QED BY <1>5, <1>6 DEF TInv

LEMMA InitOnce == Init => TInv
<1> SUFFICES ASSUME Init PROVE TInv
    OBVIOUS
<1>1. uml \in Models /\ uml.root \in Elements
      BY TypeTableAssumption DEF Init, UmlModel
<1>2. /\ queue = <<uml.root>> /\ opened = {} /\ DOMAIN m_id_to_type = {}
      BY DEF Init, NoEntry
<1>3. Members(queue) = {uml.root} /\ Len(queue) = 1
      BY <1>2 DEF Members
<1>4. Met \cap Packages \subseteq {uml.root}
      BY <1>2, <1>3, TypeTableAssumption DEF Met, Seen
<1>5. Depth(uml) \in [Packages -> Nat]
      BY <1>1, DepthDeepens
<1>6. Downwards
      BY <1>4, <1>5 DEF Downwards
<1> QED BY <1>2, <1>3, <1>6 DEF TInv, OpenedOnce, Once

LEMMA OnceInvariance == Spec => [](Inv /\ TInv)
<1>1. Init => Inv /\ TInv
      BY InitInv, InitOnce
<1>2. ASSUME Inv, TInv, UNCHANGED vars PROVE TInv'
      <2>1. /\ uml' = uml /\ queue' = queue /\ opened' = opened
            /\ m_id_to_type' = m_id_to_type
            BY <1>2 DEF vars
      <2> QED BY <1>2, <2>1
              DEF TInv, Downwards, OpenedOnce, Once, Members, Met, Seen
<1>3. Inv /\ TInv /\ [Next]_vars => (Inv /\ TInv)'
      BY <1>2, InvStep, SkipOnce, TrackOnce, OpenOnce DEF Next
<1> QED BY <1>1, <1>3, PTL DEF Spec

\* The constructor ends: an iteration can always be made, and each of them
\* meets an element that had not been met, or shortens the queue.  Cycles of
\* attributes, of generals and of both do not change that.
THEOREM WalkShrinks == Spec => []GoesOn /\ [][Shrinks]_vars
<1>1. Inv => GoesOn
      <2> SUFFICES ASSUME Inv, queue # <<>>,
                          Head(queue) \in Packages \cup Classifiers
                   PROVE  /\ Head(queue) \in Packages =>
                                Listings(uml.contents[Head(queue)]) # {}
                          /\ Head(queue) \in Classifiers =>
                                /\ Listings(AttributeTypes(Head(queue))) # {}
                                /\ Listings(Bases(Head(queue))) # {}
          BY Front DEF GoesOn, Elements
      <2>1. uml \in UmlModel
            BY TypeTableAssumption DEF Inv, TypeOK
      <2>2. ASSUME Head(queue) \in Packages
            PROVE  Listings(uml.contents[Head(queue)]) # {}
            <3>1. uml.contents[Head(queue)] \in SUBSET Elements
                  BY <2>1, <2>2 DEF UmlModel
            <3> QED BY <3>1, ElementsFinite, ListingExists
      <2>3. ASSUME Head(queue) \in Classifiers
            PROVE  /\ Listings(AttributeTypes(Head(queue))) # {}
                   /\ Listings(Bases(Head(queue))) # {}
            <3>1. /\ AttributeTypes(Head(queue)) \in SUBSET Elements
                  /\ Bases(Head(queue)) \in SUBSET Elements
                  BY <2>1, <2>3 DEF UmlModel, AttributeTypes, Bases, Elements
            <3> QED BY <3>1, ElementsFinite, ListingExists
      <2> QED BY <2>2, <2>3
<1>2. Inv /\ TInv /\ [Next]_vars => [Shrinks]_vars
      <2> SUFFICES ASSUME Inv, TInv, Next PROVE Shrinks
          OBVIOUS
      <2>1. CASE Skip
            <3>1. /\ queue' = Tail(queue) /\ queue # <<>> /\ opened' = opened
                  /\ m_id_to_type' = m_id_to_type
                  BY <2>1 DEF Skip, PassedOver
            <3>2. Ahead' = Ahead
                  BY <3>1 DEF Ahead, Seen
            <3>3. Len(queue) \in Nat /\ Len(queue') = Len(queue) - 1
                  BY <3>1, LenProperties, HeadTailProperties DEF Inv, TypeOK
            <3> QED BY <3>2, <3>3 DEF Shrinks
      <2>2. CASE Track \/ OpenPackage
            <3>1. /\ Seen' = Seen \cup {Head(queue)}
                  /\ Head(queue) \in Elements \ Seen
                  BY <2>2, TrackSeen, OpenSeen DEF TInv
            <3>2. Ahead' = Ahead \ {Head(queue)} /\ Head(queue) \in Ahead
                  BY <3>1 DEF Ahead
            <3>3. IsFiniteSet(Ahead)
                  BY ElementsFinite DEF Ahead
            <3>4. /\ Cardinality(Ahead) \in Nat
                  /\ Cardinality(Ahead') = Cardinality(Ahead) - 1
                  BY <3>2, <3>3, FS_CardinalityType, FS_RemoveElement
            <3>5. Cardinality(Ahead') < Cardinality(Ahead)
                  BY <3>4
            <3> QED BY <3>5 DEF Shrinks
      <2> QED BY <2>1, <2>2 DEF Next
<1> QED BY <1>1, <1>2, OnceInvariance, PTL DEF Spec
=============================================================================
