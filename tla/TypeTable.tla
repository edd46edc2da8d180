----------------------------- MODULE TypeTable -----------------------------
(***************************************************************************)
(* The constructor of MetaManager: from a UML model to a table of types.   *)
(*                                                                         *)
(* The model below the element that a manager is generated from is walked  *)
(* with a queue, breadth first.  Every classifier it meets gets the next   *)
(* number, its attributes' types and its generals are queued, a package    *)
(* queues what is in it.  The walk ends because a classifier that has a    *)
(* number is passed over; packages own their elements and are a tree.      *)
(*                                                                         *)
(* Init takes any model of the set Models: all the walk reads of it is     *)
(* which elements follow an element, and the names of the classifiers.     *)
(* The sets of the UML library are visited in an order of their own.       *)
(* A type that several attributes of a classifier share is queued once     *)
(* here and several times there: the later ones are passed over.           *)
(*                                                                         *)
(* An operator that stands before its correct form and is used nowhere is  *)
(* a mutant of it, a bug that one of the properties at the end catches.    *)
(***************************************************************************)
EXTENDS Integers, Sequences, FiniteSets

CONSTANTS
    Classifiers,    \* classes, data types, primitive types, stereotypes
    Packages,       \* packages, profiles
    Others,         \* packageable elements of other kinds
    BuiltIn,        \* boolean, integer, real, string and unlimited natural
    Names,
    Models          \* the UML models to start from

Elements == Classifiers \cup Packages \cup Others

UmlModel ==
    [root : Elements,
     contents : [Packages -> SUBSET Elements],      \* packagedElements
     types : [Classifiers -> SUBSET Classifiers],   \* of the attributes
     generals : [Classifiers -> SUBSET Classifiers],
     name : [Classifiers -> Names]]

ASSUME TypeTableAssumption ==
    /\ Classifiers \cap Packages = {}
    /\ Others \cap (Classifiers \cup Packages) = {}
    /\ BuiltIn \subseteq Classifiers
    /\ IsFiniteSet(Classifiers) /\ IsFiniteSet(Packages)
    /\ IsFiniteSet(Others)
    /\ Models \subseteq UmlModel

\* Packages are a tree: none has two owners, and each is deeper than its owner.
DeeperInside(m, depth) ==
    \A p \in Packages : \A q \in m.contents[p] \cap Packages :
       depth[p] < depth[q]

ASSUME ContainmentAssumption ==
    \A m \in Models :
       /\ \A p, q \in Packages :
             m.contents[p] \cap m.contents[q] \cap Packages # {} => p = q
       /\ \E depth \in [Packages -> 0 .. Cardinality(Packages)] :
             DeeperInside(m, depth)

VARIABLES
    uml,            \* the model
    queue,
    next_type,
    m_uml_types,    \* number to classifier
    m_id_to_type,   \* classifier to number
    m_name_to_type, \* name to number
    opened          \* history: the packages whose contents were queued

vars == <<uml, queue, next_type, m_uml_types, m_id_to_type, m_name_to_type,
          opened>>

NoEntry == [k \in {} |-> 0]

Init ==
    /\ uml \in Models
    /\ queue = <<uml.root>>
    /\ next_type = 0
    /\ m_uml_types = NoEntry
    /\ m_id_to_type = NoEntry
    /\ m_name_to_type = NoEntry
    /\ opened = {}

-----------------------------------------------------------------------------
\* unordered_map::emplace, which keeps what is there.
Emplace(map, key, value) ==
    [k \in DOMAIN map \cup {key} |->
        IF k \in DOMAIN map THEN map[k] ELSE value]

Members(s) == {s[i] : i \in DOMAIN s}

\* The orders in which ptrs() may list a set.
Listings(S) == {s \in [1 .. Cardinality(S) -> S] : Members(s) = S}

Anew(c) == FALSE

NameTracked(c) == uml.name[c] \in DOMAIN m_name_to_type

Tracked(c) == c \in DOMAIN m_id_to_type

\* The types of a classifier's attributes that are queued.
AttributeTypes(c) == uml.types[c] \ BuiltIn

SameNumber == next_type

\* next_type++
NextNumber == next_type + 1

Bases(c) == uml.generals[c]

StillThere == queue

\* queue.pop_front() comes before the test that passes over a classifier.
PassedOver == Tail(queue)

\* A classifier that has its number, or an element of no interest.
Skip ==
    /\ queue # <<>>
    /\ Head(queue) \notin Packages
    /\ Head(queue) \in Classifiers => Tracked(Head(queue))
    /\ queue' = PassedOver
    /\ UNCHANGED <<uml, next_type, m_uml_types, m_id_to_type,
                   m_name_to_type, opened>>

\* A classifier that is met for the first time.
Track ==
    /\ queue # <<>>
    /\ LET front == Head(queue) IN
       /\ front \in Classifiers
       /\ ~Tracked(front)
       /\ m_uml_types' = Emplace(m_uml_types, next_type, front)
       /\ m_id_to_type' = Emplace(m_id_to_type, front, next_type)
       /\ m_name_to_type' =
             Emplace(m_name_to_type, uml.name[front], next_type)
       /\ next_type' = NextNumber
       /\ \E t \in Listings(AttributeTypes(front)),
             g \in Listings(Bases(front)) :
             queue' = Tail(queue) \o t \o g
    /\ UNCHANGED <<uml, opened>>

OpenPackage ==
    /\ queue # <<>>
    /\ Head(queue) \in Packages
    /\ \E s \in Listings(uml.contents[Head(queue)]) : queue' = Tail(queue) \o s
    /\ opened' = opened \cup {Head(queue)}
    /\ UNCHANGED <<uml, next_type, m_uml_types, m_id_to_type, m_name_to_type>>

Next == Skip \/ Track \/ OpenPackage

Spec == Init /\ [][Next]_vars

\* The constructor runs.
FairSpec == Spec /\ WF_vars(Next)

-----------------------------------------------------------------------------
(* Properties *)

\* What the walk goes to from an element.
Successors(e) ==
    IF e \in Classifiers
       THEN AttributeTypes(e) \cup uml.generals[e]
       ELSE IF e \in Packages THEN uml.contents[e] ELSE {}

\* The elements below the root: the least set with the root in it that is
\* closed under Successors.
Closed(S) == \A e \in S : Successors(e) \subseteq S
Reachable ==
    {e \in Elements : \A S \in SUBSET Elements :
                         uml.root \in S /\ Closed(S) => e \in S}

\* The tables have the types of their C++ declarations, and no number is in
\* use that is not below next_type.
TypeOK ==
    /\ uml \in Models
    /\ queue \in Seq(Elements)
    /\ next_type \in Nat
    /\ m_uml_types \in [0 .. next_type - 1 -> Classifiers]
    /\ \E S \in SUBSET Classifiers :
          m_id_to_type \in [S -> 0 .. next_type - 1]
    /\ \E S \in SUBSET Names : m_name_to_type \in [S -> 0 .. next_type - 1]
    /\ opened \in SUBSET Packages

\* m_uml_types and m_id_to_type are each other's inverse: an element that is
\* created as a type (m_uml_types) is loaded again as that type (m_id_to_type).
OneToOne ==
    /\ \A n \in DOMAIN m_uml_types :
          /\ m_uml_types[n] \in DOMAIN m_id_to_type
          /\ m_id_to_type[m_uml_types[n]] = n
    /\ \A c \in DOMAIN m_id_to_type :
          /\ m_id_to_type[c] \in DOMAIN m_uml_types
          /\ m_uml_types[m_id_to_type[c]] = c

\* When the constructor is done it knows the classifiers that can be reached
\* from the generation root, these and no others.
TracksReachable ==
    queue = <<>> => DOMAIN m_id_to_type = Reachable \cap Classifiers

\* The generals that a classifier has when the UML model has become now, for
\* which m_id_to_type.at(base.id()) in create_meta_element_object throws.
BasesWithoutNumber(now, c) == now.generals[c] \ DOMAIN m_id_to_type

\* Once the constructor is done at throws only for a general that was added
\* after the manager was generated (metaManager.cpp 421-423), whatever clients
\* have made of the UML model: a consequence of TracksReachable, and proved.
BasesTracked ==
    queue = <<>> =>
       \A now \in UmlModel : \A c \in DOMAIN m_id_to_type :
          BasesWithoutNumber(now, c) \subseteq now.generals[c] \ uml.generals[c]

\* The walk ends, whatever cycles attributes and generals make.
WalkEnds == <>(queue = <<>>)
=============================================================================
