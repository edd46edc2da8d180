-------------------------- MODULE MetaElementStore --------------------------
(***************************************************************************)
(* Meta elements of a MetaManager, in memory and as UML.                   *)
(*                                                                         *)
(* A meta element is an object with sets and data that no class was        *)
(* compiled for.  Beside it the manager keeps an InstanceSpecification in  *)
(* m_storage_root with a slot for each set and each datum.  It is never    *)
(* saved: a policy of every set repeats in the slot what happens to the    *)
(* set, so that an element that was released can be made again from its    *)
(* slots.                                                                  *)
(*                                                                         *)
(* The requests come one at a time (Dispatch), so one action is one whole  *)
(* call.  The element library that keeps both graphs is not part of this   *)
(* program: Overwrite, Forget and Without say what is assumed of it.       *)
(*                                                                         *)
(* An operator that stands before its correct form and is used nowhere is  *)
(* a mutant of it, a bug that one of the properties at the end catches.    *)
(***************************************************************************)

CONSTANTS
    Ids,            \* ids of meta elements
    Drawn,          \* instances somebody drew in the UML model: id to type
    Elements,       \* UML elements a stereotype can be applied to
    Types,          \* m_uml_types
    SetProps,       \* properties typed by a tracked classifier
    DataProps,      \* properties of a primitive type
    Unnatural,      \* those of type UnlimitedNatural
    Attributes,     \* getAttributes() of a type
    Generals,       \* getGenerals() of a type
    Subsetted,      \* getSubsettedProperties() and getRedefinedProperties()
    Singletons,     \* properties with an upper value of 1
    DefaultOf,      \* getDefaultValue() of a property, or None
    Members,        \* ids that are put into sets
    Values,         \* of data
    Zero,           \* false, 0 and "": what data is without a default value
    None

Props == SetProps \cup DataProps

ASSUME StoreAssumption ==
    /\ Members \subseteq Ids /\ DOMAIN Drawn \subseteq Ids
    /\ Drawn \in [DOMAIN Drawn -> Types]
    /\ Unnatural \subseteq DataProps /\ SetProps \cap DataProps = {}
    /\ Attributes \in [Types -> SUBSET Props]
    /\ Generals \in [Types -> SUBSET Types]
    /\ Subsetted \in [SetProps -> SUBSET SetProps]
    /\ Singletons \subseteq SetProps
    /\ DefaultOf \in [Props -> DOMAIN Drawn \cup Values \cup {None}]
    /\ \A p \in SetProps : DefaultOf[p] \in DOMAIN Drawn \cup {None}
    /\ \A d \in DataProps : DefaultOf[d] \in Values \cup {None}
    /\ Zero \in Values
    /\ None \notin Ids \cup Elements \cup Values

VARIABLES
    memory,         \* the meta elements in memory, by id
    storage,        \* packagedElements of m_storage_root, by id
    m_meta_elements,
    existing,       \* the UML elements that have not been erased
    unsettled,      \* history: ids that sets and slots may disagree about,
                    \* because the element or its instance once went away or
                    \* a default value went on to a superset
    skipped         \* history: elements that erase of the UML element they
                    \* are applied to did not come to

vars == <<memory, storage, m_meta_elements, existing, unsettled, skipped>>

-----------------------------------------------------------------------------
(* What a type gives its elements *)

Closed(S, next) == \A x \in S : next[x] \subseteq S

\* The type and all its generals.
Ancestry ==
    [t \in Types |->
        {u \in Types : \A S \in SUBSET Types :
                          t \in S /\ Closed(S, Generals) => u \in S}]

\* The property and all it subsets or redefines.
Supersets ==
    [p \in SetProps |->
        {q \in SetProps : \A S \in SUBSET SetProps :
                             p \in S /\ Closed(S, Subsetted) => q \in S}]

AllAttributes ==
    [t \in Types |-> UNION {Attributes[u] : u \in Ancestry[t]}]

\* create_property_set, for the attribute and for what it subsets.
SetsOf ==
    [t \in Types |-> UNION {Supersets[p] : p \in AllAttributes[t] \cap SetProps}]

DataOf == [t \in Types |-> AllAttributes[t] \cap DataProps]

\* meta_type->getAttributes().get(...): the type's own attributes only.
Findable == [t \in Types |-> SetsOf[t] \cap Attributes[t]]

InitiallyUnset(d) == DefaultOf[d]

Initially(d) == IF DefaultOf[d] = None THEN Zero ELSE DefaultOf[d]

\* The default value of a set, if D holds it.
DefaultsIn(p, D) == {DefaultOf[p]} \cap (IF p \in D THEN Ids ELSE {})

Drawings(D) == UNION {DefaultsIn(p, D) : p \in D}

\* A default value is added to the set and to what it subsets.
Reaching(q, D) ==
    UNION {DefaultsIn(p, D) : p \in {p \in SetProps : q \in Supersets[p]}}

\* Two default values that one set cannot hold, or one that comes to it twice.
Crowded ==
    [t \in Types |->
        \E p, r \in SetsOf[t] :
           /\ p # r /\ None \notin {DefaultOf[p], DefaultOf[r]}
           /\ \E q \in Supersets[p] \cap Supersets[r] :
                 q \in Singletons \/ DefaultOf[p] = DefaultOf[r]]

\* A creation ends, with slots for P and the default values of D looked up: to
\* the end, or with an exception at a set without an attribute or at a default
\* value that is not taken.  An unordered_map says which sets came first.  (A
\* set at which it ends has a slot that is not in the instance: none.)
Ends(t, P, D) ==
    /\ P \subseteq D
    /\ P # SetsOf[t] => SetsOf[t] # Findable[t] \/ Crowded[t]
    /\ D # P => Crowded[t]

SetOutcomes(t, D) ==
    IF Crowded[t]
    THEN {C \in [SetsOf[t] -> SUBSET Drawings(D)] :
             \A q \in SetsOf[t] : C[q] \subseteq Reaching(q, D)}
    ELSE {[q \in SetsOf[t] |-> Reaching(q, D)]}

\* A default value reaches the slot of its own set; that of a superset only if
\* the superset already has one.
SlotOutcomes(t, P, D) ==
    {s \in [P -> SUBSET Drawings(D)] :
        \A q \in P : /\ s[q] \subseteq Reaching(q, D)
                     /\ DefaultsIn(q, D) \subseteq s[q] \/ Crowded[t]}

\* The default values for which that may make a difference.
Passed(t, D) ==
    Drawings({p \in D : Supersets[p] # {p} \/ Crowded[t]})

\* create_meta_element_object
Bare(t, a) ==
    [type |-> t, applying |-> a, represented |-> FALSE, slots |-> {},
     sets |-> [p \in SetsOf[t] |-> {}],
     data |-> [d \in DataOf[t] |-> Initially(d)]]

\* create_uml_representation, up to where it ends.
Represented(t, a, P, sets) ==
    [Bare(t, a) EXCEPT !.represented = TRUE, !.slots = P, !.sets = sets]

Representation(t, a, P, slots) ==
    [type |-> t, applying |-> a, slots |-> slots,
     data |-> [d \in IF P = SetsOf[t] THEN DataOf[t] ELSE {} |-> DefaultOf[d]]]

Init ==
    /\ memory = [i \in {} |-> None]
    /\ storage = [i \in {} |-> None]
    /\ m_meta_elements = {}
    /\ existing = Elements
    /\ unsettled = {}
    /\ skipped = {}

-----------------------------------------------------------------------------
(* What is assumed of the element library *)

Without(f, S) == [x \in DOMAIN f \ S |-> f[x]]

Overwrite(f, g) ==
    [x \in DOMAIN f \cup DOMAIN g |-> IF x \in DOMAIN g THEN g[x] ELSE f[x]]

Only(i, r) == [x \in {i} |-> r]

\* Elements that are erased leave the sets they were in.
Forget(m, S) ==
    [x \in DOMAIN m |->
        [m[x] EXCEPT !.sets = [p \in DOMAIN @ |-> @[p] \ S]]]

\* Slots that point to an instance that is erased lose it, or keep its id.
Dangling(s, S) ==
    {s, [x \in DOMAIN s |->
            [s[x] EXCEPT !.slots = [p \in DOMAIN @ |-> @[p] \ S]]]}

ReindexedKeeps(s, S) == {s}

\* reindex erases the packaged elements that have the new ids.
Reindexed(s, S) == Dangling(Without(s, S), S \cap DOMAIN s)

TrackedByOldId(S) == m_meta_elements

Tracked(S) == m_meta_elements \cup S

\* abstractGet of the UML manager finds an instance.
HasInstance(i) == i \in DOMAIN storage \cup DOMAIN Drawn

-----------------------------------------------------------------------------
(* Loading *)

Pointees(i) ==
    IF i \in DOMAIN storage \ DOMAIN memory
    THEN UNION {storage[i].slots[p] : p \in DOMAIN storage[i].slots} ELSE {}

\* What loading S can load: an element, what its slots point to, and so on.
Loadable(S) ==
    LET next == [i \in Ids |-> Pointees(i)]
    IN {x \in Ids \ DOMAIN memory :
          /\ HasInstance(x)
          /\ \A C \in SUBSET Ids : S \subseteq C /\ Closed(C, next) => x \in C}

TypeOf(i) == IF i \in DOMAIN storage THEN storage[i].type ELSE Drawn[i]

\* The slots of a drawn instance are left out.
SlotsOf(i) == IF i \in DOMAIN storage THEN storage[i].slots ELSE [p \in {} |-> {}]

\* loadElement, which reads no more of the slots than the values in read.
\* The data comes out as it was created: no slot has another value.
Reloaded(i, read) ==
    LET slots == SlotsOf(i)
    IN [Bare(TypeOf(i), None) EXCEPT !.sets =
          [q \in DOMAIN @ |->
             UNION {slots[p] \cap read : p \in {p \in DOMAIN slots : q \in Supersets[p]}}]]

Readable(L) == (DOMAIN memory \cup L) \cap UNION {Pointees(l) : l \in L}

\* get(...) for each of S.  The reindex of a loaded element erases the
\* instance it is loaded from, and the slots are read afterwards, from memory
\* that was freed: all, some or none of what they held is found, and an
\* exception may end the call anywhere.  (The process may also die.)
Loads(S) ==
    UNION {
        {[memory |-> Overwrite(memory, [l \in L |-> Reloaded(l, read[l])]),
          storage |-> s, loaded |-> L] :
            read \in [L -> SUBSET Readable(L)],
            s \in Reindexed(storage, L)} :
        L \in {L \in SUBSET Loadable(S) : S \ DOMAIN memory \subseteq L}}

FirstAppliedTo(e) ==
    LET A == {i \in DOMAIN storage : storage[i].applying = e}
    IN {i \in A : i = CHOOSE j \in A : TRUE}

AppliedTo(e) == {i \in DOMAIN storage : storage[i].applying = e}

\* What a loop that gets each of A comes to.  Loading takes an instance out of
\* the set that the loop is in, and the loop may go on, skip or end.
Visits(A) == {S \in SUBSET A : S \subseteq DOMAIN memory => S = A}

\* What of S the body of the loop is done with, when loading threw.
DoneBefore(S) == {R \in SUBSET S \ {S} : S \cap DOMAIN memory \subseteq R}

-----------------------------------------------------------------------------
(* Requests *)

\* create(type, id) and apply(element, type, id), also for an id in use: the
\* reindex erases the element and the instance that have it.
Create(t, a, i, P, D) ==
    /\ DataOf[t] \cap Unnatural = {}
    /\ Ends(t, P, D)
    /\ \E C \in SetOutcomes(t, D) :
          memory' = Overwrite(Overwrite([d \in Drawings(D) |-> Bare(Drawn[d], None)],
                                        memory),
                              Only(i, Represented(t, a, P, C)))
    /\ \E s \in Reindexed(storage, {i}), slots \in SlotOutcomes(t, P, D) :
          storage' = Overwrite(s, Only(i, Representation(t, a, P, slots)))
    /\ m_meta_elements' = Tracked({i} \cup Drawings(D))
    /\ unsettled' = unsettled \cup Passed(t, D)
                              \cup ({i} \cap (DOMAIN memory \cup DOMAIN storage))
    /\ skipped' = skipped \ {i}
    /\ UNCHANGED existing

\* An UnlimitedNatural ends the creation with some of the sets and data made.
CreateUnnatural(t, a, i, P, D) ==
    /\ DataOf[t] \cap Unnatural # {}
    /\ memory' = Overwrite(memory, Only(i,
                    [Bare(t, a) EXCEPT !.sets = [p \in P |-> @[p]],
                                       !.data = [d \in D |-> @[d]]]))
    /\ storage' \in Reindexed(storage, {i})
    /\ m_meta_elements' = Tracked({i})
    /\ unsettled' = unsettled \cup {i}
    /\ skipped' = skipped \ {i}
    /\ UNCHANGED existing

SetData(i, d, v) ==
    /\ memory' = [memory EXCEPT ![i].data[d] = v]
    /\ UNCHANGED <<storage, m_meta_elements, existing, unsettled, skipped>>

Complete(i) ==
    memory[i].represented /\ memory[i].slots = SetsOf[memory[i].type]

ReachedFirst(i, p, S) == {{p}}

\* Whose policies run when the values S enter or leave p: a set with no slot,
\* or a value with no instance, ends that early.
Reached(i, p, S) ==
    IF Complete(i) /\ S \cap unsettled = {} THEN {Supersets[p]}
    ELSE SUBSET Supersets[p]

\* A set and the sets it subsets change, then the policy of each changes its
\* slot.
ChangeSet(i, p, out, in) ==
    \E Q \in Reached(i, p, out), R \in Reached(i, p, in) :
          /\ memory' = [memory EXCEPT ![i].sets =
                [q \in DOMAIN @ |-> IF q \in Supersets[p]
                                    THEN (@[q] \ out) \cup in ELSE @[q]]]
          /\ storage' = IF ~memory[i].represented THEN storage ELSE
                [storage EXCEPT ![i].slots =
                   [q \in DOMAIN @ |-> (@[q] \ IF q \in Q THEN out ELSE {})
                                       \cup IF q \in R THEN in ELSE {}]]
          /\ UNCHANGED <<m_meta_elements, existing, unsettled, skipped>>

\* A singleton drops the value it has; when that fails nothing is added.
AddToSet(i, p, v) ==
    /\ \A q \in Supersets[p] : v \notin memory[i].sets[q]
    /\ IF p \notin Singletons \/ memory[i].sets[p] = {}
       THEN ChangeSet(i, p, {}, {v})
       ELSE \E old \in memory[i].sets[p] :
               \/ ChangeSet(i, p, {old}, {v})
               \/ /\ Reached(i, p, {old}) # {Supersets[p]}
                  /\ ChangeSet(i, p, {old}, {})

\* From the set it was added to, not from one that set subsets.
RemoveFromSet(i, p, v) ==
    /\ v \in memory[i].sets[p]
    /\ \A r \in DOMAIN memory[i].sets \ {p} :
          p \in Supersets[r] => v \notin memory[i].sets[r]
    /\ ChangeSet(i, p, {v}, {})

ReleaseErases(i) ==
    /\ memory' = Without(memory, {i})
    /\ storage' = Without(storage, {i})
    /\ UNCHANGED <<m_meta_elements, existing, unsettled, skipped>>

\* saveElement does nothing.
Release(i) ==
    /\ memory' = Without(memory, {i})
    /\ UNCHANGED <<storage, m_meta_elements, existing, unsettled, skipped>>

\* What is left after S was loaded, and then released or erased.
After(S, released, erased) ==
    \E o \in Loads(S) :
       /\ memory' = Forget(Without(o.memory, released \cup erased), erased)
       /\ storage' = o.storage
       /\ m_meta_elements' = Tracked(o.loaded)
       /\ unsettled' = unsettled \cup erased \cup (o.loaded \cap DOMAIN storage)

\* GET of a meta element.
Get(i) == i \notin DOMAIN memory /\ After({i}, {}, {}) /\ UNCHANGED <<existing, skipped>>

\* DELETE with a manager: eraseEl does nothing.
Erase(i) == After({i}, {}, {i}) /\ UNCHANGED <<existing, skipped>>

\* GET of a UML element emits what is applied to it.
GetElement(e) ==
    /\ \E S \in Visits(AppliedTo(e)) : After(S, {}, {})
    /\ UNCHANGED <<existing, skipped>>

\* SAVE and DUMP emit every tracked element, or end at one that is gone.
Save ==
    /\ \E S \in SUBSET m_meta_elements :
          /\ S # m_meta_elements =>
                \E i \in m_meta_elements : i \notin DOMAIN memory /\ ~HasInstance(i)
          /\ After(S, {}, {})
    /\ UNCHANGED <<existing, skipped>>

\* GenerativeManager::release, which an exception in the loop ends.
ReleaseElement(e) ==
    /\ \E S \in Visits(AppliedTo(e)) :
          \E R \in {S} \cup DoneBefore(S) : After(S, R, {})
    /\ UNCHANGED <<existing, skipped>>

\* GenerativeManager::erase, when the loop has come to S.  The instances stay,
\* which m_storage_root owns.
EraseVisited(e, S) ==
    /\ \E o \in Loads(S) :
          /\ memory' = Forget(Without(o.memory, S), S)
          /\ storage' = [x \in DOMAIN o.storage |->
                [o.storage[x] EXCEPT !.applying = IF @ = e THEN None ELSE @]]
          /\ m_meta_elements' = Tracked(o.loaded)
          /\ unsettled' = unsettled \cup S \cup (o.loaded \cap DOMAIN storage)
    /\ existing' = existing \ {e}
    /\ skipped' = skipped \cup (AppliedTo(e) \ S)

\* An exception leaves the element where it is.
EraseInterrupted(S) ==
    /\ \E R \in DoneBefore(S) : After(S, {}, R)
    /\ UNCHANGED <<existing, skipped>>

EraseElement(e) ==
    \E S \in Visits(AppliedTo(e)) : EraseVisited(e, S) \/ EraseInterrupted(S)

Next ==
    \/ \E i \in Ids \ DOMAIN Drawn, t \in Types, a \in existing \cup {None} :
          \/ \E P, D \in SUBSET Findable[t] : Create(t, a, i, P, D)
          \/ \E P \in SUBSET SetsOf[t], D \in SUBSET DataOf[t] :
                CreateUnnatural(t, a, i, P, D)
    \/ \E i \in DOMAIN memory :
          \/ \E d \in DOMAIN memory[i].data, v \in Values : SetData(i, d, v)
          \/ \E p \in DOMAIN memory[i].sets, v \in Members \cap DOMAIN memory :
                AddToSet(i, p, v) \/ RemoveFromSet(i, p, v)
          \/ Release(i)
    \/ \E i \in Ids : Get(i) \/ Erase(i)
    \/ \E e \in existing : GetElement(e) \/ ReleaseElement(e) \/ EraseElement(e)
    \/ Save

Spec == Init /\ [][Next]_vars

-----------------------------------------------------------------------------
(* Properties *)

\* What the tables hold; an instance never has a slot its type does not have.
TypeOK ==
    /\ DOMAIN memory \cup m_meta_elements \cup unsettled \cup skipped \subseteq Ids
    /\ DOMAIN storage \subseteq Ids \ DOMAIN Drawn
    /\ existing \subseteq Elements
    /\ \A i \in DOMAIN memory :
          /\ memory[i].type \in Types
          /\ memory[i].applying \in Elements \cup {None}
          /\ memory[i].represented \in BOOLEAN
          /\ DOMAIN memory[i].sets \subseteq SetsOf[memory[i].type]
          /\ memory[i].slots \subseteq DOMAIN memory[i].sets
          /\ \A p \in DOMAIN memory[i].sets : memory[i].sets[p] \subseteq Ids
          /\ memory[i].data \in [DOMAIN memory[i].data -> Values]
    /\ \A i \in DOMAIN storage :
          /\ storage[i].type \in Types
          /\ storage[i].applying \in Elements \cup {None}
          /\ DOMAIN storage[i].slots \subseteq SetsOf[storage[i].type]
          /\ \A p \in DOMAIN storage[i].slots : storage[i].slots[p] \subseteq Ids

\* An element in memory has an instance in m_storage_root exactly when it
\* points to one, and it is the instance of this element and not of another
\* one that had the id before (metaManager.h 105-121).
TwinsAgree ==
    \A i \in DOMAIN memory :
       /\ memory[i].represented <=> i \in DOMAIN storage
       /\ i \in DOMAIN storage =>
             /\ storage[i].type = memory[i].type
             /\ storage[i].applying =
                   IF memory[i].applying \in existing THEN memory[i].applying
                                                      ELSE None
             /\ DOMAIN storage[i].slots = memory[i].slots

\* The slots of an element that was created to the end hold what its sets
\* hold, but for the values that have been away, and for default values that
\* go on to a superset (metaElementSet.h 107-137).
SlotsFollowSets ==
    \A i \in DOMAIN memory : Complete(i) =>
       \A p \in memory[i].slots :
          storage[i].slots[p] \ unsettled = memory[i].sets[p] \ unsettled

\* SAVE comes to every element that is stored or in memory (metaManager.h
\* 169-188).
SaveIsComplete == DOMAIN storage \cup DOMAIN memory \subseteq m_meta_elements

\* SAVE can get every element it writes, as long as that has not been away
\* before (metaManager.h 172).
SaveFindsElements ==
    \A i \in m_meta_elements \ unsettled : i \in DOMAIN memory \/ HasInstance(i)

\* "erase stereotype data so no hanging references to our base element"
\* (generativeManager.h 101): an element whose application succeeded outlives
\* the element it was applied to only if the loop of erase did not come to it,
\* which takes another one that had to be loaded.
NoHangingReferences ==
    \A i \in DOMAIN memory \ skipped :
       memory[i].represented => memory[i].applying \in existing \cup {None}

\* "do nothing cause our policies take care of it" (metaManager.cpp 681): an
\* element that leaves memory and not storage leaves its data in its slots.
DataSurvivesRelease ==
    [][\A i \in DOMAIN memory \ DOMAIN memory' : i \in DOMAIN storage' =>
          \A d \in DOMAIN memory[i].data :
             memory[i].data[d] # Initially(d) =>
                /\ d \in DOMAIN storage'[i].data
                /\ storage'[i].data[d] = memory[i].data[d]]_vars

=============================================================================
