----------------------- MODULE MetaElementStoreProofs -----------------------
(***************************************************************************)
(* What TLAPS proves of MetaElementStore, for any types and properties and *)
(* any number of elements.                                                 *)
(***************************************************************************)
EXTENDS MetaElementStore, TLAPS

ElementFields == {"type", "applying", "represented", "slots", "sets", "data"}

InstanceFields == {"type", "applying", "slots", "data"}

\* The fields of the records, and the slots among the sets.
Shape ==
    /\ \A i \in DOMAIN memory :
          /\ DOMAIN memory[i] = ElementFields
          /\ memory[i].slots \subseteq DOMAIN memory[i].sets
    /\ \A i \in DOMAIN storage : DOMAIN storage[i] = InstanceFields
    /\ DOMAIN storage \cap DOMAIN Drawn = {}

\* An id that was never away has its instance.
Housed == m_meta_elements \ unsettled \subseteq DOMAIN storage \cup DOMAIN Drawn

IInv ==
    /\ Shape
    /\ TwinsAgree
    /\ SlotsFollowSets
    /\ SaveIsComplete
    /\ Housed
    /\ NoHangingReferences

-----------------------------------------------------------------------------
(* The library and loading *)

\* The instances d are those of s, but for the values S in their slots.
Kept(s, S, d) ==
    \A x \in DOMAIN d :
       /\ x \in DOMAIN s
       /\ DOMAIN d[x] = InstanceFields
       /\ d[x].type = s[x].type /\ d[x].applying = s[x].applying
       /\ DOMAIN d[x].slots = DOMAIN s[x].slots
       /\ \A p \in DOMAIN s[x].slots : d[x].slots[p] \cup S = s[x].slots[p] \cup S

\* Erasing an instance leaves the others as they are, but for their slots.
LEMMA DanglingKeeps ==
    ASSUME NEW s, NEW S, NEW d \in Dangling(s, S),
           \A x \in DOMAIN s : DOMAIN s[x] = InstanceFields
    PROVE  DOMAIN d = DOMAIN s /\ Kept(s, S, d)
  <1>1. CASE d = s  BY <1>1 DEF Kept
  <1>2. CASE d = [x \in DOMAIN s |->
                    [s[x] EXCEPT !.slots = [p \in DOMAIN @ |-> @[p] \ S]]]
    BY <1>2 DEF InstanceFields, Kept
  <1> QED  BY <1>1, <1>2 DEF Dangling

\* A reindex takes the instances with these ids away and keeps the others.
LEMMA ReindexKeeps ==
    ASSUME NEW s, NEW S, \A x \in DOMAIN s : DOMAIN s[x] = InstanceFields
    PROVE  \A r \in Reindexed(s, S) :
              DOMAIN r = DOMAIN s \ S /\ Kept(s, S \cap DOMAIN s, r)
  <1> SUFFICES ASSUME NEW r \in Reindexed(s, S)
               PROVE  DOMAIN r = DOMAIN s \ S /\ Kept(s, S \cap DOMAIN s, r)
    OBVIOUS
  <1> DEFINE w == Without(s, S)
  <1>1. DOMAIN w = DOMAIN s \ S /\ \A x \in DOMAIN w : w[x] = s[x]
    BY DEF Without
  <1>2. r \in Dangling(w, S \cap DOMAIN s)
    BY DEF Reindexed
  <1> HIDE DEF w
  <1>3. DOMAIN r = DOMAIN w /\ Kept(w, S \cap DOMAIN s, r)
    BY <1>1, <1>2, DanglingKeeps
  <1> QED  BY <1>1, <1>3 DEF Kept

\* The elements f are those of m, but for the values S in their sets.
KeptSets(m, S, f) ==
    \A x \in DOMAIN f :
       /\ x \in DOMAIN m
       /\ DOMAIN f[x] = ElementFields
       /\ f[x].type = m[x].type /\ f[x].applying = m[x].applying
       /\ f[x].represented = m[x].represented /\ f[x].slots = m[x].slots
       /\ DOMAIN f[x].sets = DOMAIN m[x].sets
       /\ \A p \in DOMAIN m[x].sets : f[x].sets[p] \cup S = m[x].sets[p] \cup S

\* Elements that are erased leave the sets of the others, and nothing else.
LEMMA ForgetKeeps ==
    ASSUME NEW m, NEW S, \A x \in DOMAIN m : DOMAIN m[x] = ElementFields
    PROVE  DOMAIN Forget(m, S) = DOMAIN m /\ KeptSets(m, S, Forget(m, S))
  BY DEF Forget, ElementFields, KeptSets

\* A bare element has its type, and no instance.
LEMMA BareFields ==
    ASSUME NEW t \in Types, NEW a
    PROVE  /\ DOMAIN Bare(t, a) = ElementFields
           /\ Bare(t, a).type = t /\ Bare(t, a).applying = a
           /\ ~Bare(t, a).represented /\ Bare(t, a).slots = {}
  BY DEF Bare, ElementFields

\* What loading does to the elements in memory and to the instances.
LEMMA LoadsKeep ==
    ASSUME Shape, NEW S, NEW o \in Loads(S)
    PROVE  /\ o.loaded \subseteq Ids \ DOMAIN memory
           /\ \A l \in o.loaded : HasInstance(l)
           /\ S \subseteq DOMAIN memory \cup o.loaded
           /\ DOMAIN o.memory = DOMAIN memory \cup o.loaded
           /\ \A x \in DOMAIN memory : o.memory[x] = memory[x]
           /\ \A x \in o.loaded : /\ DOMAIN o.memory[x] = ElementFields
                                  /\ ~o.memory[x].represented
                                  /\ o.memory[x].slots = {}
           /\ o.storage \in Reindexed(storage, o.loaded)
  <1> DEFINE Result(L, read, s) ==
                [memory |-> Overwrite(memory, [l \in L |-> Reloaded(l, read[l])]),
                 storage |-> s, loaded |-> L]
  <1>0. PICK L \in SUBSET Loadable(S) :
          /\ S \ DOMAIN memory \subseteq L
          /\ \E read \in [L -> SUBSET Readable(L)],
                s \in Reindexed(storage, L) : o = Result(L, read, s)
    BY DEF Loads
  <1>1. PICK read \in [L -> SUBSET Readable(L)],
             s \in Reindexed(storage, L) : o = Result(L, read, s)
    BY <1>0
  <1>2. ASSUME NEW l \in L
        PROVE  /\ DOMAIN Reloaded(l, read[l]) = ElementFields
               /\ ~Reloaded(l, read[l]).represented
               /\ Reloaded(l, read[l]).slots = {}
    BY DEF Reloaded, Bare, ElementFields
  <1>3. /\ o.memory = Overwrite(memory, [l \in L |-> Reloaded(l, read[l])])
        /\ o.storage = s /\ o.loaded = L
    BY <1>1
  <1>4. \A l \in L : l \in Ids \ DOMAIN memory /\ HasInstance(l)
    BY DEF Loadable
  <1>5. /\ DOMAIN o.memory = DOMAIN memory \cup L
        /\ \A x \in L : o.memory[x] = Reloaded(x, read[x])
        /\ \A x \in DOMAIN memory : o.memory[x] = memory[x]
    BY <1>3, <1>4 DEF Overwrite
  <1> QED  BY <1>0, <1>2, <1>3, <1>4, <1>5

-----------------------------------------------------------------------------
(* The invariant *)

\* It holds at first.
LEMMA InitInv == Init => IInv
  BY DEF Init, IInv, Shape, TwinsAgree, SlotsFollowSets, SaveIsComplete, Housed,
         NoHangingReferences

\* Default values are values that somebody drew.
LEMMA DefaultsAreDrawn ==
    ASSUME NEW t \in Types, NEW D \in SUBSET Findable[t]
    PROVE  /\ D \subseteq SetsOf[t] /\ D \subseteq SetProps
           /\ Drawings(D) \subseteq DOMAIN Drawn /\ Drawings(D) \subseteq Ids
           /\ \A q : Reaching(q, D) \subseteq Drawings(D)
           /\ Passed(t, D) \subseteq Drawings(D)
  <1>1. D \subseteq SetsOf[t] /\ D \subseteq SetProps
    BY StoreAssumption DEF Findable, SetsOf, Supersets
  <1>2. Drawings(D) \subseteq DOMAIN Drawn /\ Drawings(D) \subseteq Ids
    BY <1>1, StoreAssumption DEF Drawings, DefaultsIn
  <1>3. \A p : DefaultsIn(p, D) # {} => p \in D
    BY DEF DefaultsIn
  <1>4. ASSUME NEW q PROVE Reaching(q, D) \subseteq Drawings(D)
    BY <1>3 DEF Reaching, Drawings
  <1>5. ASSUME NEW v \in Passed(t, D) PROVE v \in Drawings(D)
    BY <1>5 DEF Passed, Drawings, DefaultsIn
  <1> QED  BY <1>1, <1>2, <1>4, <1>5

\* Where sets and slots of a new element disagree, it is about a default value
\* that has to go on to a superset.
LEMMA CreationSettles ==
    ASSUME NEW t \in Types, NEW D \in SUBSET Findable[t],
           NEW P \in SUBSET D, NEW C \in SetOutcomes(t, D),
           NEW slots \in SlotOutcomes(t, P, D), NEW q \in P
    PROVE  slots[q] \ Passed(t, D) = C[q] \ Passed(t, D)
  <1>1. q \in SetsOf[t] /\ slots[q] \subseteq Reaching(q, D)
    BY DefaultsAreDrawn DEF SlotOutcomes
  <1>2. Reaching(q, D) \subseteq Drawings(D)
    BY DefaultsAreDrawn
  <1>3. CASE Crowded[t]
    <2>1. Passed(t, D) = Drawings(D)
      <3>1. {p \in D : Supersets[p] # {p} \/ Crowded[t]} = D
        BY <1>3
      <3> QED  BY <3>1 DEF Passed
    <2>2. C[q] \subseteq Reaching(q, D)
      BY <1>1, <1>3 DEF SetOutcomes
    <2> QED  BY <1>1, <1>2, <2>1, <2>2
  <1>4. CASE ~Crowded[t]
    <2>1. C[q] = Reaching(q, D) /\ DefaultsIn(q, D) \subseteq slots[q]
      BY <1>1, <1>4 DEF SetOutcomes, SlotOutcomes
    <2>2. ASSUME NEW v \in Reaching(q, D), v \notin DefaultsIn(q, D)
          PROVE  v \in Passed(t, D)
      <3>1. PICK p \in SetProps : q \in Supersets[p] /\ v \in DefaultsIn(p, D)
        BY <2>2 DEF Reaching
      <3>2. p \in D /\ p # q
        BY <2>2, <3>1 DEF DefaultsIn
      <3> DEFINE T == {r \in D : Supersets[r] # {r} \/ Crowded[t]}
      <3>3. p \in T
        BY <3>1, <3>2
      <3>4. v \in DefaultsIn(p, T)
        BY <3>1, <3>2, <3>3 DEF DefaultsIn
      <3> QED  BY <3>3, <3>4 DEF Passed, Drawings
    <2> QED  BY <1>1, <2>1, <2>2
  <1> QED  BY <1>3, <1>4

\* A creation makes the element and its instance together.
LEMMA CreateInv ==
    ASSUME IInv, NEW i \in Ids \ DOMAIN Drawn, NEW t \in Types,
           NEW a \in existing \cup {None}, NEW P \in SUBSET Findable[t],
           NEW F \in SUBSET Findable[t], Create(t, a, i, P, F)
    PROVE  IInv'
  <1>0. PICK C \in SetOutcomes(t, F) :
          memory' = Overwrite(Overwrite([d \in Drawings(F) |-> Bare(Drawn[d], None)],
                                        memory),
                              Only(i, Represented(t, a, P, C)))
    BY DEF Create
  <1>5. PICK s \in Reindexed(storage, {i}), slots \in SlotOutcomes(t, P, F) :
          storage' = Overwrite(s, Only(i, Representation(t, a, P, slots)))
    BY DEF Create
  <1> DEFINE D == Drawings(F)
             new == Represented(t, a, P, C)
             instance == Representation(t, a, P, slots)
  <1>1. P \subseteq SetsOf[t] /\ P \subseteq F
    BY DefaultsAreDrawn DEF Create, Ends
  <1>2. D \subseteq DOMAIN Drawn
    BY DefaultsAreDrawn
  <1>3. /\ DOMAIN new = ElementFields
        /\ new.type = t /\ new.applying = a /\ new.represented /\ new.slots = P
        /\ new.sets = C /\ DOMAIN C = SetsOf[t]
    BY DEF Represented, Bare, ElementFields, SetOutcomes
  <1>4. /\ DOMAIN instance = InstanceFields
        /\ instance.type = t /\ instance.applying = a
        /\ instance.slots = slots /\ DOMAIN slots = P
    BY DEF Representation, InstanceFields, SlotOutcomes
  <1>6. DOMAIN s = DOMAIN storage \ {i} /\ Kept(storage, {i} \cap DOMAIN storage, s)
    <2>1. \A x \in DOMAIN storage : DOMAIN storage[x] = InstanceFields
      BY DEF IInv, Shape
    <2> QED  BY <1>5, <2>1, ReindexKeeps
  <1> HIDE DEF D, new, instance
  <1>7. /\ DOMAIN storage' = DOMAIN s \cup {i}
        /\ storage'[i] = instance
        /\ \A x \in DOMAIN s : storage'[x] = s[x]
    BY <1>5, <1>6 DEF Overwrite, Only, instance
  <1>8. /\ DOMAIN memory' = D \cup DOMAIN memory \cup {i}
        /\ memory'[i] = new
        /\ \A x \in DOMAIN memory \ {i} : memory'[x] = memory[x]
        /\ \A x \in D \ DOMAIN memory : memory'[x] = Bare(Drawn[x], None)
    <2> DEFINE drawn == [d \in D |-> Bare(Drawn[d], None)]
    <2>1. memory' = Overwrite(Overwrite(drawn, memory), Only(i, new))
      BY <1>0 DEF D, new
    <2>2. i \notin D
      BY <1>2
    <2> QED  BY <2>1, <2>2 DEF Overwrite, Only
  <1>9. /\ m_meta_elements' = m_meta_elements \cup {i} \cup D
        /\ unsettled' = unsettled \cup Passed(t, F)
                                  \cup ({i} \cap (DOMAIN memory \cup DOMAIN storage))
        /\ existing' = existing /\ skipped' = skipped \ {i}
    BY DEF Create, Tracked, D
  <1>10. \A x \in D : /\ DOMAIN Bare(Drawn[x], None) = ElementFields
                      /\ ~Bare(Drawn[x], None).represented
                      /\ Bare(Drawn[x], None).slots = {}
    <2> SUFFICES ASSUME NEW x \in D
                 PROVE  /\ DOMAIN Bare(Drawn[x], None) = ElementFields
                        /\ ~Bare(Drawn[x], None).represented
                        /\ Bare(Drawn[x], None).slots = {}
      OBVIOUS
    <2>1. Drawn[x] \in Types
      BY <1>2, StoreAssumption
    <2> QED  BY <2>1, BareFields
  <1>11. Shape'
    <2>1. ASSUME NEW x \in DOMAIN memory'
          PROVE  /\ DOMAIN memory'[x] = ElementFields
                 /\ memory'[x].slots \subseteq DOMAIN memory'[x].sets
      <3>1. CASE x = i
        BY <3>1, <1>1, <1>3, <1>8
      <3>2. CASE x \in DOMAIN memory \ {i}
        BY <3>2, <1>8 DEF IInv, Shape
      <3>3. CASE x \in D \ DOMAIN memory
        BY <3>3, <1>8, <1>10
      <3> QED  BY <2>1, <3>1, <3>2, <3>3, <1>8
    <2>2. \A x \in DOMAIN storage' : DOMAIN storage'[x] = InstanceFields
      BY <1>4, <1>6, <1>7 DEF Kept
    <2>3. DOMAIN storage' \cap DOMAIN Drawn = {}
      BY <1>6, <1>7 DEF IInv, Shape
    <2> QED  BY <2>1, <2>2, <2>3 DEF Shape
  <1>12. TwinsAgree'
    <2> SUFFICES ASSUME NEW x \in DOMAIN memory'
                 PROVE  /\ memory'[x].represented <=> x \in DOMAIN storage'
                        /\ x \in DOMAIN storage' =>
                              /\ storage'[x].type = memory'[x].type
                              /\ storage'[x].applying =
                                    IF memory'[x].applying \in existing'
                                    THEN memory'[x].applying ELSE None
                              /\ DOMAIN storage'[x].slots = memory'[x].slots
      BY DEF TwinsAgree
    <2>1. CASE x = i
      BY <2>1, <1>3, <1>4, <1>7, <1>8, <1>9
    <2>2. CASE x \in DOMAIN memory \ {i}
      <3>1. memory'[x] = memory[x] /\ (x \in DOMAIN storage' <=> x \in DOMAIN storage)
        BY <2>2, <1>6, <1>7, <1>8
      <3>2. x \in DOMAIN storage =>
              /\ storage'[x].type = storage[x].type
              /\ storage'[x].applying = storage[x].applying
              /\ DOMAIN storage'[x].slots = DOMAIN storage[x].slots
        BY <2>2, <1>6, <1>7 DEF Kept
      <3> QED  BY <2>2, <3>1, <3>2, <1>9 DEF IInv, TwinsAgree
    <2>3. CASE x \in D \ DOMAIN memory
      <3>1. x \notin DOMAIN storage'
        BY <2>3, <1>2, <1>6, <1>7 DEF IInv, Shape
      <3> QED  BY <2>3, <3>1, <1>8, <1>10
    <2> QED  BY <2>1, <2>2, <2>3, <1>8
  <1>13. SlotsFollowSets'
    <2> SUFFICES ASSUME NEW x \in DOMAIN memory', Complete(x)', NEW p \in memory'[x].slots
                 PROVE  storage'[x].slots[p] \ unsettled'
                          = memory'[x].sets[p] \ unsettled'
      BY DEF SlotsFollowSets
    <2>1. CASE x = i
      <3>1. p \in P /\ storage'[x].slots = slots /\ memory'[x].sets = C
        BY <2>1, <1>3, <1>4, <1>7, <1>8
      <3>2. slots[p] \ Passed(t, F) = C[p] \ Passed(t, F)
        BY <1>1, <3>1, CreationSettles
      <3>3. Passed(t, F) \subseteq unsettled'
        BY <1>9
      <3> QED  BY <3>1, <3>2, <3>3
    <2>2. CASE x \in DOMAIN memory \ {i}
      <3>1. Complete(x) /\ memory'[x] = memory[x] /\ x \in DOMAIN storage
        BY <2>2, <1>8 DEF Complete, IInv, TwinsAgree
      <3>2. storage'[x] = s[x] /\ p \in DOMAIN s[x].slots
        BY <2>2, <3>1, <1>6, <1>7 DEF IInv, TwinsAgree, Kept
      <3>3. storage[x].slots[p] \ unsettled = memory[x].sets[p] \ unsettled
        BY <2>2, <3>1 DEF IInv, SlotsFollowSets
      <3>4. {i} \cap DOMAIN storage \subseteq unsettled' /\ unsettled \subseteq unsettled'
        BY <1>9
      <3>5. s[x].slots[p] \cup ({i} \cap DOMAIN storage)
              = storage[x].slots[p] \cup ({i} \cap DOMAIN storage)
        BY <3>2, <1>6, <1>7, <2>2, <3>1 DEF Kept
      <3> QED  BY <3>1, <3>2, <3>3, <3>4, <3>5
    <2>3. CASE x \in D \ DOMAIN memory
      BY <2>3, <1>8, <1>10, <1>2 DEF Complete
    <2> QED  BY <2>1, <2>2, <2>3, <1>8
  <1>14. SaveIsComplete' /\ Housed'
    BY <1>2, <1>6, <1>7, <1>8, <1>9 DEF IInv, SaveIsComplete, Housed
  <1>15. NoHangingReferences'
    BY <1>2, <1>3, <1>8, <1>9, <1>10 DEF IInv, NoHangingReferences
  <1> QED  BY <1>11, <1>12, <1>13, <1>14, <1>15 DEF IInv

\* An instance that a step leaves, but for values that are unsettled after it.
SameInstance(x) ==
    /\ x \in DOMAIN storage
    /\ DOMAIN storage'[x] = InstanceFields
    /\ storage'[x].type = storage[x].type
    /\ DOMAIN storage'[x].slots = DOMAIN storage[x].slots
    /\ \A p \in DOMAIN storage[x].slots :
          storage'[x].slots[p] \cup unsettled' = storage[x].slots[p] \cup unsettled'

\* The same of an element, which keeps its instance.
SameElement(x) ==
    /\ x \in DOMAIN memory
    /\ DOMAIN memory'[x] = ElementFields
    /\ memory'[x].type = memory[x].type
    /\ memory'[x].applying = memory[x].applying
    /\ memory'[x].represented = memory[x].represented
    /\ memory'[x].slots = memory[x].slots
    /\ DOMAIN memory'[x].sets = DOMAIN memory[x].sets
    /\ \A p \in DOMAIN memory[x].sets :
          memory'[x].sets[p] \cup unsettled' = memory[x].sets[p] \cup unsettled'
    /\ x \in DOMAIN storage =>
          /\ x \in DOMAIN storage'
          /\ storage'[x].applying = IF memory[x].applying \in existing'
                                    THEN memory[x].applying ELSE None

\* An element that was made without an instance.
Homeless(x) ==
    /\ DOMAIN memory'[x] = ElementFields
    /\ ~memory'[x].represented /\ memory'[x].slots = {}
    /\ x \notin DOMAIN storage'

\* An element that was created to the end and leaves memory leaves its instance
\* behind, and the slots of the instance hold what the sets held, but for
\* values that have been away and default values that go on to a superset.
SetsSurvive ==
    \A i \in DOMAIN memory \ DOMAIN memory' : Complete(i) =>
       /\ i \in DOMAIN storage'
       /\ \A p \in memory[i].slots :
             storage'[i].slots[p] \ unsettled' = memory[i].sets[p] \ unsettled'

\* Instances that stay carry the sets of the elements that leave.
LEMMA InstancesCarrySets ==
    ASSUME IInv, unsettled \subseteq unsettled',
           \A x \in DOMAIN storage' : SameInstance(x),
           \A x \in DOMAIN memory \cap DOMAIN storage : x \in DOMAIN storage'
    PROVE  SetsSurvive
  <1> SUFFICES ASSUME NEW i \in DOMAIN memory, Complete(i)
               PROVE  /\ i \in DOMAIN storage'
                      /\ \A p \in memory[i].slots :
                            storage'[i].slots[p] \ unsettled'
                               = memory[i].sets[p] \ unsettled'
    BY DEF SetsSurvive
  <1>1. /\ i \in DOMAIN storage /\ i \in DOMAIN storage'
        /\ DOMAIN storage[i].slots = memory[i].slots
    BY DEF Complete, IInv, TwinsAgree
  <1>2. ASSUME NEW p \in memory[i].slots
        PROVE  storage'[i].slots[p] \ unsettled' = memory[i].sets[p] \ unsettled'
    <2>1. storage[i].slots[p] \ unsettled = memory[i].sets[p] \ unsettled
      BY DEF IInv, SlotsFollowSets
    <2>2. storage'[i].slots[p] \cup unsettled' = storage[i].slots[p] \cup unsettled'
      BY <1>1 DEF SameInstance
    <2> QED  BY <2>1, <2>2
  <1> QED  BY <1>1, <1>2

\* A step that makes no instance, and keeps or forgets what there is.
LEMMA KeepInv ==
    ASSUME IInv,
           \A x \in DOMAIN storage' : SameInstance(x),
           \A x \in DOMAIN memory' : SameElement(x) \/ Homeless(x),
           unsettled \subseteq unsettled',
           m_meta_elements \subseteq m_meta_elements',
           DOMAIN memory' \subseteq m_meta_elements',
           m_meta_elements' \ unsettled' \subseteq DOMAIN storage' \cup DOMAIN Drawn,
           \A x \in DOMAIN memory' \ skipped' :
              memory'[x].represented => memory'[x].applying \in existing' \cup {None}
    PROVE  IInv'
  <1>1. Shape'
    BY DEF IInv, Shape, SameInstance, SameElement, Homeless
  <1>2. TwinsAgree'
    BY DEF IInv, TwinsAgree, SameInstance, SameElement, Homeless
  <1>3. SlotsFollowSets'
    <2> SUFFICES ASSUME NEW x \in DOMAIN memory', Complete(x)', NEW p \in memory'[x].slots
                 PROVE  storage'[x].slots[p] \ unsettled'
                          = memory'[x].sets[p] \ unsettled'
      BY DEF SlotsFollowSets
    <2>1. SameElement(x)
      BY DEF Complete, Homeless
    <2>2. Complete(x) /\ p \in memory[x].slots /\ p \in DOMAIN memory[x].sets
      BY <2>1 DEF Complete, SameElement, IInv, Shape
    <2>3. x \in DOMAIN storage /\ x \in DOMAIN storage' /\ p \in DOMAIN storage[x].slots
      BY <2>1, <2>2 DEF Complete, SameElement, IInv, TwinsAgree
    <2>4. storage[x].slots[p] \ unsettled = memory[x].sets[p] \ unsettled
      BY <2>1, <2>2 DEF IInv, SlotsFollowSets, SameElement
    <2>5. storage'[x].slots[p] \cup unsettled' = storage[x].slots[p] \cup unsettled'
      BY <2>3 DEF SameInstance
    <2>6. memory'[x].sets[p] \cup unsettled' = memory[x].sets[p] \cup unsettled'
      BY <2>1, <2>2 DEF SameElement
    <2> QED  BY <2>4, <2>5, <2>6
  <1>4. SaveIsComplete'
    BY DEF IInv, SaveIsComplete, SameInstance
  <1>5. Housed' /\ NoHangingReferences'
    BY DEF Housed, NoHangingReferences
  <1> QED  BY <1>1, <1>2, <1>3, <1>4, <1>5 DEF IInv

\* A creation that ends early leaves an element without an instance, and an
\* instance that had its id is gone.
LEMMA CreateUnnaturalInv ==
    ASSUME IInv, NEW i \in Ids \ DOMAIN Drawn, NEW t \in Types,
           NEW a \in existing \cup {None}, NEW P \in SUBSET SetsOf[t],
           NEW D \in SUBSET DataOf[t], CreateUnnatural(t, a, i, P, D)
    PROVE  IInv'
  <1> DEFINE S == {i}
             new == [Bare(t, a) EXCEPT !.sets = [p \in P |-> @[p]],
                                       !.data = [d \in D |-> @[d]]]
  <1>1. DOMAIN new = ElementFields /\ ~new.represented /\ new.slots = {}
    BY DEF Bare, ElementFields
  <1>2. /\ memory' = Overwrite(memory, Only(i, new))
        /\ storage' \in Reindexed(storage, S)
        /\ m_meta_elements' = m_meta_elements \cup S
        /\ unsettled' = unsettled \cup S
        /\ existing' = existing /\ skipped' = skipped \ S
    BY DEF CreateUnnatural, Tracked
  <1>3. \A x \in DOMAIN storage : DOMAIN storage[x] = InstanceFields
    BY DEF IInv, Shape
  <1> HIDE DEF new
  <1>4. /\ DOMAIN memory' = DOMAIN memory \cup S
        /\ memory'[i] = new
        /\ \A x \in DOMAIN memory \ S : memory'[x] = memory[x]
    BY <1>2 DEF Overwrite, Only
  <1>5. i \in S
    OBVIOUS
  <1>6. \A x \in S : x = i
    OBVIOUS
  <1> HIDE DEF S
  <1>7. /\ DOMAIN storage' = DOMAIN storage \ S
        /\ Kept(storage, S \cap DOMAIN storage, storage')
    BY <1>2, <1>3, ReindexKeeps
  <1>8. \A x \in DOMAIN storage' : SameInstance(x)
    BY <1>2, <1>3, <1>7 DEF SameInstance, Kept
  <1>9. \A x \in DOMAIN memory' : SameElement(x) \/ Homeless(x)
    <2> SUFFICES ASSUME NEW x \in DOMAIN memory'  PROVE SameElement(x) \/ Homeless(x)
      OBVIOUS
    <2>1. CASE x \in S
      BY <2>1, <1>1, <1>4, <1>6, <1>7 DEF Homeless
    <2>2. CASE x \in DOMAIN memory \ S
      BY <2>2, <1>2, <1>4, <1>7 DEF SameElement, IInv, Shape, TwinsAgree, Kept
    <2> QED  BY <2>1, <2>2, <1>4
  <1>10. \A x \in DOMAIN memory' \ skipped' :
           memory'[x].represented => memory'[x].applying \in existing' \cup {None}
    BY <1>1, <1>2, <1>4, <1>6 DEF IInv, NoHangingReferences
  <1>11. /\ DOMAIN memory' \subseteq m_meta_elements'
         /\ m_meta_elements' \ unsettled' \subseteq DOMAIN storage' \cup DOMAIN Drawn
    BY <1>2, <1>4, <1>7 DEF IInv, SaveIsComplete, Housed
  <1> QED  BY <1>2, <1>8, <1>9, <1>10, <1>11, KeepInv

\* Data is not in the instance.
LEMMA SetDataInv ==
    ASSUME IInv, NEW i \in DOMAIN memory, NEW d, NEW v, SetData(i, d, v)
    PROVE  IInv'
  <1> DEFINE new == [memory[i] EXCEPT !.data[d] = v]
  <1>1. /\ memory' = [memory EXCEPT ![i] = new]
        /\ UNCHANGED <<storage, m_meta_elements, existing, unsettled, skipped>>
    BY DEF SetData
  <1>2. DOMAIN memory[i] = ElementFields
    BY DEF IInv, Shape
  <1>3. /\ DOMAIN new = ElementFields
        /\ new.type = memory[i].type /\ new.applying = memory[i].applying
        /\ new.represented = memory[i].represented
        /\ new.slots = memory[i].slots /\ new.sets = memory[i].sets
    BY <1>2 DEF ElementFields
  <1> HIDE DEF new
  <1>4. /\ DOMAIN memory' = DOMAIN memory
        /\ memory'[i] = new
        /\ \A x \in DOMAIN memory \ {i} : memory'[x] = memory[x]
    BY <1>1
  <1>5. \A x \in DOMAIN memory' : SameElement(x)
    BY <1>1, <1>3, <1>4 DEF SameElement, IInv, Shape, TwinsAgree
  <1>6. \A x \in DOMAIN storage' : SameInstance(x)
    BY <1>1 DEF SameInstance, IInv, Shape
  <1>7. \A x \in DOMAIN memory' \ skipped' :
           memory'[x].represented => memory'[x].applying \in existing' \cup {None}
    BY <1>1, <1>3, <1>4 DEF IInv, NoHangingReferences
  <1> QED  BY <1>1, <1>4, <1>5, <1>6, <1>7, KeepInv DEF IInv, SaveIsComplete, Housed

\* Releasing writes nothing and loses nothing.
LEMMA ReleaseInv ==
    ASSUME IInv, NEW i \in DOMAIN memory, Release(i)
    PROVE  IInv' /\ SetsSurvive
  <1>1. /\ DOMAIN memory' \subseteq DOMAIN memory
        /\ \A x \in DOMAIN memory' : memory'[x] = memory[x]
        /\ UNCHANGED <<storage, m_meta_elements, existing, unsettled, skipped>>
    BY DEF Release, Without
  <1>2. \A x \in DOMAIN memory' : SameElement(x)
    BY <1>1 DEF SameElement, IInv, Shape, TwinsAgree
  <1>3. \A x \in DOMAIN storage' : SameInstance(x)
    BY <1>1 DEF SameInstance, IInv, Shape
  <1>4. \A x \in DOMAIN memory' \ skipped' :
           memory'[x].represented => memory'[x].applying \in existing' \cup {None}
    BY <1>1 DEF IInv, NoHangingReferences
  <1>5. SetsSurvive
    BY <1>1, <1>3, InstancesCarrySets
  <1>6. IInv'
    BY <1>1, <1>2, <1>3, <1>4, KeepInv DEF IInv, SaveIsComplete, Housed
  <1> QED  BY <1>5, <1>6

\* A change of a set is a change of its slot, for all values that are settled.
LEMMA ChangeSetInv ==
    ASSUME IInv, NEW i \in DOMAIN memory, NEW p, NEW out, NEW in,
           out \cap unsettled = {} \/ out \subseteq unsettled,
           in \cap unsettled = {} \/ in \subseteq unsettled,
           ChangeSet(i, p, out, in)
    PROVE  IInv'
  <1>1. PICK Q \in Reached(i, p, out), R \in Reached(i, p, in) :
          /\ memory' = [memory EXCEPT ![i].sets =
                [q \in DOMAIN @ |-> IF q \in Supersets[p]
                                    THEN (@[q] \ out) \cup in ELSE @[q]]]
          /\ storage' = IF ~memory[i].represented THEN storage ELSE
                [storage EXCEPT ![i].slots =
                   [q \in DOMAIN @ |-> (@[q] \ IF q \in Q THEN out ELSE {})
                                       \cup IF q \in R THEN in ELSE {}]]
          /\ UNCHANGED <<m_meta_elements, existing, unsettled, skipped>>
    BY DEF ChangeSet
  <1> DEFINE sets == memory[i].sets
             slots == storage[i].slots
             newSets == [q \in DOMAIN sets |-> IF q \in Supersets[p]
                                               THEN (sets[q] \ out) \cup in ELSE sets[q]]
             newSlots == [q \in DOMAIN slots |-> (slots[q] \ IF q \in Q THEN out ELSE {})
                                                 \cup IF q \in R THEN in ELSE {}]
             new == [memory[i] EXCEPT !.sets = newSets]
             instance == [storage[i] EXCEPT !.slots = newSlots]
  <1>2. /\ DOMAIN memory' = DOMAIN memory /\ memory'[i] = new
        /\ \A x \in DOMAIN memory \ {i} : memory'[x] = memory[x]
    BY <1>1
  <1>3. /\ DOMAIN storage' = DOMAIN storage
        /\ \A x \in DOMAIN storage \ {i} : storage'[x] = storage[x]
        /\ memory[i].represented => i \in DOMAIN storage /\ storage'[i] = instance
        /\ ~memory[i].represented => i \notin DOMAIN storage
    BY <1>1 DEF IInv, TwinsAgree
  <1>4. /\ DOMAIN new = ElementFields
        /\ new.type = memory[i].type /\ new.applying = memory[i].applying
        /\ new.represented = memory[i].represented /\ new.slots = memory[i].slots
        /\ new.sets = newSets
    BY DEF IInv, Shape, ElementFields
  <1>5. i \in DOMAIN storage =>
          /\ DOMAIN instance = InstanceFields
          /\ instance.type = storage[i].type
          /\ instance.applying = storage[i].applying
          /\ instance.slots = newSlots
    BY DEF IInv, Shape, InstanceFields
  <1>6. DOMAIN newSets = DOMAIN sets /\ DOMAIN newSlots = DOMAIN slots
    OBVIOUS
  <1>7. Complete(i) => \A q \in DOMAIN sets \cap DOMAIN slots :
          slots[q] \ unsettled = sets[q] \ unsettled =>
             newSlots[q] \ unsettled = newSets[q] \ unsettled
    <2> SUFFICES ASSUME Complete(i), NEW q \in DOMAIN sets \cap DOMAIN slots,
                        slots[q] \ unsettled = sets[q] \ unsettled
                 PROVE  newSlots[q] \ unsettled = newSets[q] \ unsettled
      OBVIOUS
    <2>1. /\ Q \subseteq Supersets[p] /\ (Q = Supersets[p] \/ out \subseteq unsettled)
          /\ R \subseteq Supersets[p] /\ (R = Supersets[p] \/ in \subseteq unsettled)
      BY <1>1 DEF Reached
    <2>2. /\ newSets[q] = IF q \in Supersets[p] THEN (sets[q] \ out) \cup in ELSE sets[q]
          /\ newSlots[q] = (slots[q] \ IF q \in Q THEN out ELSE {})
                             \cup IF q \in R THEN in ELSE {}
      OBVIOUS
    <2> HIDE DEF sets, slots, newSets, newSlots
    <2>3. CASE q \in Supersets[p]  BY <2>1, <2>2, <2>3
    <2>4. CASE q \notin Supersets[p]  BY <2>1, <2>2, <2>4
    <2> QED  BY <2>3, <2>4
  <1> HIDE DEF newSets, newSlots, new, instance
  <1>8. Shape'
    BY <1>2, <1>3, <1>4, <1>5, <1>6 DEF IInv, Shape, TwinsAgree
  <1>9. TwinsAgree'
    <2> SUFFICES ASSUME NEW x \in DOMAIN memory'
                 PROVE  /\ memory'[x].represented <=> x \in DOMAIN storage'
                        /\ x \in DOMAIN storage' =>
                              /\ storage'[x].type = memory'[x].type
                              /\ storage'[x].applying =
                                    IF memory'[x].applying \in existing'
                                    THEN memory'[x].applying ELSE None
                              /\ DOMAIN storage'[x].slots = memory'[x].slots
      BY DEF TwinsAgree
    <2>1. existing' = existing
      BY <1>1
    <2>2. CASE x = i
      BY <2>1, <2>2, <1>2, <1>3, <1>4, <1>5, <1>6 DEF IInv, TwinsAgree
    <2>3. CASE x # i
      BY <2>1, <2>3, <1>2, <1>3 DEF IInv, TwinsAgree
    <2> QED  BY <2>2, <2>3
  <1>10. SlotsFollowSets'
    <2> SUFFICES ASSUME NEW x \in DOMAIN memory', Complete(x)', NEW q \in memory'[x].slots
                 PROVE  storage'[x].slots[q] \ unsettled'
                          = memory'[x].sets[q] \ unsettled'
      BY DEF SlotsFollowSets
    <2>1. unsettled' = unsettled /\ x \in DOMAIN memory
      BY <1>1, <1>2
    <2>2. CASE x = i
      <3>1. Complete(i) /\ q \in memory[i].slots
        BY <2>2, <1>2, <1>4 DEF Complete
      <3>2. i \in DOMAIN storage /\ q \in DOMAIN slots /\ q \in DOMAIN sets
        BY <3>1 DEF Complete, IInv, TwinsAgree, Shape
      <3>3. slots[q] \ unsettled = sets[q] \ unsettled
        BY <3>1 DEF IInv, SlotsFollowSets
      <3>4. storage'[i].slots = newSlots /\ memory'[i].sets = newSets
        BY <1>2, <1>3, <1>4, <1>5, <3>1, <3>2 DEF Complete
      <3> HIDE DEF slots, sets
      <3> QED  BY <2>1, <2>2, <3>1, <3>2, <3>3, <3>4, <1>7
    <2>3. CASE x # i
      BY <2>1, <2>3, <1>2, <1>3 DEF IInv, SlotsFollowSets, TwinsAgree, Complete
    <2> QED  BY <2>2, <2>3
  <1>11. SaveIsComplete' /\ Housed'
    BY <1>1, <1>2, <1>3 DEF IInv, SaveIsComplete, Housed
  <1>12. NoHangingReferences'
    BY <1>1, <1>2, <1>4 DEF IInv, NoHangingReferences
  <1> QED  BY <1>8, <1>9, <1>10, <1>11, <1>12 DEF IInv

\* Loading loses the instances of what was loaded, which is unsettled then.
LEMMA AfterInv ==
    ASSUME IInv, NEW S, NEW released, NEW erased,
           After(S, released, erased), UNCHANGED <<existing, skipped>>
    PROVE  IInv' /\ SetsSurvive
  <1>1. PICK o \in Loads(S) :
          /\ memory' = Forget(Without(o.memory, released \cup erased), erased)
          /\ storage' = o.storage
          /\ m_meta_elements' = m_meta_elements \cup o.loaded
          /\ unsettled' = unsettled \cup erased \cup (o.loaded \cap DOMAIN storage)
    BY DEF After, Tracked
  <1> DEFINE L == o.loaded
             m == Without(o.memory, released \cup erased)
  <1>2. Shape
    BY DEF IInv
  <1>3. /\ \A l \in L : HasInstance(l)
        /\ L \cap DOMAIN memory = {}
        /\ DOMAIN o.memory = DOMAIN memory \cup L
        /\ \A x \in DOMAIN memory : o.memory[x] = memory[x]
        /\ \A x \in L : /\ DOMAIN o.memory[x] = ElementFields
                        /\ ~o.memory[x].represented /\ o.memory[x].slots = {}
        /\ o.storage \in Reindexed(storage, L)
    BY <1>1, <1>2, LoadsKeep
  <1> HIDE DEF L
  <1>4. /\ DOMAIN storage' = DOMAIN storage \ L
        /\ Kept(storage, L \cap DOMAIN storage, storage')
    <2>1. /\ DOMAIN o.storage = DOMAIN storage \ L
          /\ Kept(storage, L \cap DOMAIN storage, o.storage)
      BY <1>2, <1>3, ReindexKeeps DEF Shape
    <2> QED  BY <2>1, <1>1
  <1>5. /\ DOMAIN m \subseteq DOMAIN memory \cup L
        /\ \A x \in DOMAIN m : m[x] = o.memory[x]
    BY <1>3 DEF Without
  <1> HIDE DEF m
  <1>6. \A x \in DOMAIN m : DOMAIN m[x] = ElementFields
    BY <1>2, <1>3, <1>5 DEF Shape
  <1>7. DOMAIN memory' = DOMAIN m /\ KeptSets(m, erased, memory')
    BY <1>1, <1>6, ForgetKeeps DEF m
  <1>8. \A x \in DOMAIN storage' : SameInstance(x)
    BY <1>1, <1>4 DEF SameInstance, Kept, L
  <1>9. ASSUME NEW x \in DOMAIN memory'
        PROVE  SameElement(x) \/ Homeless(x)
    <2>1. CASE x \in L
      BY <2>1, <1>3, <1>4, <1>5, <1>7 DEF Homeless, KeptSets
    <2>2. CASE x \in DOMAIN memory \ L
      <3>1. m[x] = memory[x] /\ erased \subseteq unsettled'
        BY <2>2, <1>1, <1>3, <1>5, <1>7
      <3>2. x \in DOMAIN storage =>
              /\ x \in DOMAIN storage'
              /\ storage'[x].applying = IF memory[x].applying \in existing'
                                        THEN memory[x].applying ELSE None
        BY <2>2, <1>4 DEF Kept, IInv, TwinsAgree
      <3> QED  BY <2>2, <3>1, <3>2, <1>7 DEF SameElement, KeptSets
    <2> QED  BY <2>1, <2>2, <1>5, <1>7
  <1>10. \A x \in DOMAIN memory' \ skipped' :
           memory'[x].represented => memory'[x].applying \in existing' \cup {None}
    <2> SUFFICES ASSUME NEW x \in DOMAIN memory' \ skipped', memory'[x].represented
                 PROVE  memory'[x].applying \in existing' \cup {None}
      OBVIOUS
    <2>1. SameElement(x)
      BY <1>9 DEF Homeless
    <2> QED  BY <2>1 DEF SameElement, IInv, NoHangingReferences
  <1>11. /\ DOMAIN memory' \subseteq m_meta_elements'
         /\ m_meta_elements' \ unsettled' \subseteq DOMAIN storage' \cup DOMAIN Drawn
    <2>1. m_meta_elements' = m_meta_elements \cup L
      BY <1>1 DEF L
    <2>2. unsettled' = unsettled \cup erased \cup (L \cap DOMAIN storage)
      BY <1>1 DEF L
    <2> QED  BY <2>1, <2>2, <1>3, <1>4, <1>5, <1>7
             DEF IInv, SaveIsComplete, Housed, HasInstance
  <1>12. SetsSurvive
    <2>1. \A x \in DOMAIN memory \cap DOMAIN storage : x \in DOMAIN storage'
      BY <1>3, <1>4
    <2> QED  BY <2>1, <1>1, <1>8, InstancesCarrySets
  <1>13. IInv'
    BY <1>1, <1>8, <1>9, <1>10, <1>11, KeepInv
  <1> QED  BY <1>12, <1>13

\* Erasing an element first erases what is applied to it, as far as the loop
\* comes.
LEMMA EraseVisitedInv ==
    ASSUME IInv, NEW e \in existing, NEW S \in SUBSET AppliedTo(e),
           EraseVisited(e, S)
    PROVE  IInv' /\ SetsSurvive
  <1> DEFINE A == AppliedTo(e)
  <1>1. PICK o \in Loads(S) :
          /\ memory' = Forget(Without(o.memory, S), S)
          /\ storage' = [x \in DOMAIN o.storage |->
                [o.storage[x] EXCEPT !.applying = IF @ = e THEN None ELSE @]]
          /\ m_meta_elements' = m_meta_elements \cup o.loaded
          /\ unsettled' = unsettled \cup S \cup (o.loaded \cap DOMAIN storage)
    BY DEF EraseVisited, Tracked
  <1>2. existing' = existing \ {e} /\ skipped' = skipped \cup (A \ S)
    BY DEF EraseVisited
  <1>3. S \subseteq DOMAIN storage /\ \A x \in DOMAIN storage \ A : storage[x].applying # e
    BY DEF AppliedTo
  <1> DEFINE L == o.loaded
             m == Without(o.memory, S)
  <1>4. Shape
    BY DEF IInv
  <1>5. /\ \A l \in L : HasInstance(l)
        /\ L \cap DOMAIN memory = {}
        /\ DOMAIN o.memory = DOMAIN memory \cup L
        /\ \A x \in DOMAIN memory : o.memory[x] = memory[x]
        /\ \A x \in L : /\ DOMAIN o.memory[x] = ElementFields
                        /\ ~o.memory[x].represented /\ o.memory[x].slots = {}
        /\ o.storage \in Reindexed(storage, L)
    BY <1>1, <1>4, LoadsKeep
  <1>6. m_meta_elements' = m_meta_elements \cup L
    BY <1>1
  <1>7. unsettled' = unsettled \cup S \cup (L \cap DOMAIN storage)
    BY <1>1
  <1> HIDE DEF A, L
  <1>8. /\ DOMAIN o.storage = DOMAIN storage \ L
        /\ Kept(storage, L \cap DOMAIN storage, o.storage)
    BY <1>4, <1>5, ReindexKeeps DEF Shape
  <1>9. /\ DOMAIN storage' = DOMAIN storage \ L
        /\ \A x \in DOMAIN storage' :
             /\ DOMAIN storage'[x] = InstanceFields
             /\ storage'[x].type = storage[x].type
             /\ storage'[x].applying = IF storage[x].applying = e
                                       THEN None ELSE storage[x].applying
             /\ storage'[x].slots = o.storage[x].slots
    BY <1>1, <1>8 DEF Kept, InstanceFields
  <1>10. \A x \in DOMAIN storage' : SameInstance(x)
    <2> SUFFICES ASSUME NEW x \in DOMAIN storage'
                 PROVE  /\ DOMAIN storage'[x].slots = DOMAIN storage[x].slots
                        /\ \A p \in DOMAIN storage[x].slots :
                              storage'[x].slots[p] \cup unsettled'
                                 = storage[x].slots[p] \cup unsettled'
      BY <1>9 DEF SameInstance
    <2>1. /\ DOMAIN o.storage[x].slots = DOMAIN storage[x].slots
          /\ \A p \in DOMAIN storage[x].slots :
                o.storage[x].slots[p] \cup (L \cap DOMAIN storage)
                   = storage[x].slots[p] \cup (L \cap DOMAIN storage)
      BY <1>8, <1>9 DEF Kept
    <2>2. storage'[x].slots = o.storage[x].slots /\ L \cap DOMAIN storage \subseteq unsettled'
      BY <1>7, <1>9
    <2> QED  BY <2>1, <2>2
  <1>11. /\ DOMAIN m = (DOMAIN memory \cup L) \ S
         /\ \A x \in DOMAIN m : m[x] = o.memory[x]
    BY <1>5 DEF Without
  <1>12. \A x \in DOMAIN m : DOMAIN m[x] = ElementFields
    BY <1>4, <1>5, <1>11 DEF Shape
  <1>13. memory' = Forget(m, S)
    BY <1>1
  <1> HIDE DEF m
  <1>14. DOMAIN memory' = DOMAIN m /\ KeptSets(m, S, memory')
    BY <1>12, <1>13, ForgetKeeps
  <1>15. ASSUME NEW x \in DOMAIN memory'
         PROVE  SameElement(x) \/ Homeless(x)
    <2>1. CASE x \in L
      BY <2>1, <1>5, <1>9, <1>11, <1>14 DEF Homeless, KeptSets
    <2>2. CASE x \in DOMAIN memory \ L
      <3>1. m[x] = memory[x] /\ S \subseteq unsettled'
        BY <2>2, <1>5, <1>7, <1>11, <1>14
      <3>2. x \in DOMAIN storage =>
              /\ x \in DOMAIN storage'
              /\ storage'[x].applying = IF memory[x].applying \in existing'
                                        THEN memory[x].applying ELSE None
        <4> SUFFICES ASSUME x \in DOMAIN storage
                     PROVE  /\ x \in DOMAIN storage'
                            /\ storage'[x].applying = IF memory[x].applying \in existing'
                                                      THEN memory[x].applying ELSE None
          OBVIOUS
        <4>1. storage[x].applying = IF memory[x].applying \in existing
                                    THEN memory[x].applying ELSE None
          BY <2>2 DEF IInv, TwinsAgree
        <4>2. /\ x \in DOMAIN storage'
              /\ storage'[x].applying = IF storage[x].applying = e
                                        THEN None ELSE storage[x].applying
          BY <2>2, <1>9
        <4> QED  BY <4>1, <4>2, <1>2
      <3> QED  BY <2>2, <3>1, <3>2, <1>14 DEF SameElement, KeptSets
    <2> QED  BY <2>1, <2>2, <1>11, <1>14
  <1>16. \A x \in DOMAIN memory' \ skipped' :
           memory'[x].represented => memory'[x].applying \in existing' \cup {None}
    <2> SUFFICES ASSUME NEW x \in DOMAIN memory' \ skipped', memory'[x].represented
                 PROVE  memory'[x].applying \in existing' \cup {None}
      OBVIOUS
    <2>1. SameElement(x) /\ x \notin S /\ x \notin A /\ x \notin skipped
      BY <1>2, <1>11, <1>14, <1>15 DEF Homeless
    <2>2. memory[x].applying \in existing \cup {None}
      BY <2>1 DEF SameElement, IInv, NoHangingReferences
    <2>3. memory[x].applying # e
      BY <2>1, <1>3 DEF SameElement, IInv, TwinsAgree
    <2> QED  BY <1>2, <2>1, <2>2, <2>3 DEF SameElement
  <1>17. /\ DOMAIN memory' \subseteq m_meta_elements'
         /\ m_meta_elements' \ unsettled' \subseteq DOMAIN storage' \cup DOMAIN Drawn
    BY <1>5, <1>6, <1>7, <1>9, <1>11, <1>14
    DEF IInv, SaveIsComplete, Housed, HasInstance
  <1>18. SetsSurvive
    <2>1. \A x \in DOMAIN memory \cap DOMAIN storage : x \in DOMAIN storage'
      BY <1>5, <1>9
    <2> QED  BY <2>1, <1>7, <1>10, InstancesCarrySets
  <1>19. IInv'
    BY <1>6, <1>7, <1>10, <1>15, <1>16, <1>17, KeepInv
  <1> QED  BY <1>18, <1>19

LEMMA EraseElementInv ==
    ASSUME IInv, NEW e \in existing, EraseElement(e)
    PROVE  IInv' /\ SetsSurvive
  <1>1. PICK S \in Visits(AppliedTo(e)) : EraseVisited(e, S) \/ EraseInterrupted(S)
    BY DEF EraseElement
  <1>2. CASE EraseVisited(e, S)
    BY <1>2, EraseVisitedInv DEF Visits
  <1>3. CASE EraseInterrupted(S)
    BY <1>3, AfterInv DEF EraseInterrupted
  <1> QED  BY <1>1, <1>2, <1>3

-----------------------------------------------------------------------------
(* Type correctness *)

\* The types of an element and of an instance.
ElementOK(m) ==
    /\ m.type \in Types
    /\ m.applying \in Elements \cup {None}
    /\ m.represented \in BOOLEAN
    /\ DOMAIN m.sets \subseteq SetsOf[m.type]
    /\ m.slots \subseteq DOMAIN m.sets
    /\ \A p \in DOMAIN m.sets : m.sets[p] \subseteq Ids
    /\ m.data \in [DOMAIN m.data -> Values]

InstanceOK(s) ==
    /\ s.type \in Types
    /\ s.applying \in Elements \cup {None}
    /\ DOMAIN s.slots \subseteq SetsOf[s.type]
    /\ \A p \in DOMAIN s.slots : s.slots[p] \subseteq Ids

\* The tables of elements and of instances.
MemoryOK(m) ==
    DOMAIN m \subseteq Ids
      /\ \A i \in DOMAIN m : DOMAIN m[i] = ElementFields /\ ElementOK(m[i])

StorageOK(s) ==
    DOMAIN s \subseteq Ids
      /\ \A i \in DOMAIN s : DOMAIN s[i] = InstanceFields /\ InstanceOK(s[i])

\* What TypeOK and Shape say together, in these terms.
Typed ==
    /\ MemoryOK(memory)
    /\ StorageOK(storage) /\ DOMAIN storage \cap DOMAIN Drawn = {}
    /\ m_meta_elements \cup unsettled \cup skipped \subseteq Ids
    /\ existing \subseteq Elements

LEMMA TypedMeans == Typed <=> TypeOK /\ Shape
  BY DEF Typed, TypeOK, Shape, MemoryOK, StorageOK, ElementOK, InstanceOK

\* The properties of a type, and the data an element starts with.
LEMMA PropertyTypes ==
    ASSUME NEW t \in Types
    PROVE  /\ DataOf[t] \subseteq DataProps
           /\ \A d \in DataOf[t] : Initially(d) \in Values
  <1>1. DataOf[t] \subseteq DataProps
    BY DEF DataOf
  <1>2. \A d \in DataProps : Initially(d) \in Values
    BY StoreAssumption DEF Initially
  <1> QED  BY <1>1, <1>2

LEMMA BareTyped ==
    ASSUME NEW t \in Types, NEW a \in Elements \cup {None}
    PROVE  /\ DOMAIN Bare(t, a) = ElementFields /\ ElementOK(Bare(t, a))
           /\ Bare(t, a).type = t /\ Bare(t, a).applying = a
           /\ ~Bare(t, a).represented /\ Bare(t, a).slots = {}
           /\ DOMAIN Bare(t, a).sets = SetsOf[t]
           /\ \A p \in SetsOf[t] : Bare(t, a).sets[p] = {}
           /\ Bare(t, a).data \in [DataOf[t] -> Values]
  <1>1. [d \in DataOf[t] |-> Initially(d)] \in [DataOf[t] -> Values]
    BY PropertyTypes
  <1>2. /\ DOMAIN Bare(t, a) = ElementFields
        /\ Bare(t, a).type = t /\ Bare(t, a).applying = a
        /\ Bare(t, a).represented = FALSE /\ Bare(t, a).slots = {}
        /\ Bare(t, a).sets = [p \in SetsOf[t] |-> {}]
        /\ Bare(t, a).data = [d \in DataOf[t] |-> Initially(d)]
    BY DEF Bare, ElementFields
  <1> QED  BY <1>1, <1>2 DEF ElementOK

LEMMA RepresentedTyped ==
    ASSUME NEW t \in Types, NEW a \in Elements \cup {None},
           NEW D \in SUBSET Findable[t], NEW P \in SUBSET D,
           NEW C \in SetOutcomes(t, D), NEW slots \in SlotOutcomes(t, P, D)
    PROVE  /\ DOMAIN Represented(t, a, P, C) = ElementFields
           /\ ElementOK(Represented(t, a, P, C))
           /\ DOMAIN Representation(t, a, P, slots) = InstanceFields
           /\ InstanceOK(Representation(t, a, P, slots))
  <1>1. /\ P \subseteq SetsOf[t] /\ \A q : Reaching(q, D) \subseteq Ids
        /\ DOMAIN C = SetsOf[t] /\ \A q \in SetsOf[t] : C[q] \subseteq Reaching(q, D)
        /\ DOMAIN slots = P /\ \A q \in P : slots[q] \subseteq Reaching(q, D)
    <2>1. P \subseteq SetsOf[t] /\ \A q : Reaching(q, D) \subseteq Ids
      BY DefaultsAreDrawn
    <2>2. DOMAIN C = SetsOf[t] /\ \A q \in SetsOf[t] : C[q] \subseteq Reaching(q, D)
      BY DEF SetOutcomes
    <2>3. DOMAIN slots = P /\ \A q \in P : slots[q] \subseteq Reaching(q, D)
      BY DEF SlotOutcomes
    <2> QED  BY <2>1, <2>2, <2>3
  <1> DEFINE new == Represented(t, a, P, C)
             instance == Representation(t, a, P, slots)
  <1>2. /\ DOMAIN new = ElementFields
        /\ new.type = t /\ new.applying = a /\ new.represented = TRUE
        /\ new.slots = P /\ new.data = Bare(t, a).data
        /\ new.sets = C
    BY DEF Represented, Bare, ElementFields
  <1>3. /\ DOMAIN instance = InstanceFields
        /\ instance.type = t /\ instance.applying = a
        /\ instance.slots = slots
    BY DEF Representation, InstanceFields
  <1>4. Bare(t, a).data \in [DataOf[t] -> Values]
    BY BareTyped
  <1> HIDE DEF new, instance
  <1>5. ElementOK(new)
    <2>1. /\ DOMAIN new.sets = SetsOf[t]
          /\ \A p \in SetsOf[t] : new.sets[p] \subseteq Ids
      BY <1>1, <1>2
    <2>2. new.data \in [DOMAIN new.data -> Values]
      BY <1>2, <1>4
    <2> QED  BY <1>1, <1>2, <2>1, <2>2 DEF ElementOK
  <1>6. InstanceOK(instance)
    BY <1>1, <1>3 DEF InstanceOK
  <1> QED  BY <1>2, <1>3, <1>5, <1>6 DEF new, instance

\* Taking values out of slots, and instances out of the store.
LEMMA DanglingTyped ==
    ASSUME NEW s, StorageOK(s), NEW S
    PROVE  \A d \in Dangling(s, S) : StorageOK(d)
  <1> DEFINE c == [x \in DOMAIN s |->
                      [s[x] EXCEPT !.slots = [p \in DOMAIN @ |-> @[p] \ S]]]
  <1>1. ASSUME NEW x \in DOMAIN s
        PROVE  DOMAIN c[x] = InstanceFields /\ InstanceOK(c[x])
    <2>1. DOMAIN s[x] = InstanceFields /\ InstanceOK(s[x])
      BY DEF StorageOK
    <2>2. /\ DOMAIN c[x] = InstanceFields
          /\ c[x].type = s[x].type /\ c[x].applying = s[x].applying
          /\ c[x].slots = [p \in DOMAIN s[x].slots |-> s[x].slots[p] \ S]
      BY <2>1 DEF InstanceFields
    <2> HIDE DEF c
    <2> QED  BY <2>1, <2>2 DEF InstanceOK
  <1>2. StorageOK(c)
    BY <1>1 DEF StorageOK
  <1> QED  BY <1>2 DEF Dangling

LEMMA ReindexTyped ==
    ASSUME NEW s, StorageOK(s), NEW S
    PROVE  \A r \in Reindexed(s, S) : StorageOK(r) /\ DOMAIN r \subseteq DOMAIN s
  <1>1. StorageOK(Without(s, S))
    BY DEF StorageOK, Without
  <1>2. \A r \in Reindexed(s, S) : StorageOK(r)
    BY <1>1, DanglingTyped DEF Reindexed
  <1>3. \A x \in DOMAIN s : DOMAIN s[x] = InstanceFields
    BY DEF StorageOK
  <1>4. \A r \in Reindexed(s, S) : DOMAIN r = DOMAIN s \ S
    BY <1>3, ReindexKeeps
  <1> QED  BY <1>2, <1>4

LEMMA ForgetTyped ==
    ASSUME NEW m, MemoryOK(m), NEW R, NEW S
    PROVE  MemoryOK(Forget(Without(m, R), S))
  <1> DEFINE w == Without(m, R)
  <1>1. MemoryOK(w)
    BY DEF MemoryOK, Without
  <1> HIDE DEF w
  <1>2. ASSUME NEW x \in DOMAIN w
        PROVE  DOMAIN Forget(w, S)[x] = ElementFields /\ ElementOK(Forget(w, S)[x])
    <2> DEFINE r == Forget(w, S)[x]
    <2>1. DOMAIN w[x] = ElementFields /\ ElementOK(w[x])
      BY <1>1 DEF MemoryOK
    <2>2. /\ DOMAIN r = ElementFields
          /\ r.type = w[x].type /\ r.applying = w[x].applying
          /\ r.represented = w[x].represented /\ r.slots = w[x].slots
          /\ r.data = w[x].data
          /\ r.sets = [p \in DOMAIN w[x].sets |-> w[x].sets[p] \ S]
      BY <2>1 DEF Forget, ElementFields
    <2> HIDE DEF r
    <2>3. ElementOK(r)
      BY <2>1, <2>2 DEF ElementOK
    <2> QED  BY <2>2, <2>3 DEF r
  <1>3. DOMAIN Forget(w, S) = DOMAIN w
    BY DEF Forget
  <1>4. MemoryOK(Forget(w, S))
    BY <1>1, <1>2, <1>3 DEF MemoryOK
  <1> QED  BY <1>4 DEF w

LEMMA OverwriteTyped ==
    ASSUME NEW f, MemoryOK(f), NEW g, MemoryOK(g)
    PROVE  MemoryOK(Overwrite(f, g))
  BY DEF MemoryOK, Overwrite

\* What is loaded from a typed store is typed.
LEMMA LoadsTyped ==
    ASSUME Typed, NEW S, NEW o \in Loads(S)
    PROVE  /\ MemoryOK(o.memory)
           /\ StorageOK(o.storage) /\ DOMAIN o.storage \subseteq DOMAIN storage
           /\ o.loaded \subseteq Ids
  <1> DEFINE Result(L, read, s) ==
                [memory |-> Overwrite(memory, [l \in L |-> Reloaded(l, read[l])]),
                 storage |-> s, loaded |-> L]
  <1>1. PICK L \in SUBSET Loadable(S) :
          \E read \in [L -> SUBSET Readable(L)],
             s \in Reindexed(storage, L) : o = Result(L, read, s)
    BY DEF Loads
  <1>2. PICK read \in [L -> SUBSET Readable(L)],
             s \in Reindexed(storage, L) : o = Result(L, read, s)
    BY <1>1
  <1> DEFINE new == [l \in L |-> Reloaded(l, read[l])]
  <1>3. o.memory = Overwrite(memory, new) /\ o.storage = s /\ o.loaded = L
    BY <1>2
  <1>4. \A l \in L : l \in Ids /\ HasInstance(l)
    BY DEF Loadable
  <1>5. ASSUME NEW l \in L
        PROVE  /\ DOMAIN Reloaded(l, read[l]) = ElementFields
               /\ ElementOK(Reloaded(l, read[l]))
    <2> DEFINE b == Bare(TypeOf(l), None)
               slots == SlotsOf(l)
               r == Reloaded(l, read[l])
    <2>1. TypeOf(l) \in Types
      BY <1>4, StoreAssumption
      DEF TypeOf, HasInstance, Typed, StorageOK, InstanceOK
    <2>2. \A p \in DOMAIN slots : slots[p] \subseteq Ids
      BY DEF SlotsOf, Typed, StorageOK, InstanceOK
    <2>3. DOMAIN b = ElementFields /\ ElementOK(b)
      BY <2>1, BareTyped
    <2>4. r = [b EXCEPT !.sets = [q \in DOMAIN @ |->
                  UNION {slots[p] \cap read[l] :
                           p \in {p \in DOMAIN slots : q \in Supersets[p]}}]]
      BY DEF Reloaded
    <2> HIDE DEF b, slots, r
    <2>5. /\ DOMAIN r = ElementFields
          /\ r.type = b.type /\ r.applying = b.applying
          /\ r.represented = b.represented /\ r.slots = b.slots
          /\ r.data = b.data /\ DOMAIN r.sets = DOMAIN b.sets
      BY <2>3, <2>4 DEF ElementFields
    <2>6. ASSUME NEW q \in DOMAIN r.sets PROVE r.sets[q] \subseteq Ids
      <3>1. r.sets[q] = UNION {slots[p] \cap read[l] :
                                 p \in {p \in DOMAIN slots : q \in Supersets[p]}}
        BY <2>3, <2>4, <2>5 DEF ElementFields
      <3> QED  BY <2>2, <3>1
    <2>7. ElementOK(r)
      BY <2>3, <2>5, <2>6 DEF ElementOK
    <2> QED  BY <2>5, <2>7 DEF r
  <1>6. MemoryOK(new)
    BY <1>4, <1>5 DEF MemoryOK
  <1> HIDE DEF new
  <1>7. MemoryOK(Overwrite(memory, new))
    BY <1>6, OverwriteTyped DEF Typed
  <1>8. StorageOK(s) /\ DOMAIN s \subseteq DOMAIN storage
    BY ReindexTyped DEF Typed
  <1> QED  BY <1>3, <1>4, <1>7, <1>8

\* One element more.
LEMMA OnlyTyped ==
    ASSUME NEW i \in Ids, NEW r
    PROVE  /\ DOMAIN r = ElementFields /\ ElementOK(r) => MemoryOK(Only(i, r))
           /\ DOMAIN r = InstanceFields /\ InstanceOK(r) => StorageOK(Only(i, r))
           /\ DOMAIN Only(i, r) = {i}
  BY DEF MemoryOK, StorageOK, Only

LEMMA CreateTyped ==
    ASSUME Typed, NEW i \in Ids \ DOMAIN Drawn, NEW t \in Types,
           NEW a \in existing \cup {None}, NEW P \in SUBSET Findable[t],
           NEW F \in SUBSET Findable[t], Create(t, a, i, P, F)
    PROVE  Typed'
  <1>6. PICK C \in SetOutcomes(t, F) :
          memory' = Overwrite(Overwrite([d \in Drawings(F) |-> Bare(Drawn[d], None)],
                                        memory),
                              Only(i, Represented(t, a, P, C)))
    BY DEF Create
  <1>5. PICK s \in Reindexed(storage, {i}), slots \in SlotOutcomes(t, P, F) :
          storage' = Overwrite(s, Only(i, Representation(t, a, P, slots)))
    BY DEF Create
  <1> DEFINE D == Drawings(F)
             drawn == [d \in D |-> Bare(Drawn[d], None)]
             new == Represented(t, a, P, C)
             instance == Representation(t, a, P, slots)
  <1>1. D \subseteq DOMAIN Drawn /\ Passed(t, F) \subseteq Ids
    BY DefaultsAreDrawn
  <1>2. a \in Elements \cup {None}
    BY DEF Typed
  <1>3. MemoryOK(drawn)
    <2>1. ASSUME NEW d \in D
          PROVE  /\ DOMAIN Bare(Drawn[d], None) = ElementFields
                 /\ ElementOK(Bare(Drawn[d], None))
      <3>1. Drawn[d] \in Types
        BY <1>1, StoreAssumption
      <3> QED  BY <3>1, BareTyped
    <2> QED  BY <1>1, <2>1, StoreAssumption DEF MemoryOK
  <1>4. /\ DOMAIN new = ElementFields /\ ElementOK(new)
        /\ DOMAIN instance = InstanceFields /\ InstanceOK(instance)
    <2>1. P \in SUBSET F
      BY DEF Create, Ends
    <2> QED  BY <1>2, <2>1, RepresentedTyped
  <1>7. /\ m_meta_elements' = m_meta_elements \cup {i} \cup D
        /\ unsettled' = unsettled \cup Passed(t, F)
                                  \cup ({i} \cap (DOMAIN memory \cup DOMAIN storage))
        /\ existing' = existing /\ skipped' = skipped \ {i}
    BY DEF Create, Tracked
  <1> HIDE DEF D, drawn, new, instance
  <1>8. MemoryOK(memory')
    <2>1. MemoryOK(Only(i, new))
      BY <1>4, OnlyTyped
    <2>2. MemoryOK(Overwrite(drawn, memory))
      BY <1>3, OverwriteTyped DEF Typed
    <2> QED  BY <1>6, <2>1, <2>2, OverwriteTyped DEF D, drawn, new
  <1>9. StorageOK(storage') /\ DOMAIN storage' \cap DOMAIN Drawn = {}
    <2>1. StorageOK(s) /\ DOMAIN s \subseteq DOMAIN storage
      BY <1>5, ReindexTyped DEF Typed
    <2>2. StorageOK(Only(i, instance)) /\ DOMAIN Only(i, instance) = {i}
      BY <1>4, OnlyTyped
    <2> QED  BY <1>5, <2>1, <2>2 DEF StorageOK, Overwrite, Typed, instance
  <1>10. Typed' = (/\ MemoryOK(memory')
                   /\ StorageOK(storage') /\ DOMAIN storage' \cap DOMAIN Drawn = {}
                   /\ m_meta_elements' \cup unsettled' \cup skipped' \subseteq Ids
                   /\ existing' \subseteq Elements)
    BY DEF Typed, MemoryOK, StorageOK, ElementOK, InstanceOK
  <1> QED  BY <1>1, <1>7, <1>8, <1>9, <1>10, StoreAssumption DEF Typed

\* Typed' in terms of the next values of the tables.
LEMMA TypedNext ==
    ASSUME MemoryOK(memory'), StorageOK(storage'),
           DOMAIN storage' \cap DOMAIN Drawn = {},
           m_meta_elements' \cup unsettled' \cup skipped' \subseteq Ids,
           existing' \subseteq Elements
    PROVE  Typed'
  BY DEF Typed, MemoryOK, StorageOK, ElementOK, InstanceOK

LEMMA CreateUnnaturalTyped ==
    ASSUME Typed, NEW i \in Ids \ DOMAIN Drawn, NEW t \in Types,
           NEW a \in existing \cup {None}, NEW P \in SUBSET SetsOf[t],
           NEW D \in SUBSET DataOf[t], CreateUnnatural(t, a, i, P, D)
    PROVE  Typed'
  <1> DEFINE b == Bare(t, a)
             new == [b EXCEPT !.sets = [p \in P |-> @[p]],
                              !.data = [d \in D |-> @[d]]]
  <1>1. a \in Elements \cup {None}
    BY DEF Typed
  <1>2. /\ DOMAIN b = ElementFields /\ ElementOK(b)
        /\ DOMAIN b.sets = SetsOf[t] /\ \A p \in SetsOf[t] : b.sets[p] = {}
        /\ b.type = t /\ b.slots = {} /\ b.data \in [DataOf[t] -> Values]
    BY <1>1, BareTyped
  <1> HIDE DEF b
  <1>3. /\ DOMAIN new = ElementFields
        /\ new.type = t /\ new.applying = b.applying
        /\ new.represented = b.represented /\ new.slots = {}
        /\ new.sets = [p \in P |-> b.sets[p]]
        /\ new.data = [d \in D |-> b.data[d]]
    BY <1>2 DEF ElementFields
  <1>4. /\ memory' = Overwrite(memory, Only(i, new))
        /\ storage' \in Reindexed(storage, {i})
        /\ m_meta_elements' = m_meta_elements \cup {i}
        /\ unsettled' = unsettled \cup {i}
        /\ existing' = existing /\ skipped' = skipped \ {i}
    BY DEF CreateUnnatural, Tracked, b
  <1> HIDE DEF new
  <1>5. ElementOK(new)
    <2>1. new.data \in [DOMAIN new.data -> Values]
      BY <1>2, <1>3
    <2>2. DOMAIN new.sets = P /\ \A p \in P : new.sets[p] = {}
      BY <1>2, <1>3
    <2> QED  BY <1>2, <1>3, <2>1, <2>2 DEF ElementOK
  <1>6. MemoryOK(memory')
    BY <1>3, <1>4, <1>5, OnlyTyped, OverwriteTyped DEF Typed
  <1>7. StorageOK(storage') /\ DOMAIN storage' \subseteq DOMAIN storage
    BY <1>4, ReindexTyped DEF Typed
  <1> QED  BY <1>4, <1>6, <1>7, TypedNext DEF Typed

LEMMA SetDataTyped ==
    ASSUME Typed, NEW i \in DOMAIN memory, NEW d \in DOMAIN memory[i].data,
           NEW v \in Values, SetData(i, d, v)
    PROVE  Typed'
  <1> DEFINE new == [memory[i] EXCEPT !.data[d] = v]
  <1>1. /\ memory' = [memory EXCEPT ![i] = new]
        /\ UNCHANGED <<storage, m_meta_elements, existing, unsettled, skipped>>
    BY DEF SetData
  <1>2. DOMAIN memory[i] = ElementFields /\ ElementOK(memory[i])
    BY DEF Typed, MemoryOK
  <1>3. /\ DOMAIN new = ElementFields
        /\ new.type = memory[i].type /\ new.applying = memory[i].applying
        /\ new.represented = memory[i].represented
        /\ new.slots = memory[i].slots /\ new.sets = memory[i].sets
        /\ new.data = [memory[i].data EXCEPT ![d] = v]
    BY <1>2 DEF ElementFields
  <1> HIDE DEF new
  <1>4. new.data \in [DOMAIN new.data -> Values]
    BY <1>2, <1>3 DEF ElementOK
  <1>5. ElementOK(new)
    BY <1>2, <1>3, <1>4 DEF ElementOK
  <1>6. MemoryOK(memory')
    BY <1>1, <1>3, <1>5 DEF Typed, MemoryOK
  <1> QED  BY <1>1, <1>6, TypedNext DEF Typed

LEMMA ChangeSetTyped ==
    ASSUME Typed, NEW i \in DOMAIN memory, NEW p, NEW out, NEW in \in SUBSET Ids,
           ChangeSet(i, p, out, in)
    PROVE  Typed'
  <1>1. PICK Q \in Reached(i, p, out), R \in Reached(i, p, in) :
          /\ memory' = [memory EXCEPT ![i].sets =
                [q \in DOMAIN @ |-> IF q \in Supersets[p]
                                    THEN (@[q] \ out) \cup in ELSE @[q]]]
          /\ storage' = IF ~memory[i].represented THEN storage ELSE
                [storage EXCEPT ![i].slots =
                   [q \in DOMAIN @ |-> (@[q] \ IF q \in Q THEN out ELSE {})
                                       \cup IF q \in R THEN in ELSE {}]]
          /\ UNCHANGED <<m_meta_elements, existing, unsettled, skipped>>
    BY DEF ChangeSet
  <1> DEFINE sets == memory[i].sets
             slots == storage[i].slots
             newSets == [q \in DOMAIN sets |-> IF q \in Supersets[p]
                                               THEN (sets[q] \ out) \cup in ELSE sets[q]]
             newSlots == [q \in DOMAIN slots |-> (slots[q] \ IF q \in Q THEN out ELSE {})
                                                 \cup IF q \in R THEN in ELSE {}]
             new == [memory[i] EXCEPT !.sets = newSets]
             instance == [storage[i] EXCEPT !.slots = newSlots]
  <1>2. DOMAIN memory[i] = ElementFields /\ ElementOK(memory[i])
    BY DEF Typed, MemoryOK
  <1>3. /\ DOMAIN new = ElementFields
        /\ new.type = memory[i].type /\ new.applying = memory[i].applying
        /\ new.represented = memory[i].represented
        /\ new.slots = memory[i].slots /\ new.data = memory[i].data
        /\ new.sets = newSets
    BY <1>2 DEF ElementFields
  <1>4. DOMAIN newSets = DOMAIN sets /\ \A q \in DOMAIN sets : newSets[q] \subseteq Ids
    BY <1>2 DEF ElementOK
  <1>5. memory' = [memory EXCEPT ![i] = new]
    BY <1>1
  <1>6. storage' = storage \/ storage' = [storage EXCEPT ![i] = instance]
    BY <1>1
  <1>7. i \in DOMAIN storage =>
           DOMAIN instance = InstanceFields /\ InstanceOK(instance)
    <2> SUFFICES ASSUME i \in DOMAIN storage
                 PROVE  DOMAIN instance = InstanceFields /\ InstanceOK(instance)
      OBVIOUS
    <2>1. DOMAIN storage[i] = InstanceFields /\ InstanceOK(storage[i])
      BY DEF Typed, StorageOK
    <2>2. DOMAIN newSlots = DOMAIN slots /\ \A q \in DOMAIN slots : newSlots[q] \subseteq Ids
      BY <2>1 DEF InstanceOK
    <2> HIDE DEF newSlots
    <2>3. /\ DOMAIN instance = InstanceFields
          /\ instance.type = storage[i].type
          /\ instance.applying = storage[i].applying
          /\ instance.slots = newSlots
      BY <2>1 DEF InstanceFields
    <2> HIDE DEF instance
    <2> QED  BY <2>1, <2>2, <2>3 DEF InstanceOK
  <1> HIDE DEF newSets, newSlots, new, instance
  <1>8. ElementOK(new)
    BY <1>2, <1>3, <1>4 DEF ElementOK
  <1>9. MemoryOK(memory')
    BY <1>3, <1>5, <1>8 DEF Typed, MemoryOK
  <1>10. StorageOK(storage') /\ DOMAIN storage' = DOMAIN storage
    BY <1>6, <1>7 DEF Typed, StorageOK
  <1> QED  BY <1>1, <1>9, <1>10, TypedNext DEF Typed

LEMMA ReleaseTyped ==
    ASSUME Typed, NEW i, Release(i)
    PROVE  Typed'
  <1>1. MemoryOK(memory')
    BY DEF Release, Typed, MemoryOK, Without
  <1> QED  BY <1>1, TypedNext DEF Release, Typed

LEMMA AfterTyped ==
    ASSUME Typed, NEW S, NEW released, NEW erased \in SUBSET Ids,
           After(S, released, erased), UNCHANGED <<existing, skipped>>
    PROVE  Typed'
  <1>1. PICK o \in Loads(S) :
          /\ memory' = Forget(Without(o.memory, released \cup erased), erased)
          /\ storage' = o.storage
          /\ m_meta_elements' = m_meta_elements \cup o.loaded
          /\ unsettled' = unsettled \cup erased \cup (o.loaded \cap DOMAIN storage)
    BY DEF After, Tracked
  <1>2. /\ MemoryOK(o.memory)
        /\ StorageOK(o.storage) /\ DOMAIN o.storage \subseteq DOMAIN storage
        /\ o.loaded \subseteq Ids
    BY <1>1, LoadsTyped
  <1>3. MemoryOK(memory')
    BY <1>1, <1>2, ForgetTyped
  <1> QED  BY <1>1, <1>2, <1>3, TypedNext DEF Typed

LEMMA EraseVisitedTyped ==
    ASSUME Typed, NEW e \in existing, NEW S \in SUBSET AppliedTo(e),
           EraseVisited(e, S)
    PROVE  Typed'
  <1>1. PICK o \in Loads(S) :
          /\ memory' = Forget(Without(o.memory, S), S)
          /\ storage' = [x \in DOMAIN o.storage |->
                [o.storage[x] EXCEPT !.applying = IF @ = e THEN None ELSE @]]
          /\ m_meta_elements' = m_meta_elements \cup o.loaded
          /\ unsettled' = unsettled \cup S \cup (o.loaded \cap DOMAIN storage)
    BY DEF EraseVisited, Tracked
  <1>2. existing' = existing \ {e} /\ skipped' = skipped \cup (AppliedTo(e) \ S)
    BY DEF EraseVisited
  <1>3. /\ MemoryOK(o.memory)
        /\ StorageOK(o.storage) /\ DOMAIN o.storage \subseteq DOMAIN storage
        /\ o.loaded \subseteq Ids
    BY <1>1, LoadsTyped
  <1>4. AppliedTo(e) \subseteq Ids
    BY DEF AppliedTo, Typed, StorageOK
  <1>5. MemoryOK(memory')
    BY <1>1, <1>3, ForgetTyped
  <1> DEFINE s == o.storage
  <1>6. ASSUME NEW x \in DOMAIN s
        PROVE  DOMAIN storage'[x] = InstanceFields /\ InstanceOK(storage'[x])
    <2>1. DOMAIN s[x] = InstanceFields /\ InstanceOK(s[x])
      BY <1>3 DEF StorageOK
    <2> DEFINE r == [s[x] EXCEPT !.applying = IF @ = e THEN None ELSE @]
    <2>2. /\ DOMAIN r = InstanceFields
          /\ r.type = s[x].type /\ r.applying \in {s[x].applying, None}
          /\ r.slots = s[x].slots
      BY <2>1 DEF InstanceFields
    <2>3. storage'[x] = r
      BY <1>1
    <2> HIDE DEF r
    <2> QED  BY <2>1, <2>2, <2>3 DEF InstanceOK
  <1>7. DOMAIN storage' = DOMAIN s
    BY <1>1
  <1>8. StorageOK(storage')
    BY <1>3, <1>6, <1>7 DEF StorageOK
  <1> QED  BY <1>1, <1>2, <1>3, <1>4, <1>5, <1>7, <1>8, TypedNext DEF Typed

LEMMA EraseElementTyped ==
    ASSUME Typed, NEW e \in existing, EraseElement(e)
    PROVE  Typed'
  <1>1. PICK S \in Visits(AppliedTo(e)) : EraseVisited(e, S) \/ EraseInterrupted(S)
    BY DEF EraseElement
  <1>2. S \subseteq AppliedTo(e) /\ AppliedTo(e) \subseteq Ids
    BY DEF Visits, AppliedTo, Typed, StorageOK
  <1>3. CASE EraseVisited(e, S)
    BY <1>2, <1>3, EraseVisitedTyped
  <1>4. CASE EraseInterrupted(S)
    BY <1>2, <1>4, AfterTyped DEF EraseInterrupted, DoneBefore
  <1> QED  BY <1>1, <1>3, <1>4

LEMMA TypedInit == Init => Typed
  BY DEF Init, Typed, MemoryOK, StorageOK

LEMMA TypedStep == Typed /\ [Next]_vars => Typed'
  <1> SUFFICES ASSUME Typed, [Next]_vars  PROVE Typed'
    OBVIOUS
  <1>1. CASE UNCHANGED vars
    BY <1>1 DEF vars, Typed, MemoryOK, StorageOK, ElementOK, InstanceOK
  <1>2. ASSUME NEW i \in Ids \ DOMAIN Drawn, NEW t \in Types,
               NEW a \in existing \cup {None}, NEW P \in SUBSET Findable[t],
               NEW D \in SUBSET Findable[t], Create(t, a, i, P, D)
        PROVE  Typed'
    BY <1>2, CreateTyped
  <1>3. ASSUME NEW i \in Ids \ DOMAIN Drawn, NEW t \in Types,
               NEW a \in existing \cup {None}, NEW P \in SUBSET SetsOf[t],
               NEW D \in SUBSET DataOf[t], CreateUnnatural(t, a, i, P, D)
        PROVE  Typed'
    BY <1>3, CreateUnnaturalTyped
  <1>4. ASSUME NEW i \in DOMAIN memory, NEW d \in DOMAIN memory[i].data,
               NEW v \in Values, SetData(i, d, v)
        PROVE  Typed'
    BY <1>4, SetDataTyped
  <1>5. ASSUME NEW i \in DOMAIN memory, NEW p, NEW v \in Members,
               AddToSet(i, p, v) \/ RemoveFromSet(i, p, v)
        PROVE  Typed'
    <2>1. {v} \in SUBSET Ids /\ {} \in SUBSET Ids
      BY StoreAssumption
    <2>2. ASSUME NEW out, NEW in \in {{}, {v}}, ChangeSet(i, p, out, in)
          PROVE  Typed'
      BY <2>1, <2>2, ChangeSetTyped
    <2> QED  BY <1>5, <2>2 DEF AddToSet, RemoveFromSet
  <1>6. ASSUME NEW i \in DOMAIN memory, Release(i)
        PROVE  Typed'
    BY <1>6, ReleaseTyped
  <1>7. ASSUME NEW i \in Ids, Get(i) \/ Erase(i)
        PROVE  Typed'
    BY <1>7, AfterTyped DEF Get, Erase
  <1>8. ASSUME NEW e \in existing, GetElement(e) \/ ReleaseElement(e)
        PROVE  Typed'
    BY <1>8, AfterTyped DEF GetElement, ReleaseElement
  <1>9. ASSUME NEW e \in existing, EraseElement(e)
        PROVE  Typed'
    BY <1>9, EraseElementTyped
  <1>10. CASE Save
    BY <1>10, AfterTyped DEF Save
  <1> QED  BY <1>1, <1>2, <1>3, <1>4, <1>5, <1>6, <1>7, <1>8, <1>9, <1>10
           DEF Next

-----------------------------------------------------------------------------
(* Theorems *)

\* Every step keeps the invariant.
LEMMA NextInv == IInv /\ [Next]_vars => IInv'
  <1> SUFFICES ASSUME IInv, [Next]_vars  PROVE IInv'
    OBVIOUS
  <1>1. CASE UNCHANGED vars
    BY <1>1 DEF vars, IInv, Shape, TwinsAgree, SlotsFollowSets, Complete,
                SaveIsComplete, Housed, NoHangingReferences
  <1>2. ASSUME NEW i \in Ids \ DOMAIN Drawn, NEW t \in Types,
               NEW a \in existing \cup {None}, NEW P \in SUBSET Findable[t],
               NEW D \in SUBSET Findable[t], Create(t, a, i, P, D)
        PROVE  IInv'
    BY <1>2, CreateInv
  <1>3. ASSUME NEW i \in Ids \ DOMAIN Drawn, NEW t \in Types,
               NEW a \in existing \cup {None}, NEW P \in SUBSET SetsOf[t],
               NEW D \in SUBSET DataOf[t], CreateUnnatural(t, a, i, P, D)
        PROVE  IInv'
    BY <1>3, CreateUnnaturalInv
  <1>4. ASSUME NEW i \in DOMAIN memory, NEW d, NEW v, SetData(i, d, v)
        PROVE  IInv'
    BY <1>4, SetDataInv
  <1>5. ASSUME NEW i \in DOMAIN memory, NEW p, NEW v, AddToSet(i, p, v)
        PROVE  IInv'
    <2>1. CASE ChangeSet(i, p, {}, {v})
      BY <2>1, ChangeSetInv
    <2>2. ASSUME NEW old, ChangeSet(i, p, {old}, {v}) \/ ChangeSet(i, p, {old}, {})
          PROVE  IInv'
      BY <2>2, ChangeSetInv
    <2> QED  BY <1>5, <2>1, <2>2 DEF AddToSet
  <1>6. ASSUME NEW i \in DOMAIN memory, NEW p, NEW v, RemoveFromSet(i, p, v)
        PROVE  IInv'
    BY <1>6, ChangeSetInv DEF RemoveFromSet
  <1>7. ASSUME NEW i \in DOMAIN memory, Release(i)
        PROVE  IInv'
    BY <1>7, ReleaseInv
  <1>8. ASSUME NEW i \in Ids, Get(i) \/ Erase(i)
        PROVE  IInv'
    BY <1>8, AfterInv DEF Get, Erase
  <1>9. ASSUME NEW e \in existing, GetElement(e) \/ ReleaseElement(e)
        PROVE  IInv'
    BY <1>9, AfterInv DEF GetElement, ReleaseElement
  <1>10. ASSUME NEW e \in existing, EraseElement(e)
         PROVE  IInv'
    BY <1>10, EraseElementInv
  <1>11. CASE Save
    BY <1>11, AfterInv DEF Save
  <1> QED  BY <1>1, <1>2, <1>3, <1>4, <1>5, <1>6, <1>7, <1>8, <1>9, <1>10, <1>11
           DEF Next

\* The invariant holds in every state.
THEOREM Invariance == Spec => []IInv
  BY InitInv, NextInv, PTL DEF Spec

\* Type correctness: whatever order elements are created, changed, released,
\* loaded and erased in, sets hold ids, slots hold what a slot can hold and each
\* record keeps its fields.
THEOREM TypeCorrect == Spec => []TypeOK
  <1>1. Init => Typed
    BY TypedInit
  <1>2. Typed /\ [Next]_vars => Typed'
    BY TypedStep
  <1>3. Typed => TypeOK
    BY TypedMeans
  <1> QED  BY <1>1, <1>2, <1>3, PTL DEF Spec

\* An element in memory and an instance of one id are always the same element.
THEOREM TwinsAlwaysAgree == Spec => []TwinsAgree
  <1>1. IInv => TwinsAgree
    BY DEF IInv
  <1> QED  BY <1>1, Invariance, PTL

\* The slots follow the sets, but for the values that have been away and for
\* default values that go on to a superset.
THEOREM SlotsAlwaysFollow == Spec => []SlotsFollowSets
  <1>1. IInv => SlotsFollowSets
    BY DEF IInv
  <1> QED  BY <1>1, Invariance, PTL

\* A SAVE writes every element: whatever is kept, in memory or released, is in
\* the indices that dump_all_data walks.
THEOREM SaveCoversAll == Spec => []SaveIsComplete
  <1>1. IInv => SaveIsComplete
    BY DEF IInv
  <1> QED  BY <1>1, Invariance, PTL

\* What a SAVE walks it finds: an element that has never been away is in memory
\* or is represented by an instance that loadElement can read.
THEOREM SaveFindsAll == Spec => []SaveFindsElements
  <1>1. IInv => SaveFindsElements
    BY DEF IInv, Housed, SaveFindsElements, HasInstance
  <1> QED  BY <1>1, Invariance, PTL

\* What leaves memory leaves its sets behind, whichever request makes it leave:
\* "do nothing cause our policies take care of it" (metaManager.cpp 681) is
\* true of the sets of an element, as it is not of its data.
THEOREM SetsSurviveRelease == Spec => [][SetsSurvive]_vars
  <1>1. IInv /\ [Next]_vars => [SetsSurvive]_vars
    <2> SUFFICES ASSUME IInv, Next  PROVE SetsSurvive
      OBVIOUS
    <2>1. ASSUME DOMAIN memory \subseteq DOMAIN memory'
          PROVE  SetsSurvive
      BY <2>1 DEF SetsSurvive
    <2>2. ASSUME NEW i \in Ids \ DOMAIN Drawn, NEW t \in Types,
                 NEW a \in existing \cup {None}, NEW P, NEW D,
                 Create(t, a, i, P, D) \/ CreateUnnatural(t, a, i, P, D)
          PROVE  SetsSurvive
      BY <2>1, <2>2 DEF Create, CreateUnnatural, Overwrite, Only
    <2>3. ASSUME NEW i \in DOMAIN memory, NEW d, NEW v, SetData(i, d, v)
          PROVE  SetsSurvive
      BY <2>1, <2>3 DEF SetData
    <2>4. ASSUME NEW i \in DOMAIN memory, NEW p, NEW v,
                 AddToSet(i, p, v) \/ RemoveFromSet(i, p, v)
          PROVE  SetsSurvive
      BY <2>1, <2>4 DEF AddToSet, RemoveFromSet, ChangeSet
    <2>5. ASSUME NEW i \in DOMAIN memory, Release(i)
          PROVE  SetsSurvive
      BY <2>5, ReleaseInv
    <2>6. ASSUME NEW i \in Ids, Get(i) \/ Erase(i)
          PROVE  SetsSurvive
      BY <2>6, AfterInv DEF Get, Erase
    <2>7. ASSUME NEW e \in existing, GetElement(e) \/ ReleaseElement(e)
          PROVE  SetsSurvive
      BY <2>7, AfterInv DEF GetElement, ReleaseElement
    <2>8. ASSUME NEW e \in existing, EraseElement(e)
          PROVE  SetsSurvive
      BY <2>8, EraseElementInv
    <2>9. CASE Save
      BY <2>9, AfterInv DEF Save
    <2> QED  BY <2>2, <2>3, <2>4, <2>5, <2>6, <2>7, <2>8, <2>9 DEF Next
  <1> QED  BY <1>1, Invariance, PTL DEF Spec

\* An element that was applied with success outlives what it applies to only
\* where the loop of erase skipped it, which takes an element that was released.
THEOREM ReferencesNeverHang == Spec => []NoHangingReferences
  <1>1. IInv => NoHangingReferences
    BY DEF IInv
  <1> QED  BY <1>1, Invariance, PTL

=============================================================================
