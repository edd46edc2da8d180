-------------------------- MODULE ProjectDocument --------------------------
(***************************************************************************)
(* The project of a server: read from --location when it starts, changed   *)
(* by its clients, and written back when it ends.                          *)
(*                                                                         *)
(* The document has the UML elements, each with what is applied to it, and *)
(* after them the meta managers with their meta elements.  It is read in   *)
(* that order.  SAVE is given the path of --location.  Requests come one   *)
(* at a time (Dispatch).                                                   *)
(*                                                                         *)
(* A meta element is in memory, or only its instance is there to load it   *)
(* from, or neither: m_meta_elements keeps its id all the same, and to be  *)
(* written it has to be found.  Sets are all that a meta element has, and  *)
(* loading finds any part of them: MetaElementStore says which.  What the  *)
(* policies that a failed parse leaves disabled do to later requests is    *)
(* not modelled.                                                           *)
(*                                                                         *)
(* Assumed of the element library: it throws when it saves without a root, *)
(* and a document is made before the file is opened to write.              *)
(*                                                                         *)
(* An operator that stands before its correct form and is used nowhere is  *)
(* a mutant of it, a bug that one of the properties at the end catches.    *)
(***************************************************************************)
EXTENDS Naturals, FiniteSets

CONSTANTS
    Elements,       \* UML elements of the project
    Root,
    Packages,       \* those a manager can be generated from again
    Managers,       \* ids of meta managers
    Ids,            \* ids of meta elements
    ManagerOf,      \* bound: the manager whose meta elements get an id
    Takes,          \* by its type, what the set of a meta element takes
    MaxMeta,        \* bound: managers and meta elements there are at once
    None

ASSUME ProjectAssumption ==
    /\ Root \in Packages /\ Packages \subseteq Elements
    /\ ManagerOf \in [Ids -> Managers] /\ Takes \in [Ids -> SUBSET Ids]
    /\ MaxMeta \in Nat
    /\ None \notin Elements \cup {"file", "client"}

VARIABLES
    running,
    root,           \* who gave the manager its root: "file", "client" or None
    elements,       \* the UML elements in the graph
    m_meta_managers,    \* meta managers, with what they were generated from
    m_meta_elements,    \* the ids their managers write
    meta,           \* the meta elements in memory, with the values of a set
    instances,      \* in the storage roots, with what each is applied to
    policies,       \* disablePolicies, enablePolicies
    file,           \* the document at --location, or None
    saved,          \* history: the project when it was last saved
    returned        \* history: meta elements loaded since they were created,
                    \* or never created to the end

vars == <<running, root, elements, m_meta_managers, m_meta_elements, meta,
          instances, policies, file, saved, returned>>

graph == <<root, elements, m_meta_managers, policies>>
store == <<m_meta_elements, meta, instances, returned>>
disk == <<file, saved>>

Nothing == [x \in {} |-> None]

Overwrite(f, g) ==
    [x \in DOMAIN f \cup DOMAIN g |-> IF x \in DOMAIN g THEN g[x] ELSE f[x]]

Without(f, S) == [x \in DOMAIN f \ S |-> f[x]]

Only(x, v) == [y \in {x} |-> v]

OfManagers(M) == {i \in Ids : ManagerOf[i] \in M}

Project(m) == [elements |-> elements, managers |-> m_meta_managers, meta |-> m]

Init ==
    /\ running = FALSE /\ root = None /\ elements = {}
    /\ m_meta_managers = Nothing /\ m_meta_elements = {}
    /\ meta = Nothing /\ instances = Nothing
    /\ policies = TRUE /\ file = None /\ saved = None /\ returned = {}

-----------------------------------------------------------------------------
(* Loading *)

AppliedTo(e) == {i \in DOMAIN instances : instances[i] = e}

\* Loading takes the instance out of the set that a loop over it is in: the
\* loop may go on, skip or end.
Visits(A) == {S \in SUBSET A : S \subseteq DOMAIN meta => S = A}

\* What of S the body of such a loop is done with, when loading threw.
DoneBefore(S) == {R \in SUBSET S \ {S} : S \cap DOMAIN meta \subseteq R}

\* What loading S loads, and what their sets hold.
Loaded(S) ==
    UNION {{f \in [L -> SUBSET (DOMAIN meta \cup L)] :
                \A l \in L : f[l] \subseteq Takes[l]} :
           L \in {L \in SUBSET (DOMAIN instances \ DOMAIN meta) :
                     S \ DOMAIN meta \subseteq L}}

\* Meta elements that are erased leave the sets they were in.
Forget(m, S) == [x \in DOMAIN m |-> m[x] \ S]

ErasesInstances(S, released, erased) ==
    \E new \in Loaded(S) :
       /\ meta' = Forget(Without(Overwrite(meta, new), released \cup erased), erased)
       /\ instances' = Without(instances, DOMAIN new \cup erased)
       /\ returned' = returned \cup DOMAIN new
       /\ UNCHANGED m_meta_elements

\* The instance of a loaded element is erased and not made again; that of an
\* erased one stays.  m_meta_elements loses neither.
After(S, released, erased) ==
    \E new \in Loaded(S) :
       /\ meta' = Forget(Without(Overwrite(meta, new), released \cup erased), erased)
       /\ instances' = Without(instances, DOMAIN new)
       /\ returned' = returned \cup DOMAIN new
       /\ UNCHANGED m_meta_elements

-----------------------------------------------------------------------------
(* Writing *)

\* For each meta element two maps are begun and one is ended: the emitter may
\* lose all but the first one of what follows, its manager's and the others'.
Kept(M) ==
    {D \in SUBSET (m_meta_elements \cap OfManagers(M)) :
        IF m_meta_elements = {} THEN M = DOMAIN m_meta_managers ELSE D # {}}

EmittedUml ==
    {U \in [elements -> SUBSET DOMAIN instances] :
        \A e \in elements : U[e] \in Visits(AppliedTo(e))}

EmitWithoutMeta(m) ==
    {[uml |-> U, meta_managers |-> m_meta_managers, data |-> Nothing] :
        U \in EmittedUml}

\* The documents that may be written, with m in memory in the end.
emitWhole(m) ==
    UNION {{[uml |-> U, meta_managers |-> [n \in M |-> m_meta_managers[n]],
             data |-> [i \in D |-> m[i]]] : U \in EmittedUml, D \in Kept(M)} :
           M \in SUBSET DOMAIN m_meta_managers}

\* emitWhole can come to the end.
CanEmit ==
    root # None /\ m_meta_elements \subseteq DOMAIN meta \cup DOMAIN instances

Saves(new) ==
    {[new |-> new, file |-> doc, saved |-> Project(Overwrite(meta, new))] :
        doc \in emitWhole(Overwrite(meta, new))}

\* Every id is loaded that is not in memory.
Completed == IF CanEmit THEN Loaded(m_meta_elements) ELSE {}

\* If one is gone, or a load throws, nothing is written.
Thrown ==
    IF root = None THEN {Nothing}
    ELSE IF m_meta_elements \subseteq DOMAIN meta THEN {} ELSE Loaded({})

save ==
    (UNION {Saves(new) : new \in Completed})
    \cup {[new |-> new, file |-> file, saved |-> saved] : new \in Thrown}

-----------------------------------------------------------------------------
(* Reading *)

\* parse_set looks the manager of an applied stereotype up among the managers
\* of this process.
UmlParses(doc) == \A e \in DOMAIN doc.uml : doc.uml[e] = {}

\* abstractGet(uml_root) and as<Package>().
ManagerParses(doc, m) ==
    doc.meta_managers[m] \in DOMAIN doc.uml \cap Packages

\* The value of a set may be missing where its policy looks for it.
DataParses(doc) == \A i \in DOMAIN doc.data : doc.data[i] \subseteq DOMAIN doc.data

\* The meta elements D are created anew.
ReadData(D, sets) ==
    /\ m_meta_elements' = D
    /\ meta' = sets
    /\ instances' = [i \in D |-> None]
    /\ returned' = {}

\* Some of the elements are read, and the policies stay disabled.
ParseUmlFails ==
    /\ ~UmlParses(file)
    /\ elements' \in SUBSET DOMAIN file.uml
    /\ policies' = FALSE
    /\ root' = None /\ m_meta_managers' = Nothing /\ ReadData({}, Nothing)

\* Some of the managers and their meta elements are read before the one that
\* throws.
ParseManagersFails ==
    /\ UmlParses(file)
    /\ \/ \E m \in DOMAIN file.meta_managers : ~ManagerParses(file, m)
       \/ ~DataParses(file)
    /\ elements' = DOMAIN file.uml
    /\ policies' = TRUE
    /\ root' = None
    /\ \E M \in SUBSET {m \in DOMAIN file.meta_managers : ManagerParses(file, m)} :
          /\ m_meta_managers' = [m \in M |-> file.meta_managers[m]]
          /\ \E D \in SUBSET (DOMAIN file.data \cap OfManagers(M)) :
             \E sets \in [D -> SUBSET Ids] :
                /\ \A i \in D : sets[i] \subseteq file.data[i]
                /\ ReadData(D, sets)

ParseSucceeds ==
    /\ UmlParses(file)
    /\ \A m \in DOMAIN file.meta_managers : ManagerParses(file, m)
    /\ elements' = DOMAIN file.uml
    /\ policies' = TRUE
    /\ root' = "file"
    /\ m_meta_managers' = file.meta_managers
    /\ \E sets \in [DOMAIN file.data -> SUBSET Ids] :
          /\ \A i \in DOMAIN file.data :
                /\ sets[i] \subseteq file.data[i]
                /\ file.data[i] \cap DOMAIN file.data \subseteq sets[i]
          /\ ReadData(DOMAIN file.data, sets)

-----------------------------------------------------------------------------
(* The process *)

\* An exception of open is logged, and the server starts all the same.
Start ==
    /\ ~running /\ running' = TRUE
    /\ \/ file # None /\ (ParseUmlFails \/ ParseManagersFails \/ ParseSucceeds)
       \/ file = None /\ UNCHANGED <<graph, store>>
    /\ UNCHANGED disk

Gone ==
    /\ running' = FALSE /\ root' = None /\ elements' = {}
    /\ m_meta_managers' = Nothing /\ policies' = TRUE /\ ReadData({}, Nothing)

\* The end of the duration.
Stop ==
    /\ running
    /\ \E o \in save : file' = o.file /\ saved' = o.saved
    /\ Gone

\* KILL, which does not come to the save of main, or an exception in a thread.
Crash == running /\ Gone /\ UNCHANGED disk

Save ==
    /\ running
    /\ \E o \in save :
          /\ meta' = Overwrite(meta, o.new)
          /\ instances' = Without(instances, DOMAIN o.new)
          /\ returned' = returned \cup DOMAIN o.new
          /\ file' = o.file /\ saved' = o.saved
    /\ UNCHANGED <<running, graph, m_meta_elements>>

-----------------------------------------------------------------------------
(* Requests *)

KeepsApplied(s, e) == s

\* The instances that were applied to e are applied to nothing.
Unapplied(s, e) == [i \in DOMAIN s |-> IF s[i] = e THEN None ELSE s[i]]

\* PUT of an element into the project, as its root if the qualifiedName is "".
\* One that was there is replaced, and may lose what was applied to it.
Put(e) ==
    /\ running /\ Root \in elements \cup {e}
    /\ elements' = elements \cup {e}
    /\ root' = IF e = Root THEN "client" ELSE root
    /\ instances' \in {instances, Unapplied(instances, e)}
    /\ UNCHANGED <<running, m_meta_managers, m_meta_elements, meta, policies,
                   disk, returned>>

\* DELETE erases what is applied to the element first, as far as the loop over
\* it comes.  An exception leaves the element.
Delete(e) ==
    /\ running /\ e \in elements \ {Root}
    /\ \E S \in Visits(AppliedTo(e)) :
          \/ \E new \in Loaded(S) :
                /\ meta' = Forget(Without(Overwrite(meta, new), S), S)
                /\ instances' = Unapplied(Without(instances, DOMAIN new), e)
                /\ returned' = returned \cup DOMAIN new
                /\ elements' = elements \ {e}
                /\ UNCHANGED m_meta_elements
          \/ \E R \in DoneBefore(S) : After(S, {}, R) /\ UNCHANGED elements
    /\ UNCHANGED <<running, root, m_meta_managers, policies, disk>>

\* DELETE ?manager= of a meta element that can be found.
DeleteMeta(i) ==
    /\ running /\ i \in DOMAIN meta \cup DOMAIN instances
    /\ After({i}, {}, {i})
    /\ UNCHANGED <<running, graph, disk>>

\* GET of a meta element.
GetMeta(i) ==
    /\ running /\ i \in DOMAIN instances \ DOMAIN meta
    /\ After({i}, {}, {})
    /\ UNCHANGED <<running, graph, disk>>

\* GET of an element, with what is applied to it.
Get(e) ==
    /\ running /\ e \in elements
    /\ \E S \in Visits(AppliedTo(e)) : After(S, {}, {})
    /\ UNCHANGED <<running, graph, disk>>

\* DUMP, whose exceptions end the process.
Dump ==
    /\ running /\ CanEmit
    /\ After(m_meta_elements, {}, {})
    /\ UNCHANGED <<running, graph, disk>>

\* The garbage collector, whose exceptions end the process.  (What it stores
\* of the element holds what is applied to it: Get.)
Release(e) ==
    /\ running /\ e \in elements
    /\ \E S \in Visits(AppliedTo(e)) : After(S, S, {})
    /\ UNCHANGED <<running, graph, disk>>

Fits(managers, tracked) == Cardinality(managers) + Cardinality(tracked) <= MaxMeta

Generate(m, e) ==
    /\ running /\ e \in elements /\ m \notin DOMAIN m_meta_managers
    /\ Fits(DOMAIN m_meta_managers \cup {m}, m_meta_elements)
    /\ m_meta_managers' = Overwrite(m_meta_managers, Only(m, e))
    /\ UNCHANGED <<running, root, elements, policies, store, disk>>

\* reindex erases the element and the instance that have the id.
Reindex(i, values) ==
    /\ running /\ ManagerOf[i] \in DOMAIN m_meta_managers
    /\ Fits(DOMAIN m_meta_managers, m_meta_elements \cup {i})
    /\ m_meta_elements' = m_meta_elements \cup {i}
    /\ meta' = Overwrite(meta, Only(i, values))
    /\ UNCHANGED <<running, graph, disk>>

Create(i, a, values) ==
    /\ Reindex(i, values)
    /\ instances' = Overwrite(instances, Only(i, a))
    /\ returned' = returned \ {i}

\* A creation that throws before it comes to the instance: for a type with an
\* UnlimitedNatural.
CreateFails(i) ==
    /\ Reindex(i, {})
    /\ instances' = Without(instances, {i})
    /\ returned' = returned \cup {i}

\* POST to a manager, with an applying_element or without.
Post(i, a) == Create(i, a, {})

\* PUT to a manager applies nothing.
PutMeta(i, values) ==
    /\ values \subseteq Takes[i] \cap (DOMAIN meta \cup {i})
    /\ Create(i, None, values)

Next ==
    \/ Start \/ Stop \/ Crash \/ Save \/ Dump
    \/ \E e \in Elements : Put(e) \/ Delete(e) \/ Get(e) \/ Release(e)
    \/ \E m \in Managers, e \in Elements : Generate(m, e)
    \/ \E i \in Ids, a \in elements \cup {None} : Post(i, a)
    \/ \E i \in Ids, values \in SUBSET Ids : PutMeta(i, values)
    \/ \E i \in Ids : CreateFails(i) \/ DeleteMeta(i) \/ GetMeta(i)

Spec == Init /\ [][Next]_vars

-----------------------------------------------------------------------------
(* Properties *)

Partial(S, T) == UNION {[D -> T] : D \in SUBSET S}

\* What the graph and the managers hold has its type, a root that a file or a
\* client gave is in the graph, and what is there of a meta element, its
\* manager keeps track of.
TypeOK ==
    /\ running \in BOOLEAN /\ policies \in BOOLEAN
    /\ root \in {"file", "client", None}
    /\ elements \subseteq Elements
    /\ root # None => Root \in elements
    /\ m_meta_managers \in Partial(Managers, Elements)
    /\ m_meta_elements \subseteq OfManagers(DOMAIN m_meta_managers)
    /\ DOMAIN meta \cup DOMAIN instances \cup returned \subseteq m_meta_elements
    /\ \A i \in DOMAIN meta : meta[i] \subseteq Takes[i]
    /\ \A i \in DOMAIN instances : instances[i] \in elements \cup {None}

PartOf(f, g) == DOMAIN f \subseteq DOMAIN g /\ \A x \in DOMAIN f : f[x] = g[x]

AtMostOne(S) == \A x, y \in S : x = y

\* A server that opens its project has every UML element of the last save that
\* succeeded, whatever was deleted, loaded or lost in between, and of managers
\* and meta elements nothing that save did not have.  If that was no more than
\* a manager with a meta element, it has them (generativeSerializationPolicy.cpp
\* 24-118).
RoundTrip ==
    [][~running /\ running' /\ root' = "file" =>
          /\ elements' = saved.elements
          /\ PartOf(m_meta_managers', saved.managers)
          /\ DOMAIN meta' \subseteq DOMAIN saved.meta
          /\ \A i \in DOMAIN meta' : meta'[i] \subseteq saved.meta[i]
          /\ AtMostOne(DOMAIN saved.managers) /\ AtMostOne(DOMAIN saved.meta) =>
                m_meta_managers' = saved.managers /\ DOMAIN meta' = DOMAIN saved.meta]_vars

\* dump_all_data can get every id it comes to (metaManager.h 171-172), though
\* nothing takes out the deleted ones, unless a creation failed or a meta
\* element that was released was loaded again.
TrackedAreFound ==
    m_meta_elements \subseteq DOMAIN meta \cup DOMAIN instances \cup returned

\* What a server saved to --location it loads from --location (main.cpp 19).
Reopens == [][~running /\ running' /\ file # None => root' = "file"]_vars

=============================================================================
