----------------------- MODULE ProjectDocumentProofs -----------------------
(***************************************************************************)
(* What SAVE can find and what a server that opens the project reads, for  *)
(* any elements, managers and meta elements.                               *)
(***************************************************************************)
EXTENDS ProjectDocument, TLAPS

\* A graph without a process is empty, and the document is a part of the
\* project as it was saved.
Written ==
    file # None =>
        /\ DOMAIN file.uml = saved.elements
        /\ saved.elements \subseteq Elements /\ Root \in saved.elements
        /\ file.meta_managers \in Partial(Managers, Elements)
        /\ PartOf(file.meta_managers, saved.managers)
        /\ DOMAIN file.data \subseteq OfManagers(DOMAIN file.meta_managers)
        /\ PartOf(file.data, saved.meta)
        /\ \A i \in DOMAIN file.data : file.data[i] \subseteq Takes[i]
        /\ AtMostOne(DOMAIN saved.managers) /\ AtMostOne(DOMAIN saved.meta) =>
              /\ file.meta_managers = saved.managers
              /\ DOMAIN file.data = DOMAIN saved.meta

\* What was created to the end has its instance until it is loaded from it, in
\* memory or not: TrackedAreFound does not say what releasing one will leave.
HaveInstances == m_meta_elements \subseteq DOMAIN instances \cup returned

Inv ==
    /\ TypeOK /\ HaveInstances /\ Written
    /\ ~running => root = None

-----------------------------------------------------------------------------
(* What a step must keep of what is in memory, apart from the document. *)

\* What is there of the meta elements ids when the managers have ms: tr are
\* tracked, mt in memory, s instances and rt returned.
SoundStore(ms, es, tr, mt, s, rt) ==
    /\ tr \subseteq OfManagers(ms)
    /\ DOMAIN mt \cup DOMAIN s \cup rt \subseteq tr
    /\ tr \subseteq DOMAIN s \cup rt
    /\ \A i \in DOMAIN mt : mt[i] \subseteq Takes[i]
    /\ \A i \in DOMAIN s : s[i] \in es \cup {None}

SoundGraph(rn, r, es, ms, ps) ==
    /\ rn \in BOOLEAN /\ ps \in BOOLEAN
    /\ r \in {"file", "client", None}
    /\ es \subseteq Elements
    /\ r # None => Root \in es
    /\ ms \in Partial(Managers, Elements)
    /\ ~rn => r = None

GraphNow == SoundGraph(running, root, elements, m_meta_managers, policies)

StoreNow ==
    SoundStore(DOMAIN m_meta_managers, elements, m_meta_elements, meta, instances,
               returned)

\* The invariant is about the graph, the store and the document.
LEMMA Parts == Inv <=> GraphNow /\ StoreNow /\ Written
  BY DEF Inv, TypeOK, HaveInstances, GraphNow, StoreNow, SoundGraph, SoundStore

LEMMA PartsNext == Inv' <=> GraphNow' /\ StoreNow' /\ Written'
  BY DEF Inv, TypeOK, HaveInstances, GraphNow, StoreNow, SoundGraph, SoundStore

\* A file that is not written stays what it is.
LEMMA FileStays == Written /\ UNCHANGED disk => Written'
  BY DEF Written, disk

\* The store does not mind more managers or elements.
LEMMA StoreGrows ==
    ASSUME NEW ms, NEW es, NEW tr, NEW mt, NEW s, NEW rt, NEW ms2, NEW es2,
           SoundStore(ms, es, tr, mt, s, rt), ms \subseteq ms2, es \subseteq es2
    PROVE  SoundStore(ms2, es2, tr, mt, s, rt)
  BY DEF SoundStore, OfManagers

\* The empty project of a process that has not started or has ended.
LEMMA NothingIsSound ==
    /\ \A rn \in BOOLEAN, ps \in BOOLEAN, es \in SUBSET Elements :
          SoundGraph(rn, None, es, Nothing, ps)
    /\ \A ms, es : SoundStore(ms, es, {}, Nothing, [i \in {} |-> None], {})
<1>1. DOMAIN Nothing = {} /\ Nothing \in [{} -> Elements]
  BY DEF Nothing
<1>2. Nothing \in Partial(Managers, Elements)
  BY <1>1 DEF Partial
<1> QED
  BY <1>1, <1>2 DEF SoundGraph, SoundStore

-----------------------------------------------------------------------------
(* Loading *)

\* Loading, and then releasing or erasing, leaves a sound store.
LEMMA LoadingKeeps ==
    ASSUME StoreNow, NEW S, NEW new \in Loaded(S), NEW gone, NEW erased,
           NEW es, NEW s,
           DOMAIN s = DOMAIN instances \ DOMAIN new,
           \A i \in DOMAIN s : s[i] \in es \cup {None}
    PROVE  SoundStore(DOMAIN m_meta_managers, es, m_meta_elements,
                      Forget(Without(Overwrite(meta, new), gone), erased), s,
                      returned \cup DOMAIN new)
<1> DEFINE mt == Forget(Without(Overwrite(meta, new), gone), erased)
<1>1. /\ DOMAIN new \subseteq DOMAIN instances
      /\ \A l \in DOMAIN new : new[l] \subseteq Takes[l]
  BY DEF Loaded
<1>2. DOMAIN mt = (DOMAIN meta \cup DOMAIN new) \ gone
  BY DEF Forget, Without, Overwrite
<1>3. \A i \in DOMAIN mt : mt[i] = (IF i \in DOMAIN new THEN new[i] ELSE meta[i]) \ erased
  BY DEF Forget, Without, Overwrite
<1> HIDE DEF mt
<1>4. \A i \in DOMAIN mt : mt[i] \subseteq Takes[i]
  BY <1>1, <1>2, <1>3 DEF StoreNow, SoundStore
<1>5. DOMAIN mt \cup DOMAIN s \cup (returned \cup DOMAIN new) \subseteq m_meta_elements
  BY <1>1, <1>2 DEF StoreNow, SoundStore
<1>6. m_meta_elements \subseteq DOMAIN s \cup (returned \cup DOMAIN new)
  BY DEF StoreNow, SoundStore
<1>7. SoundStore(DOMAIN m_meta_managers, es, m_meta_elements, mt, s,
                 returned \cup DOMAIN new)
  BY <1>4, <1>5, <1>6 DEF StoreNow, SoundStore
<1> QED
  BY <1>7 DEF mt

\* The same without erasing an element.
LEMMA AfterKeeps ==
    ASSUME StoreNow, NEW S, NEW released, NEW erased, After(S, released, erased),
           UNCHANGED <<elements, m_meta_managers>>
    PROVE  StoreNow'
<1>1. PICK new \in Loaded(S) :
         /\ meta' = Forget(Without(Overwrite(meta, new), released \cup erased), erased)
         /\ instances' = Without(instances, DOMAIN new)
         /\ returned' = returned \cup DOMAIN new
         /\ UNCHANGED m_meta_elements
  BY DEF After
<1> DEFINE gone == released \cup erased
<1> DEFINE s == Without(instances, DOMAIN new)
<1>2. DOMAIN s = DOMAIN instances \ DOMAIN new
      /\ \A i \in DOMAIN s : s[i] \in elements \cup {None}
  BY DEF Without, StoreNow, SoundStore
<1> HIDE DEF gone, s
<1>3. SoundStore(DOMAIN m_meta_managers, elements, m_meta_elements,
                 Forget(Without(Overwrite(meta, new), gone), erased), s,
                 returned \cup DOMAIN new)
  BY <1>2, LoadingKeeps
<1> QED
  BY <1>1, <1>3 DEF StoreNow, gone, s

-----------------------------------------------------------------------------
(* Writing *)

\* What stands in the document if it is written with mt in memory.
LEMMA DocumentIsWritten ==
    ASSUME GraphNow, root # None,
           m_meta_elements \subseteq OfManagers(DOMAIN m_meta_managers),
           NEW mt, DOMAIN mt = m_meta_elements,
           \A i \in DOMAIN mt : mt[i] \subseteq Takes[i],
           NEW doc \in emitWhole(mt),
           file' = doc, saved' = Project(mt)
    PROVE  Written'
<1>0. PICK M \in SUBSET DOMAIN m_meta_managers :
         \E U \in EmittedUml, D \in Kept(M) :
            doc = [uml |-> U, meta_managers |-> [n \in M |-> m_meta_managers[n]],
                   data |-> [i \in D |-> mt[i]]]
  BY DEF emitWhole
<1>1. PICK U \in EmittedUml, D \in Kept(M) :
         doc = [uml |-> U, meta_managers |-> [n \in M |-> m_meta_managers[n]],
                data |-> [i \in D |-> mt[i]]]
  BY <1>0
<1> DEFINE ms == [n \in M |-> m_meta_managers[n]]
<1> DEFINE data == [i \in D |-> mt[i]]
<1>2. /\ DOMAIN ms = M /\ DOMAIN data = D
      /\ \A n \in M : ms[n] = m_meta_managers[n]
      /\ \A i \in D : data[i] = mt[i]
  OBVIOUS
<1>3. /\ D \subseteq m_meta_elements /\ D \subseteq OfManagers(M)
      /\ m_meta_elements = {} => M = DOMAIN m_meta_managers
      /\ m_meta_elements # {} => D # {}
  BY DEF Kept
<1>4. DOMAIN U = elements
  BY DEF EmittedUml
<1>5. ms \in Partial(Managers, Elements)
  <2>1. PICK C \in SUBSET Managers : m_meta_managers \in [C -> Elements]
    BY DEF GraphNow, SoundGraph, Partial
  <2>2. ms \in [M -> Elements] /\ M \in SUBSET Managers
    BY <2>1
  <2> QED
    BY <2>2 DEF Partial
<1>6. AtMostOne(DOMAIN m_meta_managers) /\ AtMostOne(m_meta_elements) =>
         ms = m_meta_managers /\ D = m_meta_elements
  <2> SUFFICES ASSUME AtMostOne(DOMAIN m_meta_managers), AtMostOne(m_meta_elements)
               PROVE  ms = m_meta_managers /\ D = m_meta_elements
    OBVIOUS
  <2>1. D = m_meta_elements
    BY <1>3 DEF AtMostOne
  <2>2. M = DOMAIN m_meta_managers
    BY <1>3 DEF AtMostOne, OfManagers
  <2>3. m_meta_managers = [n \in DOMAIN m_meta_managers |-> m_meta_managers[n]]
    BY DEF GraphNow, SoundGraph, Partial
  <2> QED
    BY <2>1, <2>2, <2>3
<1> HIDE DEF ms, data
<1>7. /\ file'.uml = U /\ file'.meta_managers = ms /\ file'.data = data
      /\ saved'.elements = elements /\ saved'.managers = m_meta_managers
      /\ saved'.meta = mt
  BY <1>1 DEF ms, data, Project
<1>8. Root \in elements /\ elements \subseteq Elements
  BY DEF GraphNow, SoundGraph
<1>9. /\ PartOf(ms, m_meta_managers) /\ PartOf(data, mt)
      /\ D \subseteq OfManagers(DOMAIN ms)
      /\ \A i \in DOMAIN data : data[i] \subseteq Takes[i]
  BY <1>2, <1>3 DEF PartOf
<1> QED
  BY <1>2, <1>4, <1>5, <1>6, <1>7, <1>8, <1>9 DEF Written

\* save ends without a document, or with one when everything was found.
LEMMA SaveOutcomes ==
    ASSUME NEW o \in save
    PROVE  \/ /\ o.file = file /\ o.saved = saved
              /\ o.new = Nothing \/ o.new \in Loaded({})
           \/ /\ CanEmit
              /\ o.new \in Loaded(m_meta_elements)
              /\ o.file \in emitWhole(Overwrite(meta, o.new))
              /\ o.saved = Project(Overwrite(meta, o.new))
<1>1. CASE o \in UNION {Saves(new) : new \in Completed}
  <2>1. PICK new \in Completed : o \in Saves(new)
    BY <1>1
  <2>2. CanEmit /\ new \in Loaded(m_meta_elements)
    BY <2>1 DEF Completed
  <2>3. o.new = new /\ o.file \in emitWhole(Overwrite(meta, new))
        /\ o.saved = Project(Overwrite(meta, new))
    BY <2>1 DEF Saves
  <2> QED
    BY <2>2, <2>3
<1>2. CASE o \in {[new |-> new, file |-> file, saved |-> saved] : new \in Thrown}
  <2>1. PICK new \in Thrown : o = [new |-> new, file |-> file, saved |-> saved]
    BY <1>2
  <2>2. new = Nothing \/ new \in Loaded({})
    BY <2>1 DEF Thrown
  <2> QED
    BY <2>1, <2>2
<1> QED
  BY <1>1, <1>2 DEF save

\* Whatever comes of save, the document is what was saved.
LEMMA SaveWrites ==
    ASSUME Inv, NEW o \in save, file' = o.file, saved' = o.saved
    PROVE  Written'
<1>1. CASE o.file = file /\ o.saved = saved
  BY <1>1, FileStays DEF Inv, disk
<1>2. CASE /\ CanEmit
           /\ o.new \in Loaded(m_meta_elements)
           /\ o.file \in emitWhole(Overwrite(meta, o.new))
           /\ o.saved = Project(Overwrite(meta, o.new))
  <2> DEFINE new == o.new
  <2> DEFINE mt == Overwrite(meta, new)
  <2>2. /\ DOMAIN new \subseteq DOMAIN instances
        /\ m_meta_elements \ DOMAIN meta \subseteq DOMAIN new
        /\ \A l \in DOMAIN new : new[l] \subseteq Takes[l]
    BY <1>2 DEF Loaded
  <2>3. /\ DOMAIN mt = DOMAIN meta \cup DOMAIN new
        /\ \A i \in DOMAIN mt : mt[i] = IF i \in DOMAIN new THEN new[i] ELSE meta[i]
    BY DEF Overwrite
  <2> HIDE DEF mt, new
  <2>4. StoreNow /\ GraphNow
    BY Parts
  <2>5. DOMAIN mt = m_meta_elements
    BY <2>2, <2>3, <2>4 DEF StoreNow, SoundStore
  <2>6. \A i \in DOMAIN mt : mt[i] \subseteq Takes[i]
    BY <2>2, <2>3, <2>4 DEF StoreNow, SoundStore
  <2>7. m_meta_elements \subseteq OfManagers(DOMAIN m_meta_managers)
    BY <2>4 DEF StoreNow, SoundStore
  <2>8. o.file \in emitWhole(mt) /\ saved' = Project(mt)
    BY <1>2 DEF mt, new
  <2> QED
    BY <1>2, <2>4, <2>5, <2>6, <2>7, <2>8, DocumentIsWritten DEF CanEmit
<1> QED
  BY <1>1, <1>2, SaveOutcomes

\* SAVE loads what is not in memory, all of it or until one throws.
LEMMA SaveKeeps ==
    ASSUME Inv, Save
    PROVE  Inv'
<1>1. PICK o \in save :
         /\ meta' = Overwrite(meta, o.new)
         /\ instances' = Without(instances, DOMAIN o.new)
         /\ returned' = returned \cup DOMAIN o.new
         /\ file' = o.file /\ saved' = o.saved
  BY DEF Save
<1>2. UNCHANGED <<running, graph, m_meta_elements>>
  BY DEF Save
<1>3. Written'
  BY <1>1, SaveWrites
<1>4. GraphNow /\ StoreNow
  BY Parts
<1>5. GraphNow'
  BY <1>2, <1>4 DEF GraphNow, graph
<1>6. o.new = Nothing \/ \E S : o.new \in Loaded(S)
  BY SaveOutcomes
<1> DEFINE s == Without(instances, DOMAIN o.new)
<1>7. /\ DOMAIN o.new \subseteq DOMAIN instances
      /\ \A l \in DOMAIN o.new : o.new[l] \subseteq Takes[l]
  BY <1>6 DEF Loaded, Nothing
<1>8. /\ DOMAIN meta' = DOMAIN meta \cup DOMAIN o.new
      /\ \A i \in DOMAIN meta' : meta'[i] = IF i \in DOMAIN o.new THEN o.new[i] ELSE meta[i]
  BY <1>1 DEF Overwrite
<1>9. /\ DOMAIN instances' = DOMAIN instances \ DOMAIN o.new
      /\ \A i \in DOMAIN instances' : instances'[i] = instances[i]
  BY <1>1 DEF Without
<1>10. \A i \in DOMAIN meta' : meta'[i] \subseteq Takes[i]
  BY <1>4, <1>7, <1>8 DEF StoreNow, SoundStore
<1>11. \A i \in DOMAIN instances' : instances'[i] \in elements' \cup {None}
  BY <1>2, <1>4, <1>9 DEF StoreNow, SoundStore, graph
<1>12. /\ DOMAIN meta' \cup DOMAIN instances' \cup returned' \subseteq m_meta_elements'
       /\ m_meta_elements' \subseteq DOMAIN instances' \cup returned'
       /\ m_meta_elements' \subseteq OfManagers(DOMAIN m_meta_managers')
  BY <1>1, <1>2, <1>4, <1>7, <1>8, <1>9 DEF StoreNow, SoundStore, graph
<1>13. StoreNow'
  BY <1>10, <1>11, <1>12 DEF StoreNow, SoundStore
<1> QED
  BY <1>3, <1>5, <1>13, PartsNext

-----------------------------------------------------------------------------
(* Reading *)

\* What a document says of some of its managers and meta elements.
LEMMA ReadingIsSound ==
    ASSUME Written, file # None,
           NEW M \in SUBSET DOMAIN file.meta_managers,
           NEW D \in SUBSET (DOMAIN file.data \cap OfManagers(M)),
           NEW sets, DOMAIN sets = D,
           \A i \in D : sets[i] \subseteq file.data[i],
           ReadData(D, sets), elements' = DOMAIN file.uml, running' = TRUE,
           m_meta_managers' = [m \in M |-> file.meta_managers[m]],
           policies' = TRUE, root' \in {"file", None}
    PROVE  GraphNow' /\ StoreNow'
<1> DEFINE ms == [m \in M |-> file.meta_managers[m]]
<1>1. ms \in Partial(Managers, Elements)
  <2>1. PICK C \in SUBSET Managers : file.meta_managers \in [C -> Elements]
    BY DEF Written, Partial
  <2>2. ms \in [M -> Elements] /\ M \in SUBSET Managers
    BY <2>1
  <2> QED
    BY <2>2 DEF Partial
<1>2. DOMAIN ms = M
  OBVIOUS
<1> HIDE DEF ms
<1>3. m_meta_managers' = ms
  BY DEF ms
<1>4. GraphNow'
  BY <1>1, <1>3 DEF GraphNow, SoundGraph, Written
<1>5. /\ m_meta_elements' = D /\ meta' = sets /\ returned' = {}
      /\ DOMAIN instances' = D /\ \A i \in D : instances'[i] = None
  BY DEF ReadData
<1>6. \A i \in D : sets[i] \subseteq Takes[i]
  BY DEF Written
<1>7. StoreNow'
  BY <1>2, <1>3, <1>5, <1>6 DEF StoreNow, SoundStore
<1> QED
  BY <1>4, <1>7

\* A failed parse of the UML elements leaves some of them and no root.
LEMMA UmlFailureIsSound ==
    ASSUME Written, file # None, ParseUmlFails, running' = TRUE
    PROVE  GraphNow' /\ StoreNow'
<1>1. /\ elements' \in SUBSET Elements /\ policies' = FALSE /\ root' = None
      /\ m_meta_managers' = Nothing
  BY DEF ParseUmlFails, Written
<1>2. /\ m_meta_elements' = {} /\ meta' = Nothing /\ returned' = {}
      /\ instances' = [i \in {} |-> None]
  BY DEF ParseUmlFails, ReadData
<1> QED
  BY <1>1, <1>2, NothingIsSound DEF GraphNow, StoreNow

\* ... that of a manager or a meta element, some of these.
LEMMA ManagerFailureIsSound ==
    ASSUME Written, file # None, ParseManagersFails, running' = TRUE
    PROVE  GraphNow' /\ StoreNow'
<1>1. PICK M \in SUBSET {m \in DOMAIN file.meta_managers : ManagerParses(file, m)} :
         /\ m_meta_managers' = [m \in M |-> file.meta_managers[m]]
         /\ \E D \in SUBSET (DOMAIN file.data \cap OfManagers(M)) :
            \E sets \in [D -> SUBSET Ids] :
               /\ \A i \in D : sets[i] \subseteq file.data[i]
               /\ ReadData(D, sets)
  BY DEF ParseManagersFails
<1>2. PICK D \in SUBSET (DOMAIN file.data \cap OfManagers(M)) :
         \E sets \in [D -> SUBSET Ids] :
            /\ \A i \in D : sets[i] \subseteq file.data[i]
            /\ ReadData(D, sets)
  BY <1>1
<1>3. PICK sets \in [D -> SUBSET Ids] :
         /\ \A i \in D : sets[i] \subseteq file.data[i]
         /\ ReadData(D, sets)
  BY <1>2
<1>4. M \in SUBSET DOMAIN file.meta_managers /\ DOMAIN sets = D
  BY <1>1, <1>3
<1>5. elements' = DOMAIN file.uml /\ policies' = TRUE /\ root' \in {"file", None}
  BY DEF ParseManagersFails
<1> QED
  BY <1>1, <1>3, <1>4, <1>5, ReadingIsSound

\* ... and none, all.
LEMMA SuccessIsSound ==
    ASSUME Written, file # None, ParseSucceeds, running' = TRUE
    PROVE  GraphNow' /\ StoreNow'
<1> DEFINE M == DOMAIN file.meta_managers
           D == DOMAIN file.data
<1>1. PICK sets \in [D -> SUBSET Ids] :
         (\A i \in D : sets[i] \subseteq file.data[i]) /\ ReadData(D, sets)
  BY DEF ParseSucceeds
<1>2. file.meta_managers = [m \in M |-> file.meta_managers[m]]
  BY DEF Written, Partial
<1>3. D \in SUBSET (DOMAIN file.data \cap OfManagers(M))
  BY DEF Written
<1>4. DOMAIN sets = D
  BY <1>1
<1>5. elements' = DOMAIN file.uml /\ policies' = TRUE /\ root' \in {"file", None}
  BY DEF ParseSucceeds
<1>6. m_meta_managers' = [m \in M |-> file.meta_managers[m]]
  BY <1>2 DEF ParseSucceeds
<1> HIDE DEF D
<1> QED
  BY <1>1, <1>3, <1>4, <1>5, <1>6, ReadingIsSound

-----------------------------------------------------------------------------
(* The process *)

\* A server that starts, with or without a document.
LEMMA StartKeeps ==
    ASSUME Inv, Start
    PROVE  Inv'
<1>1. running' = TRUE /\ UNCHANGED disk
  BY DEF Start
<1>2. GraphNow /\ StoreNow /\ Written
  BY Parts
<1>3. Written'
  BY <1>1, <1>2, FileStays
<1>4. CASE UNCHANGED <<graph, store>>
  BY <1>1, <1>2, <1>3, <1>4, PartsNext
     DEF GraphNow, StoreNow, SoundGraph, graph, store
<1>5. CASE file # None /\ (ParseUmlFails \/ ParseManagersFails \/ ParseSucceeds)
  BY <1>1, <1>2, <1>3, <1>5, PartsNext, UmlFailureIsSound, ManagerFailureIsSound,
     SuccessIsSound
<1> QED
  BY <1>4, <1>5 DEF Start

\* A process that has ended leaves nothing in memory.
LEMMA GoneIsSound == Gone => GraphNow' /\ StoreNow'
<1> SUFFICES ASSUME Gone PROVE GraphNow' /\ StoreNow'
  OBVIOUS
<1>1. /\ running' = FALSE /\ root' = None /\ elements' = {} /\ policies' = TRUE
      /\ m_meta_managers' = Nothing
      /\ m_meta_elements' = {} /\ meta' = Nothing /\ returned' = {}
      /\ instances' = [i \in {} |-> None]
  BY DEF Gone, ReadData
<1> QED
  BY <1>1, NothingIsSound DEF GraphNow, StoreNow

-----------------------------------------------------------------------------
(* Requests *)

\* PUT adds an element or replaces one.
LEMMA PutKeeps ==
    ASSUME Inv, NEW e \in Elements, Put(e)
    PROVE  Inv'
<1>1. GraphNow /\ StoreNow /\ Written
  BY Parts
<1>2. Written'
  BY <1>1, FileStays DEF Put
<1>3. GraphNow'
  <2>1. elements \subseteq elements' /\ elements' \subseteq Elements
    BY <1>1 DEF Put, GraphNow, SoundGraph
  <2>2. root' # None => Root \in elements'
    BY <1>1, <2>1 DEF Put, GraphNow, SoundGraph
  <2>3. root' \in {"file", "client", None} /\ ~running' => root' = None
    BY <1>1 DEF Put, GraphNow, SoundGraph
  <2> QED
    BY <1>1, <2>1, <2>2, <2>3 DEF Put, GraphNow, SoundGraph
<1>4. /\ DOMAIN instances' = DOMAIN instances
      /\ \A i \in DOMAIN instances : instances'[i] \in {instances[i], None}
  BY DEF Put, Unapplied
<1>5. StoreNow'
  BY <1>1, <1>4 DEF Put, StoreNow, SoundStore
<1> QED
  BY <1>2, <1>3, <1>5, PartsNext

\* Only what is applied to an element that stays, or to none, is left by DELETE.
LEMMA DeleteKeeps ==
    ASSUME Inv, NEW e \in Elements, Delete(e)
    PROVE  Inv'
<1>1. GraphNow /\ StoreNow /\ Written
  BY Parts
<1>2. Written'
  BY <1>1, FileStays DEF Delete
<1>3. running /\ UNCHANGED <<running, root, m_meta_managers, policies>>
  BY DEF Delete
<1>4. PICK S \in Visits(AppliedTo(e)) :
         \/ \E new \in Loaded(S) :
               /\ meta' = Forget(Without(Overwrite(meta, new), S), S)
               /\ instances' = Unapplied(Without(instances, DOMAIN new), e)
               /\ returned' = returned \cup DOMAIN new
               /\ elements' = elements \ {e}
               /\ UNCHANGED m_meta_elements
         \/ \E R \in DoneBefore(S) : After(S, {}, R) /\ UNCHANGED elements
  BY DEF Delete
<1>5. CASE \E R \in DoneBefore(S) : After(S, {}, R) /\ UNCHANGED elements
  <2>1. StoreNow'
    BY <1>1, <1>3, <1>5, AfterKeeps
  <2>2. GraphNow'
    BY <1>1, <1>3, <1>5 DEF GraphNow
  <2> QED
    BY <1>2, <2>1, <2>2, PartsNext
<1>6. CASE \E new \in Loaded(S) :
               /\ meta' = Forget(Without(Overwrite(meta, new), S), S)
               /\ instances' = Unapplied(Without(instances, DOMAIN new), e)
               /\ returned' = returned \cup DOMAIN new
               /\ elements' = elements \ {e}
               /\ UNCHANGED m_meta_elements
  <2>1. PICK new \in Loaded(S) :
               /\ meta' = Forget(Without(Overwrite(meta, new), S), S)
               /\ instances' = Unapplied(Without(instances, DOMAIN new), e)
               /\ returned' = returned \cup DOMAIN new
               /\ elements' = elements \ {e}
               /\ UNCHANGED m_meta_elements
    BY <1>6
  <2> DEFINE s == Unapplied(Without(instances, DOMAIN new), e)
  <2>2. /\ DOMAIN s = DOMAIN instances \ DOMAIN new
        /\ \A i \in DOMAIN s : s[i] = IF instances[i] = e THEN None ELSE instances[i]
    BY DEF Unapplied, Without
  <2> HIDE DEF s
  <2>3. \A i \in DOMAIN s : s[i] \in (elements \ {e}) \cup {None}
    BY <1>1, <2>2 DEF StoreNow, SoundStore
  <2>4. SoundStore(DOMAIN m_meta_managers, elements \ {e}, m_meta_elements,
                   Forget(Without(Overwrite(meta, new), S), S), s,
                   returned \cup DOMAIN new)
    BY <1>1, <2>2, <2>3, LoadingKeeps
  <2>5. StoreNow'
    BY <1>3, <2>1, <2>4 DEF StoreNow, s
  <2>6. GraphNow'
    BY <1>1, <1>3, <2>1 DEF GraphNow, SoundGraph, Delete
  <2> QED
    BY <1>2, <2>5, <2>6, PartsNext
<1> QED
  BY <1>4, <1>5, <1>6

\* Requests that load, and the collector.
LEMMA LoadsKeep ==
    ASSUME Inv, NEW S, NEW released, NEW erased, After(S, released, erased),
           UNCHANGED <<running, graph, disk>>
    PROVE  Inv'
<1>1. GraphNow /\ StoreNow /\ Written
  BY Parts
<1>2. UNCHANGED <<elements, m_meta_managers>>
  BY DEF graph
<1>3. StoreNow'
  BY <1>1, <1>2, AfterKeeps
<1>4. GraphNow' /\ Written'
  BY <1>1, FileStays DEF GraphNow, graph
<1> QED
  BY <1>3, <1>4, PartsNext

\* generate adds a manager.
LEMMA GenerateKeeps ==
    ASSUME Inv, NEW m \in Managers, NEW e \in Elements, Generate(m, e)
    PROVE  Inv'
<1> DEFINE ms == Overwrite(m_meta_managers, Only(m, e))
<1>1. GraphNow /\ StoreNow /\ Written
  BY Parts
<1>2. PICK D \in SUBSET Managers : m_meta_managers \in [D -> Elements]
  BY <1>1 DEF GraphNow, SoundGraph, Partial
<1>3. ms \in [D \cup {m} -> Elements] /\ D \cup {m} \in SUBSET Managers
  BY <1>2 DEF Overwrite, Only
<1> HIDE DEF ms
<1>4. ms \in Partial(Managers, Elements) /\ DOMAIN m_meta_managers \subseteq DOMAIN ms
  BY <1>2, <1>3 DEF Partial
<1>5. m_meta_managers' = ms
  BY DEF Generate, ms
<1>6. GraphNow'
  BY <1>1, <1>4, <1>5 DEF Generate, GraphNow, SoundGraph
<1>7. SoundStore(DOMAIN ms, elements, m_meta_elements, meta, instances, returned)
  BY <1>1, <1>4, StoreGrows DEF StoreNow
<1>8. StoreNow' /\ Written'
  BY <1>1, <1>5, <1>7, FileStays DEF Generate, StoreNow, store
<1> QED
  BY <1>6, <1>8, PartsNext

\* POST and PUT to a manager make a meta element with its instance.
LEMMA CreateKeeps ==
    ASSUME Inv, NEW i \in Ids, NEW a \in elements \cup {None}, NEW values,
           values \subseteq Takes[i], Create(i, a, values)
    PROVE  Inv'
<1>1. GraphNow /\ StoreNow /\ Written
  BY Parts
<1>2. GraphNow' /\ Written'
  BY <1>1, FileStays DEF Create, Reindex, GraphNow, graph
<1>3. /\ DOMAIN meta' = DOMAIN meta \cup {i} /\ meta'[i] = values
      /\ \A j \in DOMAIN meta \ {i} : meta'[j] = meta[j]
  BY DEF Create, Reindex, Overwrite, Only
<1>4. /\ DOMAIN instances' = DOMAIN instances \cup {i} /\ instances'[i] = a
      /\ \A j \in DOMAIN instances \ {i} : instances'[j] = instances[j]
  BY DEF Create, Overwrite, Only
<1>5. /\ ManagerOf[i] \in DOMAIN m_meta_managers
      /\ m_meta_elements' = m_meta_elements \cup {i} /\ returned' = returned \ {i}
      /\ UNCHANGED <<elements, m_meta_managers>>
  BY DEF Create, Reindex, graph
<1>6. \A j \in DOMAIN meta' : meta'[j] \subseteq Takes[j]
  BY <1>1, <1>3 DEF StoreNow, SoundStore
<1>7. \A j \in DOMAIN instances' : instances'[j] \in elements' \cup {None}
  BY <1>1, <1>4, <1>5 DEF StoreNow, SoundStore
<1>8. /\ m_meta_elements' \subseteq OfManagers(DOMAIN m_meta_managers')
      /\ DOMAIN meta' \cup DOMAIN instances' \cup returned' \subseteq m_meta_elements'
      /\ m_meta_elements' \subseteq DOMAIN instances' \cup returned'
  BY <1>1, <1>3, <1>4, <1>5 DEF StoreNow, SoundStore, OfManagers
<1>9. StoreNow'
  BY <1>6, <1>7, <1>8 DEF StoreNow, SoundStore
<1> QED
  BY <1>2, <1>9, PartsNext

\* A failed creation leaves a meta element without an instance.
LEMMA FailureKeeps ==
    ASSUME Inv, NEW i \in Ids, CreateFails(i)
    PROVE  Inv'
<1>1. GraphNow /\ StoreNow /\ Written
  BY Parts
<1>2. GraphNow' /\ Written'
  BY <1>1, FileStays DEF CreateFails, Reindex, GraphNow, graph
<1>3. /\ DOMAIN meta' = DOMAIN meta \cup {i} /\ meta'[i] = {}
      /\ \A j \in DOMAIN meta \ {i} : meta'[j] = meta[j]
  BY DEF CreateFails, Reindex, Overwrite, Only
<1>4. /\ DOMAIN instances' = DOMAIN instances \ {i}
      /\ \A j \in DOMAIN instances \ {i} : instances'[j] = instances[j]
  BY DEF CreateFails, Without
<1>5. /\ ManagerOf[i] \in DOMAIN m_meta_managers
      /\ m_meta_elements' = m_meta_elements \cup {i} /\ returned' = returned \cup {i}
      /\ UNCHANGED <<elements, m_meta_managers>>
  BY DEF CreateFails, Reindex, graph
<1>6. \A j \in DOMAIN meta' : meta'[j] \subseteq Takes[j]
  BY <1>1, <1>3 DEF StoreNow, SoundStore
<1>7. \A j \in DOMAIN instances' : instances'[j] \in elements' \cup {None}
  BY <1>1, <1>4, <1>5 DEF StoreNow, SoundStore
<1>8. /\ m_meta_elements' \subseteq OfManagers(DOMAIN m_meta_managers')
      /\ DOMAIN meta' \cup DOMAIN instances' \cup returned' \subseteq m_meta_elements'
      /\ m_meta_elements' \subseteq DOMAIN instances' \cup returned'
  BY <1>1, <1>3, <1>4, <1>5 DEF StoreNow, SoundStore, OfManagers
<1>9. StoreNow'
  BY <1>6, <1>7, <1>8 DEF StoreNow, SoundStore
<1> QED
  BY <1>2, <1>9, PartsNext

-----------------------------------------------------------------------------
(* The theorems *)

\* The inductive invariant of ProjectDocument holds in every reachable state.
THEOREM ProjectInvariance == Spec => []Inv
<1>1. Init => Inv
  <2> SUFFICES ASSUME Init PROVE Inv
    OBVIOUS
  <2>1. GraphNow /\ StoreNow
    <3>1. instances = [i \in {} |-> None]
      BY DEF Init, Nothing
    <3> QED
      BY <3>1, NothingIsSound DEF Init, GraphNow, StoreNow
  <2> QED
    BY <2>1, Parts DEF Init, Written
<1>2. Inv /\ [Next]_vars => Inv'
  <2> SUFFICES ASSUME Inv, [Next]_vars PROVE Inv'
    OBVIOUS
  <2>1. CASE Start
    BY <2>1, StartKeeps
  <2>2. CASE Stop
    BY <2>2, GoneIsSound, SaveWrites, PartsNext DEF Stop
  <2>3. CASE Crash
    BY <2>3, GoneIsSound, FileStays, PartsNext DEF Crash, Inv
  <2>4. CASE Save
    BY <2>4, SaveKeeps
  <2>5. CASE Dump
    BY <2>5, LoadsKeep DEF Dump
  <2>6. CASE \E e \in Elements : Put(e) \/ Delete(e) \/ Get(e) \/ Release(e)
    <3>1. PICK e \in Elements : Put(e) \/ Delete(e) \/ Get(e) \/ Release(e)
      BY <2>6
    <3>2. CASE Get(e) \/ Release(e)
      BY <3>2, LoadsKeep DEF Get, Release
    <3> QED
      BY <3>1, <3>2, PutKeeps, DeleteKeeps
  <2>7. CASE \E m \in Managers, e \in Elements : Generate(m, e)
    BY <2>7, GenerateKeeps
  <2>8. CASE \E i \in Ids, a \in elements \cup {None} : Post(i, a)
    BY <2>8, CreateKeeps DEF Post
  <2>9. CASE \E i \in Ids, values \in SUBSET Ids : PutMeta(i, values)
    BY <2>9, CreateKeeps DEF PutMeta
  <2>10. CASE \E i \in Ids : CreateFails(i) \/ DeleteMeta(i) \/ GetMeta(i)
    BY <2>10, FailureKeeps, LoadsKeep DEF DeleteMeta, GetMeta
  <2>11. CASE UNCHANGED vars
    BY <2>11, Parts, PartsNext, FileStays DEF vars, GraphNow, StoreNow, disk
  <2> QED
    BY <2>1, <2>2, <2>3, <2>4, <2>5, <2>6, <2>7, <2>8, <2>9, <2>10, <2>11 DEF Next
<1> QED
  BY <1>1, <1>2, PTL DEF Spec

\* The graph and the managers have their types in every reachable state.
THEOREM ProjectTypeCorrect == Spec => []TypeOK
  BY ProjectInvariance, PTL DEF Inv

\* SAVE can find every meta element that was created to the end and was not
\* loaded again, though deleted ones are never taken out of m_meta_elements.
THEOREM DeletedElementsAreFound == Spec => []TrackedAreFound
<1>1. Inv => TrackedAreFound
  BY DEF Inv, HaveInstances, TrackedAreFound
<1> QED
  BY <1>1, ProjectInvariance, PTL

\* A server that opens its project has all its elements, and of managers and
\* meta elements a part of what there was at the last save that succeeded; the
\* whole if that was no more than one of each.
THEOREM ReadingIsPartOfWriting == Spec => RoundTrip
<1>1. Inv /\ [Next]_vars =>
          [~running /\ running' /\ root' = "file" =>
              /\ elements' = saved.elements
              /\ PartOf(m_meta_managers', saved.managers)
              /\ DOMAIN meta' \subseteq DOMAIN saved.meta
              /\ \A i \in DOMAIN meta' : meta'[i] \subseteq saved.meta[i]
              /\ AtMostOne(DOMAIN saved.managers) /\ AtMostOne(DOMAIN saved.meta) =>
                    m_meta_managers' = saved.managers /\ DOMAIN meta' = DOMAIN saved.meta]_vars
  <2> SUFFICES ASSUME Inv, Next, ~running, running', root' = "file"
               PROVE  /\ elements' = saved.elements
                      /\ PartOf(m_meta_managers', saved.managers)
                      /\ DOMAIN meta' \subseteq DOMAIN saved.meta
                      /\ \A i \in DOMAIN meta' : meta'[i] \subseteq saved.meta[i]
                      /\ AtMostOne(DOMAIN saved.managers)
                         /\ AtMostOne(DOMAIN saved.meta) =>
                            m_meta_managers' = saved.managers
                            /\ DOMAIN meta' = DOMAIN saved.meta
    BY DEF vars
  <2>1. Start
    BY DEF Next, Stop, Crash, Gone, Save, Dump, Put, Delete, Get, Release, Generate,
           Post, PutMeta, Create, CreateFails, Reindex, DeleteMeta, GetMeta
  <2>2. root = None /\ None # "file"
    BY ProjectAssumption DEF Inv
  <2>3. file # None /\ ParseSucceeds
    BY <2>1, <2>2 DEF Start, ParseUmlFails, ParseManagersFails, graph
  <2>4. /\ elements' = DOMAIN file.uml /\ m_meta_managers' = file.meta_managers
        /\ DOMAIN meta' = DOMAIN file.data
        /\ \A i \in DOMAIN file.data : meta'[i] \subseteq file.data[i]
    BY <2>3 DEF ParseSucceeds, ReadData
  <2> QED
    BY <2>3, <2>4 DEF Inv, Written, PartOf
<1> QED
  BY <1>1, ProjectInvariance, PTL DEF Spec, RoundTrip

=============================================================================
