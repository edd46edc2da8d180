---------------------------- MODULE ReleaseQueue ----------------------------
(***************************************************************************)
(* m_releaseQueue and m_numEls: how many posted elements stay in memory.   *)
(*                                                                         *)
(* Two threads meet here.  The message handler (one at a time, Dispatch)   *)
(* pushes the id of a posted element to the front of the list and removes  *)
(* it on a delete; the garbage collector counts the list with m_numEls and *)
(* releases the element at its back when the count stands at m_maxEls.     *)
(* m_garbageMtx guards the list and the count, but not the elements: the   *)
(* handler erases one before it locks, the collector gets and releases one *)
(* without m_messageHandlerMtx.                                            *)
(*                                                                         *)
(* The UML graph is two sets: the ids that exist, in memory or in the      *)
(* mounted directory, and those in memory.  What EGM's get, release and    *)
(* erase do with them is the behaviour src/ relies on.                     *)
(*                                                                         *)
(* An operator that stands before its correct form and is used nowhere is  *)
(* a mutant of it, a bug that one of the properties at the end catches.    *)
(***************************************************************************)
EXTENDS Integers, Sequences, FiniteSets

CONSTANTS
    Ids,        \* ids of elements
    Null,       \* the null id, ID::nullID()
    InitEls,    \* elements of the project main opens before start()
    MaxEls,     \* m_maxEls; main sets it once, before start()
    MaxQueue,   \* bound: length of the list
    MaxDeletes, \* bound: DELETE requests that erased an element
    Wrap        \* 2^w, w the width of long unsigned int

ASSUME ReleaseQueueAssumption ==
    /\ Null \notin Ids
    /\ InitEls \subseteq Ids
    /\ MaxEls \in Nat
    /\ MaxQueue \in Nat
    /\ MaxDeletes \in Nat
    /\ Wrap \in Nat
    /\ MaxEls + MaxDeletes < Wrap
    /\ MaxQueue + MaxDeletes < Wrap

VARIABLES
    alive,      \* the process has not been terminated
    exists,     \* elements in memory or in the mounted directory
    loaded,     \* elements in memory
    queue,      \* m_releaseQueue, front first
    numEls,     \* m_numEls
    handler,    \* where handleMessage is: "idle", "created", "erased"
    subject,    \* the id its POST or DELETE is about
    collector,  \* where garbageCollector is: "test", "wait", "woken", "got"
    victim,     \* releasedID, while the collector is at "got"
    deletes     \* DELETE requests so far (history)

vars == <<alive, exists, loaded, queue, numEls, handler, subject, collector,
          victim, deletes>>

Init ==
    /\ alive = TRUE
    /\ exists = InitEls
    /\ loaded = InitEls
    /\ queue = <<>>
    /\ numEls = 0
    /\ handler = "idle"
    /\ subject = Null
    /\ collector = "test"
    /\ victim = Null
    /\ deletes = 0

\* The collector holds m_garbageMtx only between its get and its release in
\* this model: every other section under the mutex is one step.
GarbageMtxFree == collector # "got"

InQueue(id) == \E i \in 1 .. Len(queue) : queue[i] = id

Back == queue[Len(queue)]

\* std::list::remove.  NoDuplicates: an id is in the list at most once.
Position(s, id) == CHOOSE i \in 1 .. Len(s) : s[i] = id

RemoveNothing(s, id) == s

Remove(s, id) ==
    IF \E i \in 1 .. Len(s) : s[i] = id
       THEN SubSeq(s, 1, Position(s, id) - 1)
               \o SubSeq(s, Position(s, id) + 1, Len(s))
       ELSE s

\* pop_back
WithoutFront(s) == Tail(s)

WithoutBack(s) == SubSeq(s, 1, Len(s) - 1)

\* ++ and -- of long unsigned int.
Succ(n) == IF n = Wrap - 1 THEN 0 ELSE n + 1

PredSigned(n) == n - 1

NotCounted(n) == n

Pred(n) == IF n = 0 THEN Wrap - 1 ELSE n - 1

-----------------------------------------------------------------------------
(* handleMessage *)

\* create and setID: an element with the id of the request is in memory.
Post(id) ==
    /\ alive /\ handler = "idle"
    /\ id \notin exists
    /\ Len(queue) < MaxQueue
    /\ exists' = exists \cup {id}
    /\ loaded' = loaded \cup {id}
    /\ handler' = "created"
    /\ subject' = id
    /\ UNCHANGED <<alive, queue, numEls, collector, victim, deletes>>

\* The request gives no "id", or gives it as "url": the local variable id of
\* the handler keeps the null id.
PostAnonymous(id) ==
    /\ alive /\ handler = "idle"
    /\ id \notin exists
    /\ Len(queue) < MaxQueue
    /\ exists' = exists \cup {id}
    /\ loaded' = loaded \cup {id}
    /\ handler' = "created"
    /\ subject' = Null
    /\ UNCHANGED <<alive, queue, numEls, collector, victim, deletes>>

\* The element is created in a meta manager, whose elements are no part of
\* the list or the count; the handler's id is null all the same.
PostToManager ==
    /\ alive /\ handler = "idle"
    /\ Len(queue) < MaxQueue
    /\ handler' = "created"
    /\ subject' = Null
    /\ UNCHANGED <<alive, exists, loaded, queue, numEls, collector, victim,
                   deletes>>

\* create succeeds and a later call of the branch throws: an error reply, and
\* the element stays, out of the list.
PostFails(id) ==
    /\ alive /\ handler = "idle"
    /\ id \notin exists
    /\ exists' = exists \cup {id}
    /\ loaded' = loaded \cup {id}
    /\ UNCHANGED <<alive, queue, numEls, handler, subject, collector, victim,
                   deletes>>

NotifyNobody == UNCHANGED collector

\* m_garbageCv.notify_one
Notify == collector' = IF collector = "wait" THEN "woken" ELSE collector

\* After the reply: lock, push_front, notify_one.
Push ==
    /\ alive /\ handler = "created"
    /\ GarbageMtxFree
    /\ queue' = <<subject>> \o queue
    /\ Notify
    /\ handler' = "idle"
    /\ subject' = Null
    /\ UNCHANGED <<alive, exists, loaded, numEls, victim, deletes>>

\* get and erase; if get throws there is an error reply and nothing changes.
Delete(id) ==
    /\ alive /\ handler = "idle"
    /\ id \in exists
    /\ deletes < MaxDeletes
    /\ exists' = exists \ {id}
    /\ loaded' = loaded \ {id}
    /\ handler' = "erased"
    /\ subject' = id
    /\ deletes' = deletes + 1
    /\ UNCHANGED <<alive, queue, numEls, collector, victim>>

\* lock, remove, m_numEls--; nobody is notified.
Unlist ==
    /\ alive /\ handler = "erased"
    /\ GarbageMtxFree
    /\ queue' = Remove(queue, subject)
    /\ numEls' = Pred(numEls)
    /\ handler' = "idle"
    /\ subject' = Null
    /\ UNCHANGED <<alive, exists, loaded, collector, victim, deletes>>

\* abstractGet brings a released element back, past the count.
Get(id) ==
    /\ alive /\ handler = "idle"
    /\ id \in exists
    /\ loaded' = loaded \cup {id}
    /\ UNCHANGED <<alive, exists, queue, numEls, handler, subject, collector,
                   victim, deletes>>

\* parseNode puts the element into the graph, new or not.
Put(id) ==
    /\ alive /\ handler = "idle"
    /\ exists' = exists \cup {id}
    /\ loaded' = loaded \cup {id}
    /\ UNCHANGED <<alive, queue, numEls, handler, subject, collector, victim,
                   deletes>>

-----------------------------------------------------------------------------
(* garbageCollector *)

UncountedOrEqual == Len(queue) >= numEls

\* The predicate of the wait.
Uncounted == Len(queue) # numEls

AtLock == alive /\ collector \in {"test", "woken"}

CollectorWaits ==
    /\ AtLock
    /\ ~Uncounted
    /\ collector' = "wait"
    /\ UNCHANGED <<alive, exists, loaded, queue, numEls, handler, subject,
                   victim, deletes>>

CollectorWakes ==
    /\ alive /\ collector = "wait"
    /\ collector' = "woken"
    /\ UNCHANGED <<alive, exists, loaded, queue, numEls, handler, subject,
                   victim, deletes>>

CollectorCounts ==
    /\ AtLock
    /\ Uncounted
    /\ numEls # MaxEls
    /\ numEls' = Succ(numEls)
    /\ collector' = "test"
    /\ UNCHANGED <<alive, exists, loaded, queue, handler, subject, victim,
                   deletes>>

MustRelease == Uncounted /\ numEls = MaxEls

\* back() and get
CollectorGets ==
    /\ AtLock
    /\ MustRelease
    /\ queue # <<>>
    /\ Back \in exists
    /\ loaded' = loaded \cup {Back}
    /\ victim' = Back
    /\ collector' = "got"
    /\ UNCHANGED <<alive, exists, queue, numEls, handler, subject, deletes>>

\* back() of an empty list is undefined, and get throws if there is no such
\* element: the thread function is left by an exception.
CollectorGetThrows ==
    /\ AtLock
    /\ MustRelease
    /\ queue = <<>> \/ Back \notin exists
    /\ alive' = FALSE
    /\ UNCHANGED <<exists, loaded, queue, numEls, handler, subject, collector,
                   victim, deletes>>

\* release and pop_back
CollectorReleases ==
    /\ alive /\ collector = "got"
    /\ victim \in exists
    /\ loaded' = loaded \ {victim}
    /\ queue' = WithoutBack(queue)
    /\ collector' = "test"
    /\ victim' = Null
    /\ UNCHANGED <<alive, exists, numEls, handler, subject, deletes>>

\* The handler has erased the element since the get.
CollectorReleaseThrows ==
    /\ alive /\ collector = "got"
    /\ victim \notin exists
    /\ alive' = FALSE
    /\ UNCHANGED <<exists, loaded, queue, numEls, handler, subject, collector,
                   victim, deletes>>

-----------------------------------------------------------------------------
Request ==
    \/ PostToManager
    \/ \E id \in Ids :
          \/ Post(id) \/ PostAnonymous(id) \/ PostFails(id)
          \/ Delete(id) \/ Get(id) \/ Put(id)

Bookkeeping == Push \/ Unlist

Collector ==
    \/ CollectorWaits \/ CollectorCounts
    \/ CollectorGets \/ CollectorGetThrows
    \/ CollectorReleases \/ CollectorReleaseThrows

Next == Request \/ Bookkeeping \/ Collector \/ CollectorWakes

Spec == Init /\ [][Next]_vars

\* Both threads are scheduled; requests come or do not come.
FairSpec == Spec /\ WF_vars(Bookkeeping) /\ WF_vars(Collector)

-----------------------------------------------------------------------------
(* Properties *)

TypeOK ==
    /\ alive \in BOOLEAN
    /\ exists \in SUBSET Ids
    /\ loaded \in SUBSET Ids
    /\ queue \in Seq(Ids \cup {Null})
    /\ numEls \in 0 .. Wrap - 1
    /\ handler \in {"idle", "created", "erased"}
    /\ subject \in Ids \cup {Null}
    /\ collector \in {"test", "wait", "woken", "got"}
    /\ victim \in Ids \cup {Null}
    /\ deletes \in 0 .. MaxDeletes

\* The count never runs ahead of the list, read as a signed number: a DELETE
\* of an element that is not in the list takes the count below it, and below
\* zero, where it wraps.
CountBehindList == numEls <= Len(queue) \/ numEls >= Wrap - deletes

\* So the collector never takes the back of an empty list.
NeverBackOfEmpty == MustRelease => queue # <<>>

\* An id is in the list once, so that remove and m_numEls-- keep step.
NoDuplicates ==
    \A i, j \in 1 .. Len(queue) :
       queue[i] = queue[j] /\ queue[i] # Null => i = j

\* An element in the list is in memory; the exception is the one a DELETE has
\* just erased and will take out next.
QueueSound ==
    \A i \in 1 .. Len(queue) :
       \/ queue[i] = Null
       \/ queue[i] \in loaded
       \/ handler = "erased" /\ subject = queue[i]

\* The collector sleeps only when the list is within the limit.
IdleWithinLimit == collector = "wait" => Len(queue) <= MaxEls

\* The two ways the collector can bring the server down: the null id of an
\* anonymous POST has reached the back of the list, or a DELETE is between
\* its erase and its bookkeeping.
DeathIsAnonymousOrDeleted ==
    [][alive /\ ~alive' =>
          /\ queue # <<>>
          /\ \/ Back = Null
             \/ handler = "erased" /\ subject = Back]_vars

\* A list that is too long is brought back to the limit once the POSTs let up,
\* or the server dies trying (the ids and MaxDeletes bound the POSTs here).
ListDrains == Len(queue) > MaxEls ~> Len(queue) <= MaxEls \/ ~alive

\* main.cpp: "max number of elements in memory before releasing" - more
\* elements than that do not stay in memory.
MemoryBounded ==
    Cardinality(loaded) > MaxEls ~> Cardinality(loaded) <= MaxEls \/ ~alive
=============================================================================
