------------------------- MODULE ReleaseQueueProofs -------------------------
(***************************************************************************)
(* ReleaseQueue, for every set of elements, every limit and every width of *)
(* the counter that the number of DELETE requests cannot exhaust.          *)
(***************************************************************************)
EXTENDS ReleaseQueue, SequenceTheorems, TLAPS

Entry == Ids \cup {Null}

-----------------------------------------------------------------------------
(* Lemmas about the list *)

\* push_front: the new entry comes first, the others move back by one.
LEMMA PushFront ==
    ASSUME NEW S, NEW s \in Seq(S), NEW e \in S
    PROVE  /\ <<e>> \o s \in Seq(S)
           /\ Len(<<e>> \o s) = Len(s) + 1
           /\ (<<e>> \o s)[1] = e
           /\ \A i \in 2 .. Len(s) + 1 : (<<e>> \o s)[i] = s[i - 1]
<1>1. /\ <<e>> \in Seq(S) /\ Len(<<e>>) = 1 /\ <<e>>[1] = e
      /\ Len(s) \in Nat
      BY LenProperties
<1>2. /\ <<e>> \o s \in Seq(S)
      /\ Len(<<e>> \o s) = 1 + Len(s)
      /\ \A i \in 1 .. 1 + Len(s) :
            (<<e>> \o s)[i] = IF i <= 1 THEN <<e>>[i] ELSE s[i - 1]
      BY <1>1, ConcatProperties
<1> QED BY <1>1, <1>2

\* remove of an id that is not there does nothing; of one that is there, it
\* closes the gap at some position of the id.
LEMMA RemoveGap ==
    ASSUME NEW S, NEW s \in Seq(S), NEW id,
           \E i \in 1 .. Len(s) : s[i] = id
    PROVE  /\ Position(s, id) \in 1 .. Len(s)
           /\ s[Position(s, id)] = id
           /\ Remove(s, id) \in Seq(S)
           /\ Len(Remove(s, id)) = Len(s) - 1
           /\ \A j \in 1 .. Len(s) - 1 :
                 /\ j < Position(s, id) => Remove(s, id)[j] = s[j]
                 /\ ~(j < Position(s, id)) => Remove(s, id)[j] = s[j + 1]
<1> DEFINE p == Position(s, id)
           front == SubSeq(s, 1, p - 1)
           rest == SubSeq(s, p + 1, Len(s))
<1>1. /\ p \in 1 .. Len(s) /\ s[p] = id
      /\ Remove(s, id) = front \o rest
      BY DEF Remove, Position
<1>2. /\ Len(s) \in Nat
      /\ \A i \in 1 .. Len(s) : s[i] \in S
      BY LenProperties, ElementOfSeq
<1> HIDE DEF p
<1>3. /\ front \in Seq(S)
      /\ Len(front) = p - 1
      /\ \A i \in 1 .. p - 1 : front[i] = s[i]
      <2>1. /\ 1 \in Int /\ p - 1 \in Int
            /\ \A i \in 1 .. p - 1 : s[i] \in S
            BY <1>1, <1>2
      <2>2. /\ front \in Seq(S)
            /\ Len(front) = IF 1 <= p - 1 THEN p - 1 - 1 + 1 ELSE 0
            /\ \A i \in 1 .. p - 1 - 1 + 1 : front[i] = s[1 + i - 1]
            BY <2>1, SubSeqProperties
      <2> QED BY <1>1, <2>2
<1>4. /\ rest \in Seq(S)
      /\ Len(rest) = Len(s) - p
      /\ \A i \in 1 .. Len(s) - p : rest[i] = s[p + i]
      <2>1. /\ p + 1 \in Int /\ Len(s) \in Int
            /\ \A i \in p + 1 .. Len(s) : s[i] \in S
            BY <1>1, <1>2
      <2>2. /\ rest \in Seq(S)
            /\ Len(rest) = IF p + 1 <= Len(s) THEN Len(s) - (p + 1) + 1 ELSE 0
            /\ \A i \in 1 .. Len(s) - (p + 1) + 1 :
                  rest[i] = s[(p + 1) + i - 1]
            BY <2>1, SubSeqProperties
      <2> QED BY <1>1, <1>2, <2>2
<1> HIDE DEF front, rest
<1>5. /\ front \o rest \in Seq(S)
      /\ Len(front \o rest) = Len(front) + Len(rest)
      /\ \A j \in 1 .. Len(front) + Len(rest) : (front \o rest)[j] =
            IF j <= Len(front) THEN front[j] ELSE rest[j - Len(front)]
      BY <1>3, <1>4, ConcatProperties
<1>6. Len(front) + Len(rest) = Len(s) - 1
      BY <1>1, <1>2, <1>3, <1>4
<1>7. ASSUME NEW j \in 1 .. Len(s) - 1
      PROVE  /\ j < p => (front \o rest)[j] = s[j]
             /\ ~(j < p) => (front \o rest)[j] = s[j + 1]
      <2>1. CASE j < p
            <3>1. j \in 1 .. p - 1 /\ j <= Len(front)
                  BY <1>1, <1>2, <1>3, <2>1
            <3> QED BY <1>3, <1>5, <1>6, <2>1, <3>1
      <2>2. CASE ~(j < p)
            <3>1. /\ j - Len(front) \in 1 .. Len(s) - p
                  /\ ~(j <= Len(front))
                  /\ p + (j - Len(front)) = j + 1
                  BY <1>1, <1>2, <1>3, <2>2
            <3> QED BY <1>4, <1>5, <1>6, <2>2, <3>1
      <2> QED BY <2>1, <2>2
<1> QED BY <1>1, <1>5, <1>6, <1>7 DEF p

\* pop_back: the entries before the last stay where they are.
LEMMA PopBack ==
    ASSUME NEW S, NEW s \in Seq(S), s # <<>>
    PROVE  /\ SubSeq(s, 1, Len(s) - 1) \in Seq(S)
           /\ Len(SubSeq(s, 1, Len(s) - 1)) = Len(s) - 1
           /\ \A i \in 1 .. Len(s) - 1 : SubSeq(s, 1, Len(s) - 1)[i] = s[i]
<1>1. /\ Len(s) \in Nat \ {0}
      /\ \A i \in 1 .. Len(s) : s[i] \in S
      BY EmptySeq, ElementOfSeq
<1> DEFINE n == Len(s) - 1
           t == SubSeq(s, 1, n)
<1>2. /\ n \in Nat
      /\ \A i \in 1 .. n : s[i] \in S
      BY <1>1
<1> HIDE DEF n
<1>3. /\ t \in Seq(S)
      /\ Len(t) = IF 1 <= n THEN n - 1 + 1 ELSE 0
      /\ \A i \in 1 .. n - 1 + 1 : t[i] = s[1 + i - 1]
      BY <1>2, SubSeqProperties
<1>4. /\ t \in Seq(S)
      /\ Len(t) = n
      /\ \A i \in 1 .. n : t[i] = s[i]
      BY <1>2, <1>3
<1> QED BY <1>4 DEF n

-----------------------------------------------------------------------------
(* The inductive invariant *)

\* DELETE requests that have already taken their element off the count.
Unlisted == deletes - (IF handler = "erased" THEN 1 ELSE 0)

\* The list and the count, as numbers: the list has room for the entry of a
\* POST under way; the count is at most the list and the limit, or below zero
\* by no more than the elements it was charged for.
Counted ==
    /\ Len(queue) + (IF handler = "created" THEN 1 ELSE 0) <= MaxQueue
    /\ Unlisted \in Nat
    /\ \/ numEls <= Len(queue) /\ numEls <= MaxEls
       \/ numEls >= Wrap - Unlisted

\* What the entries of the list are.
Listed == NoDuplicates /\ QueueSound

\* What the handler is in the middle of.
InHand ==
    /\ loaded \subseteq exists
    /\ handler = "created" =>
          \/ subject = Null
          \/ subject \in loaded /\ ~InQueue(subject)
    /\ handler = "erased" => subject \in Ids \ exists

\* What the collector is in the middle of.
Collecting ==
    /\ collector = "got" => MustRelease /\ victim = Back /\ victim # Null
    /\ IdleWithinLimit

Inv == TypeOK /\ Counted /\ Listed /\ InHand /\ Collecting

\* While the collector must release, the count is at most the list: the list
\* has an entry to release.
LEMMA ReleaseHasEntry ==
    ASSUME TypeOK, Counted, MustRelease
    PROVE  /\ Len(queue) \in Nat \ {0}
           /\ queue # <<>>
           /\ numEls < Len(queue)
           /\ Back \in Entry
<1>1. /\ Len(queue) \in Nat /\ queue \in Seq(Entry)
      /\ deletes \in 0 .. MaxDeletes
      BY LenProperties DEF TypeOK, Entry
<1>2. /\ numEls = MaxEls /\ Len(queue) # numEls
      /\ Unlisted <= MaxDeletes
      BY <1>1, ReleaseQueueAssumption DEF MustRelease, Uncounted, Counted,
         Unlisted
<1>3. /\ numEls < Len(queue) /\ MaxEls \in Nat
      BY <1>1, <1>2, ReleaseQueueAssumption DEF Counted
<1>4. Len(queue) \in Nat \ {0}
      BY <1>1, <1>2, <1>3
<1>5. queue # <<>>
      BY <1>4, EmptySeq
<1>6. Back \in Entry
      BY <1>1, <1>4, ElementOfSeq DEF Back
<1> QED BY <1>3, <1>4, <1>5, <1>6

LEMMA InitInv == Init => Inv
<1> SUFFICES ASSUME Init PROVE Inv
    OBVIOUS
<1>1. /\ queue \in Seq(Entry) /\ Len(queue) = 0
      BY EmptySeq DEF Init
<1>2. TypeOK
      BY <1>1, ReleaseQueueAssumption DEF Init, TypeOK, Entry
<1>3. Counted
      BY <1>1, ReleaseQueueAssumption DEF Init, Counted, Unlisted
<1>4. Listed
      BY <1>1 DEF Init, Listed, NoDuplicates, QueueSound
<1>5. InHand
      BY DEF Init, InHand
<1>6. Collecting
      BY DEF Init, Collecting, IdleWithinLimit
<1> QED BY <1>2, <1>3, <1>4, <1>5, <1>6 DEF Inv

-----------------------------------------------------------------------------
(* One lemma per kind of step *)

\* Requests leave the list, the count and the collector alone.
LEMMA PostStep ==
    ASSUME Inv, NEW id \in Ids, NEW new \in {id, Null},
           handler = "idle", id \notin exists, Len(queue) < MaxQueue,
           exists' = exists \cup {id}, loaded' = loaded \cup {id},
           handler' = "created", subject' = new,
           UNCHANGED <<alive, queue, numEls, collector, victim, deletes>>
    PROVE  Inv'
<1>1. TypeOK'
      BY DEF Inv, TypeOK
<1>2. Counted'
      <2>1. Len(queue) \in Nat
            BY LenProperties DEF Inv, TypeOK
      <2> QED BY <2>1, ReleaseQueueAssumption DEF Inv, Counted, Unlisted
<1>3. \A i \in 1 .. Len(queue) : queue[i] = Null \/ queue[i] \in loaded
      BY DEF Inv, Listed, QueueSound
<1>4. Listed'
      BY <1>3 DEF Inv, Listed, NoDuplicates, QueueSound
<1>5. InHand'
      <2>1. id \notin loaded /\ id # Null
            BY ReleaseQueueAssumption DEF Inv, InHand
      <2>2. ~InQueue(id)
            BY <1>3, <2>1 DEF InQueue
      <2>3. ~InQueue(id)'
            BY <2>2 DEF InQueue
      <2> QED BY <2>3 DEF Inv, InHand, InQueue
<1>6. Collecting'
      BY DEF Inv, Collecting, MustRelease, Uncounted, Back, IdleWithinLimit
<1> QED BY <1>1, <1>2, <1>4, <1>5, <1>6 DEF Inv

LEMMA ManagerStep ==
    ASSUME Inv, PostToManager
    PROVE  Inv'
<1> USE DEF PostToManager
<1>1. TypeOK'
      BY DEF Inv, TypeOK
<1>2. Counted'
      <2>1. Len(queue) \in Nat
            BY LenProperties DEF Inv, TypeOK
      <2> QED BY <2>1, ReleaseQueueAssumption DEF Inv, Counted, Unlisted
<1>3. Listed'
      BY DEF Inv, Listed, NoDuplicates, QueueSound
<1>4. InHand'
      BY DEF Inv, InHand, InQueue
<1>5. Collecting'
      BY DEF Inv, Collecting, MustRelease, Uncounted, Back, IdleWithinLimit
<1> QED BY <1>1, <1>2, <1>3, <1>4, <1>5 DEF Inv

\* An element comes, or comes back, into memory.
LEMMA LoadStep ==
    ASSUME Inv, NEW id \in Ids, handler = "idle",
           exists' = exists \cup {id}, loaded' = loaded \cup {id},
           UNCHANGED <<alive, queue, numEls, handler, subject, collector,
                       victim, deletes>>
    PROVE  Inv'
<1>1. TypeOK'
      BY DEF Inv, TypeOK
<1>2. Counted'
      BY DEF Inv, Counted, Unlisted
<1>3. Listed'
      BY DEF Inv, Listed, NoDuplicates, QueueSound
<1>4. InHand'
      BY DEF Inv, InHand
<1>5. Collecting'
      BY DEF Inv, Collecting, MustRelease, Uncounted, Back, IdleWithinLimit
<1> QED BY <1>1, <1>2, <1>3, <1>4, <1>5 DEF Inv

LEMMA DeleteStep ==
    ASSUME Inv, NEW id \in Ids, Delete(id)
    PROVE  Inv'
<1> USE DEF Delete
<1>1. TypeOK'
      BY ReleaseQueueAssumption DEF Inv, TypeOK
<1>2. Counted'
      <2>1. deletes \in Nat /\ Unlisted' = Unlisted
            BY ReleaseQueueAssumption DEF Inv, TypeOK, Unlisted
      <2>2. Len(queue) \in Nat
            BY LenProperties DEF Inv, TypeOK
      <2> QED BY <2>1, <2>2 DEF Inv, Counted
<1>3. Listed'
      BY DEF Inv, Listed, NoDuplicates, QueueSound
<1>4. InHand'
      BY DEF Inv, InHand
<1>5. Collecting'
      BY DEF Inv, Collecting, MustRelease, Uncounted, Back, IdleWithinLimit
<1> QED BY <1>1, <1>2, <1>3, <1>4, <1>5 DEF Inv

LEMMA PushStep ==
    ASSUME Inv, Push
    PROVE  Inv'
<1> USE DEF Push, Notify
<1>1. /\ queue \in Seq(Entry) /\ subject \in Entry /\ Len(queue) \in Nat
      BY LenProperties DEF Inv, TypeOK, Entry
<1>2. /\ queue' \in Seq(Entry)
      /\ Len(queue') = Len(queue) + 1
      /\ queue'[1] = subject
      /\ \A i \in 2 .. Len(queue) + 1 : queue'[i] = queue[i - 1]
      BY <1>1, PushFront
<1>3. collector' \in {"test", "woken"}
      BY DEF Inv, TypeOK, GarbageMtxFree
<1>4. TypeOK'
      BY <1>2, <1>3 DEF Inv, TypeOK, Entry
<1>5. Counted'
      BY <1>1, <1>2 DEF Inv, Counted, Unlisted, TypeOK
<1>6. /\ subject = Null \/ (subject \in loaded /\ ~InQueue(subject))
      /\ \A i \in 1 .. Len(queue) : queue[i] = Null \/ queue[i] \in loaded
      <2>1. handler = "created"
            OBVIOUS
      <2>2. subject = Null \/ (subject \in loaded /\ ~InQueue(subject))
            BY <2>1 DEF Inv, InHand
      <2>3. QueueSound
            BY DEF Inv, Listed
      <2> QED BY <2>1, <2>2, <2>3 DEF QueueSound
<1>7. QueueSound'
      <2> SUFFICES ASSUME NEW i \in 1 .. Len(queue) + 1
                   PROVE  queue'[i] = Null \/ queue'[i] \in loaded
          BY <1>2 DEF QueueSound
      <2>1. CASE i = 1
            BY <1>2, <1>6, <2>1
      <2>2. CASE i # 1
            <3>1. i \in 2 .. Len(queue) + 1 /\ i - 1 \in 1 .. Len(queue)
                  BY <1>1, <2>2
            <3> QED BY <1>2, <1>6, <3>1
      <2> QED BY <2>1, <2>2
<1>8. NoDuplicates'
      <2> SUFFICES ASSUME NEW i \in 1 .. Len(queue) + 1,
                          NEW j \in 1 .. Len(queue) + 1,
                          queue'[i] = queue'[j], queue'[i] # Null
                   PROVE  i = j
          BY <1>2 DEF NoDuplicates
      <2>1. \A k \in 2 .. Len(queue) + 1 :
               /\ k - 1 \in 1 .. Len(queue)
               /\ queue'[k] = queue[k - 1]
               /\ queue'[k] # Null => queue'[k] # subject
            BY <1>1, <1>2, <1>6 DEF InQueue
      <2>2. CASE i = 1 \/ j = 1
            <3>1. queue'[1] = subject
                  BY <1>2
            <3>2. i = 1 \/ i \in 2 .. Len(queue) + 1
                  BY <1>1
            <3>3. j = 1 \/ j \in 2 .. Len(queue) + 1
                  BY <1>1
            <3> QED BY <2>1, <2>2, <3>1, <3>2, <3>3, Zenon
      <2>3. CASE i # 1 /\ j # 1
            <3>1. /\ i - 1 \in 1 .. Len(queue) /\ j - 1 \in 1 .. Len(queue)
                  /\ queue[i - 1] = queue[j - 1] /\ queue[i - 1] # Null
                  BY <1>1, <2>1, <2>3
            <3>2. i - 1 = j - 1
                  BY <3>1 DEF Inv, Listed, NoDuplicates
            <3> QED BY <3>2
      <2> QED BY <2>2, <2>3
<1>9. InHand'
      BY DEF Inv, InHand
<1>10. Collecting'
      BY <1>3 DEF Inv, Collecting, IdleWithinLimit
<1> QED BY <1>4, <1>5, <1>7, <1>8, <1>9, <1>10 DEF Inv, Listed

\* The list without the erased element, however remove got there.
LEMMA UnlistWith ==
    ASSUME Inv, Unlist,
           queue' \in Seq(Entry),
           Len(queue') \in {Len(queue), Len(queue) - 1},
           NoDuplicates',
           \A j \in 1 .. Len(queue') :
              queue'[j] = Null \/ queue'[j] \in loaded
    PROVE  Inv'
<1> USE DEF Unlist
<1>1. /\ Len(queue) \in Nat /\ Len(queue') \in Nat
      /\ numEls \in 0 .. Wrap - 1 /\ deletes \in 0 .. MaxDeletes
      /\ numEls' = Pred(numEls)
      BY LenProperties DEF Inv, TypeOK
<1>2. numEls' \in 0 .. Wrap - 1
      BY <1>1, ReleaseQueueAssumption DEF Pred
<1>3. TypeOK'
      BY <1>2 DEF Inv, TypeOK, Entry
<1>4. Counted'
      <2>1. /\ Unlisted = deletes - 1 /\ Unlisted' = deletes
            /\ deletes - 1 \in Nat
            BY <1>1 DEF Inv, Counted, Unlisted
      <2>2. Len(queue) <= MaxQueue
            BY <1>1 DEF Inv, Counted
      <2>3. \/ numEls' <= Len(queue') /\ numEls' <= MaxEls
            \/ numEls' >= Wrap - Unlisted'
            <3>1. CASE numEls = 0
                  BY <1>1, <2>1, <3>1, ReleaseQueueAssumption DEF Pred
            <3>2. CASE numEls # 0
                  <4>1. numEls' = numEls - 1
                        BY <1>1, <3>2 DEF Pred
                  <4> QED BY <1>1, <2>1, <4>1, ReleaseQueueAssumption
                          DEF Inv, Counted
            <3> QED BY <3>1, <3>2
      <2>4. Len(queue') + 0 <= MaxQueue /\ Unlisted' \in Nat
            BY <1>1, <2>1, <2>2, ReleaseQueueAssumption
      <2>5. handler' # "created"
            OBVIOUS
      <2> QED BY <2>3, <2>4, <2>5 DEF Counted
<1>5. Listed'
      BY DEF Listed, QueueSound
<1>6. InHand'
      BY DEF Inv, InHand
<1>7. Collecting'
      BY <1>1, ReleaseQueueAssumption
      DEF Inv, Collecting, IdleWithinLimit, GarbageMtxFree
<1> QED BY <1>3, <1>4, <1>5, <1>6, <1>7 DEF Inv

LEMMA UnlistStep ==
    ASSUME Inv, Unlist
    PROVE  Inv'
<1> USE DEF Unlist
<1>1. /\ queue \in Seq(Entry) /\ Len(queue) \in Nat
      /\ handler = "erased" /\ subject \in Ids \ exists
      /\ subject # Null /\ subject \notin loaded
      BY LenProperties, ReleaseQueueAssumption
      DEF Inv, TypeOK, Entry, InHand
<1>2. \A i \in 1 .. Len(queue) :
         queue[i] = Null \/ queue[i] \in loaded \/ queue[i] = subject
      BY DEF Inv, Listed, QueueSound
<1>3. NoDuplicates
      BY DEF Inv, Listed
<1>4. CASE ~InQueue(subject)
      <2>1. queue' = queue
            BY <1>4 DEF Remove, InQueue
      <2>2. \A i \in 1 .. Len(queue) : queue[i] # subject
            BY <1>4 DEF InQueue
      <2>3. NoDuplicates'
            BY <1>3, <2>1 DEF NoDuplicates
      <2>4. \A j \in 1 .. Len(queue') :
               queue'[j] = Null \/ queue'[j] \in loaded
            BY <1>2, <2>1, <2>2
      <2>5. queue' \in Seq(Entry) /\ Len(queue') = Len(queue)
            BY <1>1, <2>1
      <2> QED BY <2>3, <2>4, <2>5, UnlistWith
<1>5. CASE InQueue(subject)
      <2>1. \E i \in 1 .. Len(queue) : queue[i] = subject
            BY <1>5 DEF InQueue
      <2>2. queue' = Remove(queue, subject)
            OBVIOUS
      <2> DEFINE p == Position(queue, subject)
                 from(j) == IF j < p THEN j ELSE j + 1
      <2>3. /\ p \in 1 .. Len(queue) /\ queue[p] = subject
            /\ queue' \in Seq(Entry)
            /\ Len(queue') = Len(queue) - 1
            /\ \A j \in 1 .. Len(queue) - 1 :
                  /\ j < p => queue'[j] = queue[j]
                  /\ ~(j < p) => queue'[j] = queue[j + 1]
            BY <1>1, <2>1, <2>2, RemoveGap
      <2> HIDE DEF p
      <2>4. \A j \in 1 .. Len(queue') : queue'[j] = queue[from(j)]
            BY <2>3
      <2>5. \A j \in 1 .. Len(queue') :
               /\ from(j) \in 1 .. Len(queue)
               /\ from(j) # p
            BY <1>1, <2>3
      <2>6. \A j \in 1 .. Len(queue') : queue'[j] # subject
            <3> SUFFICES ASSUME NEW j \in 1 .. Len(queue'),
                                queue'[j] = subject
                         PROVE  FALSE
                OBVIOUS
            <3> DEFINE i == from(j)
            <3>1. i \in 1 .. Len(queue) /\ i # p
                  BY <2>5
            <3>2. queue'[j] = queue[i]
                  BY <2>4
            <3> HIDE DEF i
            <3> QED BY <1>1, <1>3, <2>3, <3>1, <3>2 DEF NoDuplicates
      <2>7. NoDuplicates'
            <3> SUFFICES ASSUME NEW j \in 1 .. Len(queue'),
                                NEW k \in 1 .. Len(queue'),
                                queue'[j] = queue'[k], queue'[j] # Null
                         PROVE  j = k
                BY DEF NoDuplicates
            <3> DEFINE f == from(j)
                       g == from(k)
            <3>1. /\ f \in 1 .. Len(queue) /\ g \in 1 .. Len(queue)
                  /\ queue'[j] = queue[f] /\ queue'[k] = queue[g]
                  BY <2>4, <2>5
            <3> HIDE DEF f, g
            <3>2. f = g
                  BY <1>3, <3>1 DEF NoDuplicates
            <3> QED BY <3>2, <1>1, <2>3 DEF f, g
      <2>8. \A j \in 1 .. Len(queue') :
               queue'[j] = Null \/ queue'[j] \in loaded
            BY <1>2, <2>4, <2>5, <2>6
      <2> QED BY <1>1, <2>3, <2>7, <2>8, UnlistWith
<1> QED BY <1>4, <1>5

\* What the collector does on the elements and the list, and what not.
LEMMA CollectorPauses ==
    ASSUME Inv, CollectorWaits \/ CollectorWakes
    PROVE  Inv'
<1> USE DEF CollectorWaits, CollectorWakes, Uncounted
<1>1. TypeOK'
      BY DEF Inv, TypeOK
<1>2. Counted'
      BY DEF Inv, Counted, Unlisted
<1>3. Listed'
      BY DEF Inv, Listed, NoDuplicates, QueueSound
<1>4. InHand'
      BY DEF Inv, InHand, InQueue
<1>5. Collecting'
      <2>1. CASE CollectorWakes
            BY <2>1 DEF Inv, Collecting, IdleWithinLimit
      <2>2. CASE CollectorWaits
            <3>1. /\ Len(queue) = numEls /\ Len(queue) \in Nat
                  /\ deletes \in 0 .. MaxDeletes /\ collector' = "wait"
                  BY <2>2, LenProperties DEF Inv, TypeOK
            <3>2. /\ Len(queue) <= MaxQueue
                  /\ Unlisted <= MaxDeletes
                  BY <3>1, ReleaseQueueAssumption DEF Inv, Counted, Unlisted
            <3>3. Len(queue) <= MaxEls
                  BY <3>1, <3>2, ReleaseQueueAssumption DEF Inv, Counted
            <3> QED BY <2>2, <3>1, <3>3 DEF Collecting, IdleWithinLimit
      <2> QED BY <2>1, <2>2
<1> QED BY <1>1, <1>2, <1>3, <1>4, <1>5 DEF Inv

LEMMA CountStep ==
    ASSUME Inv, CollectorCounts
    PROVE  Inv'
<1> USE DEF CollectorCounts, Uncounted
<1>1. /\ Len(queue) \in Nat /\ numEls \in 0 .. Wrap - 1
      /\ deletes \in 0 .. MaxDeletes
      BY LenProperties DEF Inv, TypeOK
<1>2. numEls' \in 0 .. Wrap - 1
      BY <1>1, ReleaseQueueAssumption DEF Succ
<1>3. TypeOK'
      BY <1>2 DEF Inv, TypeOK
<1>4. Counted'
      BY <1>1, ReleaseQueueAssumption DEF Inv, Counted, Unlisted, Succ
<1>5. Listed'
      BY DEF Inv, Listed, NoDuplicates, QueueSound
<1>6. InHand'
      BY DEF Inv, InHand, InQueue
<1>7. Collecting'
      BY DEF Collecting, IdleWithinLimit
<1> QED BY <1>3, <1>4, <1>5, <1>6, <1>7 DEF Inv

LEMMA GetStep ==
    ASSUME Inv, CollectorGets
    PROVE  Inv'
<1> USE DEF CollectorGets
<1>1. Back \in Entry /\ Back \in exists /\ exists \in SUBSET Ids
      BY ReleaseHasEntry DEF Inv, TypeOK
<1>2. Back \in Ids /\ Back # Null
      BY <1>1, ReleaseQueueAssumption
<1>3. TypeOK'
      BY <1>2 DEF Inv, TypeOK
<1>4. Counted'
      BY DEF Inv, Counted, Unlisted
<1>5. Listed'
      BY DEF Inv, Listed, NoDuplicates, QueueSound
<1>6. InHand'
      BY <1>1 DEF Inv, InHand, InQueue
<1>7. Collecting'
      BY <1>2 DEF Collecting, MustRelease, Uncounted, Back, IdleWithinLimit
<1> QED BY <1>3, <1>4, <1>5, <1>6, <1>7 DEF Inv

LEMMA ReleaseStep ==
    ASSUME Inv, CollectorReleases
    PROVE  Inv'
<1> USE DEF CollectorReleases, WithoutBack
<1>1. /\ queue \in Seq(Entry) /\ Len(queue) \in Nat \ {0} /\ queue # <<>>
      /\ MustRelease /\ numEls < Len(queue)
      /\ victim = queue[Len(queue)] /\ victim # Null
      BY ReleaseHasEntry DEF Inv, TypeOK, Entry, Collecting, Back
<1>2. /\ queue' \in Seq(Entry)
      /\ Len(queue') = Len(queue) - 1
      /\ \A i \in 1 .. Len(queue) - 1 : queue'[i] = queue[i]
      BY <1>1, PopBack
<1>3. \A i \in 1 .. Len(queue) - 1 :
         i \in 1 .. Len(queue) /\ queue[i] # victim
      <2> SUFFICES ASSUME NEW i \in 1 .. Len(queue) - 1, queue[i] = victim
                   PROVE  FALSE
          BY <1>1
      <2>1. i \in 1 .. Len(queue) /\ Len(queue) \in 1 .. Len(queue)
            BY <1>1
      <2>2. i = Len(queue)
            BY <1>1, <2>1 DEF Inv, Listed, NoDuplicates
      <2> QED BY <1>1, <2>2
<1>4. TypeOK'
      BY <1>2 DEF Inv, TypeOK, Entry
<1>5. Counted'
      <2>1. /\ numEls \in 0 .. Wrap - 1 /\ numEls = MaxEls
            /\ Unlisted' = Unlisted /\ numEls' = numEls
            /\ numEls <= Len(queue')
            BY <1>1, <1>2 DEF Inv, TypeOK, MustRelease, Unlisted
      <2>2. Len(queue') + (IF handler' = "created" THEN 1 ELSE 0) <= MaxQueue
            <3>1. /\ Len(queue) + (IF handler = "created" THEN 1 ELSE 0)
                        <= MaxQueue
                  /\ handler' = handler
                  BY DEF Inv, Counted
            <3> DEFINE l == Len(queue)
                       x == IF handler = "created" THEN 1 ELSE 0
            <3>2. x \in {0, 1} /\ l \in Nat \ {0} /\ Len(queue') = l - 1
                  BY <1>1, <1>2
            <3>3. l + x <= MaxQueue
                  BY <3>1
            <3> HIDE DEF l, x
            <3>4. l - 1 + x <= MaxQueue
                  BY <3>2, <3>3, ReleaseQueueAssumption
            <3> QED BY <3>1, <3>2, <3>4 DEF x
      <2> QED BY <2>1, <2>2 DEF Inv, Counted
<1>6. NoDuplicates'
      BY <1>1, <1>2, <1>3 DEF Inv, Listed, NoDuplicates
<1>7. QueueSound'
      BY <1>1, <1>2, <1>3 DEF Inv, Listed, QueueSound
<1>8. InHand'
      <2>1. InQueue(victim)
            BY <1>1 DEF InQueue
      <2>2. ~InQueue(subject) => ~InQueue(subject)'
            BY <1>1, <1>2, <1>3 DEF InQueue
      <2> QED BY <2>1, <2>2 DEF Inv, InHand
<1>9. Collecting'
      BY DEF Collecting, IdleWithinLimit
<1> QED BY <1>4, <1>5, <1>6, <1>7, <1>8, <1>9 DEF Inv, Listed

\* The process dies: everything else stays.
LEMMA DeathStep ==
    ASSUME Inv, CollectorGetThrows \/ CollectorReleaseThrows
    PROVE  Inv'
<1> USE DEF CollectorGetThrows, CollectorReleaseThrows
<1>1. TypeOK'
      BY DEF Inv, TypeOK
<1>2. Counted'
      BY DEF Inv, Counted, Unlisted
<1>3. Listed'
      BY DEF Inv, Listed, NoDuplicates, QueueSound
<1>4. InHand'
      BY DEF Inv, InHand, InQueue
<1>5. Collecting'
      BY DEF Inv, Collecting, MustRelease, Uncounted, Back, IdleWithinLimit
<1> QED BY <1>1, <1>2, <1>3, <1>4, <1>5 DEF Inv

LEMMA InvStep == Inv /\ [Next]_vars => Inv'
<1> SUFFICES ASSUME Inv, [Next]_vars
             PROVE  Inv'
    OBVIOUS
<1>1. ASSUME NEW id \in Ids, Post(id)
      PROVE  Inv'
      BY <1>1, PostStep DEF Post
<1>2. ASSUME NEW id \in Ids, PostAnonymous(id)
      PROVE  Inv'
      BY <1>2, PostStep DEF PostAnonymous
<1>3. ASSUME NEW id \in Ids, PostFails(id)
      PROVE  Inv'
      BY <1>3, LoadStep DEF PostFails
<1>4. ASSUME NEW id \in Ids, Delete(id)
      PROVE  Inv'
      BY <1>4, DeleteStep
<1>5. ASSUME NEW id \in Ids, Get(id)
      PROVE  Inv'
      <2>1. exists' = exists \cup {id}
            BY <1>5 DEF Get
      <2> QED BY <1>5, <2>1, LoadStep DEF Get
<1>6. ASSUME NEW id \in Ids, Put(id)
      PROVE  Inv'
      BY <1>6, LoadStep DEF Put
<1>7. CASE Push
      BY <1>7, PushStep
<1>8. CASE Unlist
      BY <1>8, UnlistStep
<1>9. CASE CollectorWaits \/ CollectorWakes
      BY <1>9, CollectorPauses
<1>10. CASE CollectorCounts
      BY <1>10, CountStep
<1>11. CASE CollectorGets
      BY <1>11, GetStep
<1>12. CASE CollectorReleases
      BY <1>12, ReleaseStep
<1>13. CASE CollectorGetThrows \/ CollectorReleaseThrows
      BY <1>13, DeathStep
<1>14. CASE PostToManager
      BY <1>14, ManagerStep
<1>15. CASE UNCHANGED vars
      BY <1>15 DEF vars, Inv, TypeOK, Counted, Unlisted, Listed, NoDuplicates,
                   QueueSound, InHand, InQueue, Collecting, MustRelease,
                   Uncounted, Back, IdleWithinLimit
<1> QED BY <1>1, <1>2, <1>3, <1>4, <1>5, <1>6, <1>7, <1>8, <1>9, <1>10,
           <1>11, <1>12, <1>13, <1>14, <1>15
        DEF Next, Request, Bookkeeping, Collector

-----------------------------------------------------------------------------
(* What it gives *)

THEOREM QueueInvariance == Spec => []Inv
BY InitInv, InvStep, PTL DEF Spec

\* Every variable has the type its C++ counterpart has.
THEOREM QueueTypeCorrect == Spec => []TypeOK
<1>1. Inv => TypeOK
      BY DEF Inv
<1> QED BY <1>1, QueueInvariance, PTL

\* m_numEls is at most the size of m_releaseQueue, or has wrapped below zero.
THEOREM CountSound == Spec => []CountBehindList
<1>1. Inv => CountBehindList
      <2> SUFFICES ASSUME Inv PROVE CountBehindList
          OBVIOUS
      <2>1. /\ Unlisted <= deletes /\ Unlisted \in Nat /\ deletes \in Nat
            /\ numEls \in Nat
            BY ReleaseQueueAssumption DEF Inv, TypeOK, Counted, Unlisted
      <2> QED BY <2>1, ReleaseQueueAssumption
              DEF Inv, Counted, CountBehindList
<1> QED BY <1>1, QueueInvariance, PTL

\* garbageCollector never calls back() on an empty m_releaseQueue.
THEOREM CollectorHasVictim == Spec => []NeverBackOfEmpty
<1>1. Inv => NeverBackOfEmpty
      BY ReleaseHasEntry DEF Inv, NeverBackOfEmpty
<1> QED BY <1>1, QueueInvariance, PTL

\* No id is in m_releaseQueue twice, however POST, DELETE and the collector
\* take turns.
THEOREM ListHoldsNothingTwice == Spec => []NoDuplicates
<1>1. Inv => NoDuplicates
      BY DEF Inv, Listed
<1> QED BY <1>1, QueueInvariance, PTL

\* What is in m_releaseQueue is in memory, unless a DELETE is between its
\* erase and its remove.
THEOREM ListSound == Spec => []QueueSound
<1>1. Inv => QueueSound
      BY DEF Inv, Listed
<1> QED BY <1>1, QueueInvariance, PTL

\* garbageCollector sleeps only when m_releaseQueue is within m_maxEls.
THEOREM SleepsWithinLimit == Spec => []IdleWithinLimit
<1>1. Inv => IdleWithinLimit
      BY DEF Inv, Collecting
<1> QED BY <1>1, QueueInvariance, PTL

\* garbageCollector throws out of its thread function only on the null id of
\* an anonymous POST or inside the window of a DELETE.
THEOREM CollectorDeaths == Spec => DeathIsAnonymousOrDeleted
<1> DEFINE Cause == /\ queue # <<>>
                    /\ \/ Back = Null
                       \/ handler = "erased" /\ subject = Back
<1>1. Inv /\ [Next]_vars => [alive /\ ~alive' => Cause]_vars
      <2> SUFFICES ASSUME Inv, Next, alive, ~alive'
                   PROVE  Cause
          OBVIOUS
      <2>1. /\ CollectorGetThrows \/ CollectorReleaseThrows
            BY DEF Next, Request, Post, PostAnonymous, PostToManager, PostFails,
                   Delete, Get, Put, Bookkeeping, Push, Unlist, Collector,
                   CollectorWaits,
                   CollectorCounts, CollectorGets, CollectorReleases,
                   CollectorWakes
      <2>2. /\ MustRelease
            /\ Back \notin exists
            BY <2>1, ReleaseHasEntry
            DEF CollectorGetThrows, CollectorReleaseThrows, Inv, Collecting
      <2>3. queue # <<>> /\ Len(queue) \in 1 .. Len(queue)
            BY <2>2, ReleaseHasEntry DEF Inv
      <2> QED BY <2>2, <2>3 DEF Inv, InHand, Listed, QueueSound, Back
<1> QED BY <1>1, QueueInvariance, PTL DEF Spec, DeathIsAnonymousOrDeleted

-----------------------------------------------------------------------------
(* The list drains *)

\* The collector is at the lock, or between its get and its release.
CollectorRuns == collector # "wait"

\* A list that is too long has the collector at work, and bookkeeping that
\* waits for m_garbageMtx waits for a collector that will give it back.
GoesOn ==
    alive =>
       /\ Len(queue) > MaxEls => CollectorRuns
       /\ handler # "idle" => GarbageMtxFree \/ CollectorRuns

\* How often the count is still to be increased before it stands at m_maxEls;
\* below zero it has wrapped.
ToLimit == IF numEls <= MaxEls THEN MaxEls - numEls
                               ELSE (Wrap - numEls) + MaxEls

\* The steps the collector has to take for the list that is there: two for an
\* entry, of which it may have done the first, and those of the count.
Work == 2 * Len(queue) + ToLimit + IF collector = "got" THEN 0 ELSE 1

\* Each of its steps is one of them; only Push and Unlist bring new ones.
Drains ==
    /\ Collector /\ alive' /\ Len(queue) > MaxEls => Work' = Work - 1
    /\ Request \/ CollectorWakes => Work' = Work

LEMMA WorkIsNatural == Inv => Work \in Nat
<1> SUFFICES ASSUME Inv PROVE Work \in Nat
    OBVIOUS
<1>1. Len(queue) \in Nat /\ numEls \in 0 .. Wrap - 1
      BY LenProperties DEF Inv, TypeOK
<1>2. ToLimit \in Nat
      BY <1>1, ReleaseQueueAssumption DEF ToLimit
<1> QED BY <1>1, <1>2 DEF Work

\* Counting brings the count nearer to m_maxEls, also on its way up to zero.
LEMMA CountingEnds ==
    ASSUME Inv, CollectorCounts
    PROVE  ToLimit' = ToLimit - 1
<1>1. /\ numEls \in 0 .. Wrap - 1 /\ numEls # MaxEls
      /\ numEls' = IF numEls = Wrap - 1 THEN 0 ELSE numEls + 1
      BY DEF Inv, TypeOK, CollectorCounts, Succ
<1>2. MaxEls \in Nat /\ Wrap \in Nat /\ MaxEls < Wrap
      BY ReleaseQueueAssumption
<1>3. CASE numEls = Wrap - 1
      BY <1>1, <1>2, <1>3 DEF ToLimit
<1>4. CASE numEls # Wrap - 1
      BY <1>1, <1>2, <1>4 DEF ToLimit
<1> QED BY <1>3, <1>4

LEMMA CollectorWorks ==
    ASSUME Inv, Inv', Collector, alive', Len(queue) > MaxEls
    PROVE  Work' = Work - 1
<1>1. /\ Len(queue) \in Nat /\ ToLimit \in Int /\ MaxEls \in Nat
      BY LenProperties, ReleaseQueueAssumption DEF Inv, TypeOK, ToLimit
<1>2. CASE CollectorWaits
      <2>1. collector' = "wait" /\ Len(queue') = Len(queue)
            BY <1>2 DEF CollectorWaits
      <2> QED BY <1>1, <2>1 DEF Inv, Collecting, IdleWithinLimit
<1>3. CASE CollectorCounts
      <2>1. /\ ToLimit' = ToLimit - 1 /\ queue' = queue
            /\ collector # "got" /\ collector' # "got"
            BY <1>3, CountingEnds DEF CollectorCounts, AtLock
      <2> QED BY <1>1, <2>1 DEF Work
<1>4. CASE CollectorGets
      <2>1. /\ ToLimit' = ToLimit /\ queue' = queue
            /\ collector # "got" /\ collector' = "got"
            BY <1>4 DEF CollectorGets, AtLock, ToLimit
      <2> QED BY <1>1, <2>1 DEF Work
<1>5. CASE CollectorReleases
      <2>1. /\ ToLimit' = ToLimit
            /\ collector = "got" /\ collector' # "got"
            BY <1>5 DEF CollectorReleases, ToLimit
      <2>2. queue # <<>> /\ queue' = SubSeq(queue, 1, Len(queue) - 1)
            BY <1>1, <1>5, <2>1, ReleaseHasEntry
            DEF Inv, Collecting, CollectorReleases, WithoutBack
      <2>3. Len(queue') = Len(queue) - 1
            BY <2>2, PopBack DEF Inv, TypeOK
      <2> QED BY <1>1, <2>1, <2>3 DEF Work
<1>6. CASE CollectorGetThrows \/ CollectorReleaseThrows
      BY <1>6 DEF CollectorGetThrows, CollectorReleaseThrows
<1> QED BY <1>2, <1>3, <1>4, <1>5, <1>6 DEF Collector

LEMMA OthersLeaveTheWork ==
    ASSUME Request \/ CollectorWakes
    PROVE  Work' = Work
<1>1. /\ queue' = queue /\ numEls' = numEls
      /\ collector' = "got" <=> collector = "got"
      BY DEF Request, Post, PostAnonymous, PostToManager, PostFails, Delete,
             Get, Put, CollectorWakes
<1> QED BY <1>1 DEF Work, ToLimit

\* garbageCollector never sleeps on a list that is too long, and no request
\* waits for it in vain; and what it does counts the distance of
\* m_releaseQueue from the limit down, step by step, however m_numEls has
\* wrapped.
THEOREM ListKeepsShrinking ==
    Spec => [](GoesOn /\ Work \in Nat) /\ [][Drains]_vars
<1>1. Inv => GoesOn
      <2> SUFFICES ASSUME Inv PROVE GoesOn
          OBVIOUS
      <2>1. Len(queue) \in Nat /\ MaxEls \in Nat
            BY LenProperties, ReleaseQueueAssumption DEF Inv, TypeOK
      <2> QED BY <2>1 DEF Inv, Collecting, IdleWithinLimit, GoesOn,
                          CollectorRuns, GarbageMtxFree
<1>2. Inv /\ [Next]_vars => [Drains]_vars
      BY InvStep, CollectorWorks, OthersLeaveTheWork DEF Drains
<1> QED BY <1>1, <1>2, WorkIsNatural, QueueInvariance, PTL DEF Spec

-----------------------------------------------------------------------------
(* What the collector takes *)

Listing(s) == {s[i] : i \in 1 .. Len(s)}

\* An element leaves memory, or its id the list, because it was deleted, or
\* because it is the oldest entry of a list that is too long; then nothing
\* else leaves the list.
TakesTheOldest ==
    \A id \in (loaded \ loaded') \cup (Listing(queue) \ Listing(queue')) :
       \/ id \notin exists'
       \/ Len(queue) > MaxEls /\ id = Back /\ queue' = WithoutBack(queue)

\* The entries of a list stay when an entry comes before them,
LEMMA PushLosesNothing ==
    ASSUME NEW S, NEW s \in Seq(S), NEW e \in S
    PROVE  Listing(s) \subseteq Listing(<<e>> \o s)
<1> DEFINE t == <<e>> \o s
<1>1. /\ Len(t) = Len(s) + 1 /\ Len(s) \in Nat
      /\ \A i \in 2 .. Len(s) + 1 : t[i] = s[i - 1]
      BY PushFront, LenProperties
<1> HIDE DEF t
<1>2. ASSUME NEW i \in 1 .. Len(s) PROVE s[i] \in Listing(t)
      <2>1. i + 1 \in 2 .. Len(s) + 1 /\ i + 1 \in 1 .. Len(t) /\ (i + 1) - 1 = i
            BY <1>1
      <2>2. t[i + 1] = s[i]
            BY <1>1, <2>1
      <2> QED BY <2>1, <2>2 DEF Listing
<1> QED BY <1>2 DEF Listing, t

\* and all but one when an id is removed,
LEMMA RemoveLosesOne ==
    ASSUME NEW S, NEW s \in Seq(S), NEW id
    PROVE  Listing(s) \ Listing(Remove(s, id)) \subseteq {id}
<1>1. CASE ~\E i \in 1 .. Len(s) : s[i] = id
      BY <1>1 DEF Remove
<1>2. CASE \E i \in 1 .. Len(s) : s[i] = id
      <2> DEFINE p == Position(s, id)
                 t == Remove(s, id)
      <2>1. /\ p \in 1 .. Len(s) /\ s[p] = id
            /\ Len(t) = Len(s) - 1
            /\ \A j \in 1 .. Len(s) - 1 :
                  /\ j < p => t[j] = s[j]
                  /\ ~(j < p) => t[j] = s[j + 1]
            <3>1. /\ Position(s, id) \in 1 .. Len(s)
                  /\ s[Position(s, id)] = id
                  /\ Len(Remove(s, id)) = Len(s) - 1
                  /\ \A j \in 1 .. Len(s) - 1 :
                        /\ j < Position(s, id) => Remove(s, id)[j] = s[j]
                        /\ ~(j < Position(s, id)) => Remove(s, id)[j] = s[j + 1]
                  BY <1>2, RemoveGap
            <3> QED BY <3>1 DEF p, t
      <2> HIDE DEF p, t
      <2>0. Len(s) \in Nat
            BY LenProperties
      <2>2. ASSUME NEW i \in 1 .. Len(s), s[i] # id
            PROVE  s[i] \in Listing(t)
            <3>1. i < p \/ p < i
                  BY <2>0, <2>1, <2>2
            <3>2. CASE i < p
                  <4>1. i \in 1 .. Len(t) /\ t[i] = s[i]
                        BY <2>0, <2>1, <3>2
                  <4> QED BY <4>1 DEF Listing
            <3>3. CASE p < i
                  <4>1. /\ i - 1 \in 1 .. Len(s) - 1 /\ ~(i - 1 < p)
                        /\ (i - 1) + 1 = i
                        BY <2>0, <2>1, <3>3
                  <4>2. i - 1 \in 1 .. Len(t) /\ t[i - 1] = s[i]
                        BY <2>1, <4>1
                  <4> QED BY <4>2 DEF Listing
            <3> QED BY <3>1, <3>2, <3>3
      <2> QED BY <2>2 DEF Listing, t
<1> QED BY <1>1, <1>2

\* or the last one is popped.
LEMMA PopLosesTheLast ==
    ASSUME NEW S, NEW s \in Seq(S), s # <<>>
    PROVE  Listing(s) \ Listing(WithoutBack(s)) \subseteq {s[Len(s)]}
<1> DEFINE t == WithoutBack(s)
<1>1. /\ Len(t) = Len(s) - 1 /\ Len(s) \in Nat
      /\ \A i \in 1 .. Len(s) - 1 : t[i] = s[i]
      BY PopBack, LenProperties DEF WithoutBack
<1> HIDE DEF t
<1>2. ASSUME NEW i \in 1 .. Len(s), i # Len(s) PROVE s[i] \in Listing(t)
      <2>1. i \in 1 .. Len(t) /\ t[i] = s[i]
            BY <1>1, <1>2
      <2> QED BY <2>1 DEF Listing
<1> QED BY <1>2 DEF Listing, t

\* However POST, DELETE and the collector take turns, the collector releases
\* and pops one and the same element, the one that was posted first, and only
\* from a list that is longer than m_maxEls; DELETE takes no id but its own.
THEOREM CollectorTakesTheOldest == Spec => [][TakesTheOldest]_vars
<1>1. Inv /\ [Next]_vars => [TakesTheOldest]_vars
      <2> SUFFICES ASSUME Inv, Next PROVE TakesTheOldest
          OBVIOUS
      <2>1. queue \in Seq(Entry)
            BY DEF Inv, TypeOK, Entry
      <2>2. CASE CollectorReleases
            <3>1. /\ loaded \ loaded' \subseteq {Back}
                  /\ queue' = WithoutBack(queue)
                  /\ MustRelease
                  BY <2>2 DEF CollectorReleases, Inv, Collecting
            <3>2. queue # <<>> /\ Len(queue) > MaxEls
                  <4>1. numEls < Len(queue) /\ queue # <<>>
                        BY <3>1, ReleaseHasEntry DEF Inv
                  <4> QED BY <3>1, <4>1 DEF MustRelease
            <3>3. Listing(queue) \ Listing(queue') \subseteq {Back}
                  BY <2>1, <3>1, <3>2, PopLosesTheLast DEF Back
            <3> QED BY <3>1, <3>2, <3>3 DEF TakesTheOldest
      <2>3. CASE Unlist
            <3>1. /\ loaded' = loaded /\ queue' = Remove(queue, subject)
                  /\ subject \notin exists'
                  BY <2>3 DEF Unlist, Inv, InHand
            <3>2. Listing(queue) \ Listing(queue') \subseteq {subject}
                  BY <2>1, <3>1, RemoveLosesOne
            <3> QED BY <3>1, <3>2 DEF TakesTheOldest
      <2>4. CASE Push
            <3>1. /\ loaded' = loaded /\ queue' = <<subject>> \o queue
                  /\ subject \in Entry
                  BY <2>4 DEF Push, Inv, TypeOK, Entry
            <3>2. Listing(queue) \subseteq Listing(queue')
                  BY <2>1, <3>1, PushLosesNothing
            <3> QED BY <3>1, <3>2 DEF TakesTheOldest
      <2>5. ASSUME NEW id \in Ids, Delete(id)
            PROVE  TakesTheOldest
            BY <2>5 DEF Delete, TakesTheOldest
      <2>6. ASSUME NEW id \in Ids, Post(id) \/ PostAnonymous(id)
                                   \/ PostFails(id) \/ Get(id) \/ Put(id)
            PROVE  TakesTheOldest
            BY <2>6 DEF Post, PostAnonymous, PostFails, Get, Put, TakesTheOldest
      <2>7. CASE \/ PostToManager \/ CollectorWakes \/ CollectorWaits
                 \/ CollectorCounts \/ CollectorGets \/ CollectorGetThrows
                 \/ CollectorReleaseThrows
            BY <2>7 DEF PostToManager, CollectorWakes, CollectorWaits,
                        CollectorCounts, CollectorGets, CollectorGetThrows,
                        CollectorReleaseThrows, TakesTheOldest
      <2> QED BY <2>2, <2>3, <2>4, <2>5, <2>6, <2>7
              DEF Next, Request, Bookkeeping, Collector
<1> QED BY <1>1, QueueInvariance, PTL DEF Spec
=============================================================================
