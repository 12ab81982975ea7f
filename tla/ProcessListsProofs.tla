-------------------------- MODULE ProcessListsProofs --------------------------
(* The linked-list helpers keep LinksOK, and what they return.  No lemma     *)
(* bounds the number of processes, lists or priorities.                      *)
EXTENDS ProcessLists, FiniteSetTheorems, SequenceTheorems, WellFoundedInduction, TLAPS

\* Links go from lower to higher ranks, so that no list is a cycle that
\* firstLink does not reach.
Ranks(h, rank) ==
    /\ rank \in [Proc -> Nat]
    /\ \A p \in Proc : h.nextLink[p] # Nil => rank[p] < rank[h.nextLink[p]]

Acyclic(h) == \E rank : Ranks(h, rank)

\* A heap whose slots are typed and whose lists are linked properly.
GoodHeap(h) == h \in Heap /\ LinksOK(h) /\ Acyclic(h)

USE NilAssumption

\* addLastLinkToList keeps the lists linked if the process is on no list.
LEMMA AddLastKeepsLinks ==
    ASSUME NEW h, GoodHeap(h), NEW p \in Proc, NEW l \in List, h.myList[p] = Nil
    PROVE  LET g == AddLastLinkToList(h, p, l)
           IN  /\ GoodHeap(g)
               /\ g.myList = [h.myList EXCEPT ![p] = l]
               /\ g.savedContext = h.savedContext
               /\ g.active = h.active
<1> DEFINE g == AddLastLinkToList(h, p, l)
<1> USE DEF GoodHeap
<1>1. /\ h.nextLink \in [Proc -> Proc \union {Nil}]
      /\ h.myList \in [Proc -> List \union {Nil}]
      /\ h.firstLink \in [List -> Proc \union {Nil}]
      /\ h.lastLink \in [List -> Proc \union {Nil}]
      /\ h.savedContext \in SUBSET Proc
      /\ h.active \in Proc
  BY DEF Heap
<1>2. /\ g.nextLink = IF h.firstLink[l] = Nil
                      THEN [h.nextLink EXCEPT ![p] = Nil]
                      ELSE [h.nextLink EXCEPT ![p] = Nil, ![h.lastLink[l]] = p]
      /\ g.myList = [h.myList EXCEPT ![p] = l]
      /\ g.firstLink = [h.firstLink EXCEPT ![l] = IF @ = Nil THEN p ELSE @]
      /\ g.lastLink = [h.lastLink EXCEPT ![l] = p]
      /\ g.savedContext = h.savedContext
      /\ g.active = h.active
  BY DEF AddLastLinkToList, IsEmptyList, Heap
<1>3. g \in Heap
  BY <1>1, <1>2 DEF AddLastLinkToList, IsEmptyList, Heap
<1> HIDE DEF g
<1>4. LinksOK(g)
  <2> USE <1>1, <1>2
  <2>1. EmptyListsAgree(g)
    BY DEF LinksOK, EmptyListsAgree
  <2>2. EndsAreOnTheList(g)
    BY DEF LinksOK, EmptyListsAgree, EndsAreOnTheList
  <2>3. OffListUnlinked(g)
    BY DEF LinksOK, EmptyListsAgree, EndsAreOnTheList, OffListUnlinked
  <2>4. LinksStayOnTheList(g)
    BY DEF LinksOK, EmptyListsAgree, EndsAreOnTheList, OffListUnlinked, LinksStayOnTheList
  <2>5. NoSharedLinks(g)
    BY DEF LinksOK, EmptyListsAgree, EndsAreOnTheList, OffListUnlinked,
           LinksStayOnTheList, NoSharedLinks
  <2>6. OnlyLastEnds(g)
    BY DEF LinksOK, EmptyListsAgree, EndsAreOnTheList, OnlyLastEnds
  <2>7. NonfirstIsLinked(g)
    BY DEF LinksOK, EmptyListsAgree, EndsAreOnTheList, OffListUnlinked, NonfirstIsLinked
  <2> QED
    BY <2>1, <2>2, <2>3, <2>4, <2>5, <2>6, <2>7 DEF LinksOK
<1>5. Acyclic(g)
  <2>1. PICK rank : Ranks(h, rank)
    BY DEF Acyclic
  <2> DEFINE new == IF h.firstLink[l] = Nil THEN rank
                    ELSE [rank EXCEPT ![p] = rank[h.lastLink[l]] + 1]
  <2>2. \A q \in Proc : h.nextLink[q] # p
    BY <1>1 DEF LinksOK, OffListUnlinked, LinksStayOnTheList
  <2>3. h.firstLink[l] # Nil =>
           h.lastLink[l] \in Proc /\ h.lastLink[l] # p /\ h.nextLink[h.lastLink[l]] = Nil
    BY <1>1 DEF LinksOK, EmptyListsAgree, EndsAreOnTheList
  <2>4. Ranks(g, new)
    BY <1>1, <1>2, <2>1, <2>2, <2>3 DEF Ranks
  <2> QED
    BY <2>4 DEF Acyclic
<1> QED
  BY <1>2, <1>3, <1>4, <1>5 DEF g

\* removeFirstLinkOfList keeps the lists linked and takes exactly the first
\* link, a process of that list, off it.
LEMMA RemoveFirstKeepsLinks ==
    ASSUME NEW h, GoodHeap(h), NEW l \in List, ~IsEmptyList(h, l)
    PROVE  LET g == RemoveFirstLinkOfList(h, l)
               first == h.firstLink[l]
           IN  /\ GoodHeap(g)
               /\ first \in Proc
               /\ h.myList[first] = l
               /\ g.myList = [h.myList EXCEPT ![first] = Nil]
               /\ g.savedContext = h.savedContext
               /\ g.active = h.active
<1> DEFINE g == RemoveFirstLinkOfList(h, l)
           f == h.firstLink[l]
<1> USE DEF GoodHeap
<1>1. /\ h.nextLink \in [Proc -> Proc \union {Nil}]
      /\ h.myList \in [Proc -> List \union {Nil}]
      /\ h.firstLink \in [List -> Proc \union {Nil}]
      /\ h.lastLink \in [List -> Proc \union {Nil}]
      /\ h.savedContext \in SUBSET Proc
      /\ h.active \in Proc
  BY DEF Heap
<1>2. f \in Proc /\ h.myList[f] = l
  BY <1>1 DEF IsEmptyList, LinksOK, EndsAreOnTheList
<1>3. /\ g.nextLink = [h.nextLink EXCEPT ![f] = Nil]
      /\ g.myList = [h.myList EXCEPT ![f] = Nil]
      /\ g.firstLink = [h.firstLink EXCEPT ![l] =
                           IF f = h.lastLink[l] THEN Nil ELSE h.nextLink[f]]
      /\ g.lastLink = [h.lastLink EXCEPT ![l] = IF f = h.lastLink[l] THEN Nil ELSE @]
      /\ g.savedContext = h.savedContext
      /\ g.active = h.active
  BY <1>1, <1>2 DEF RemoveFirstLinkOfList, Heap
<1>4. g \in Heap
  BY <1>1, <1>2, <1>3 DEF RemoveFirstLinkOfList, Heap
<1> HIDE DEF g
<1>5. LinksOK(g)
  <2> USE <1>1, <1>2, <1>3
  <2>0. f # h.lastLink[l] => h.nextLink[f] \in Proc
    BY DEF LinksOK, OnlyLastEnds
  <2>1. EmptyListsAgree(g)
    BY <2>0 DEF LinksOK, EmptyListsAgree
  <2>2. EndsAreOnTheList(g)
    BY <2>0 DEF LinksOK, EmptyListsAgree, EndsAreOnTheList, LinksStayOnTheList, NoSharedLinks
  <2>3. OffListUnlinked(g)
    BY DEF LinksOK, OffListUnlinked
  <2>4. LinksStayOnTheList(g)
    BY <2>0 DEF LinksOK, EndsAreOnTheList, OffListUnlinked, LinksStayOnTheList, NoSharedLinks
  <2>5. NoSharedLinks(g)
    BY DEF LinksOK, NoSharedLinks
  <2>6. OnlyLastEnds(g)
    <3> SUFFICES ASSUME NEW p \in Proc, g.myList[p] # Nil, g.nextLink[p] = Nil
                 PROVE  p = g.lastLink[g.myList[p]]
      BY DEF OnlyLastEnds
    <3>1. p # f /\ h.myList[p] # Nil /\ h.nextLink[p] = Nil
      OBVIOUS
    <3>2. p = h.lastLink[h.myList[p]]
      BY <3>1 DEF LinksOK, OnlyLastEnds
    <3> QED
      BY <3>1, <3>2
  <2>7. NonfirstIsLinked(g)
    <3> SUFFICES ASSUME NEW p \in Proc, g.myList[p] # Nil, p # g.firstLink[g.myList[p]]
                 PROVE  \E q \in Proc : g.nextLink[q] = p
      BY DEF NonfirstIsLinked
    <3>1. p # f /\ h.myList[p] # Nil /\ h.myList[p] \in List /\ g.myList[p] = h.myList[p]
      OBVIOUS
    <3>2. p # h.firstLink[h.myList[p]]
      BY <3>1
    <3>3. PICK q \in Proc : h.nextLink[q] = p
      BY <3>1, <3>2 DEF LinksOK, NonfirstIsLinked
    <3>4. q # f
      BY <3>1, <3>3, <2>0 DEF LinksOK, LinksStayOnTheList, EndsAreOnTheList
    <3> QED
      BY <3>3, <3>4
  <2> QED
    BY <2>1, <2>2, <2>3, <2>4, <2>5, <2>6, <2>7 DEF LinksOK
<1>6. Acyclic(g)
  BY <1>1, <1>2, <1>3 DEF Acyclic, Ranks
<1> QED
  BY <1>2, <1>3, <1>4, <1>5, <1>6 DEF g

\* removeProcessFromList takes a process off the list it is on, wherever it
\* stands, and keeps the lists linked.
LEMMA RemoveProcessKeepsLinks ==
    ASSUME NEW h, GoodHeap(h), NEW p \in Proc, h.myList[p] # Nil
    PROVE  LET g == RemoveProcessFromList(h, p, h.myList[p])
           IN  /\ GoodHeap(g)
               /\ g.myList = [h.myList EXCEPT ![p] = Nil]
               /\ g.savedContext = h.savedContext
               /\ g.active = h.active
<1> DEFINE l == h.myList[p]
           g == RemoveProcessFromList(h, p, l)
<1> USE DEF GoodHeap
<1>1. /\ h.nextLink \in [Proc -> Proc \union {Nil}]
      /\ h.myList \in [Proc -> List \union {Nil}]
      /\ h.firstLink \in [List -> Proc \union {Nil}]
      /\ h.lastLink \in [List -> Proc \union {Nil}]
      /\ h.savedContext \in SUBSET Proc
      /\ h.active \in Proc
      /\ l \in List
  BY DEF Heap
<1>2. CASE h.firstLink[l] = p
  BY <1>1, <1>2, RemoveFirstKeepsLinks DEF RemoveProcessFromList, IsEmptyList
<1>3. CASE h.firstLink[l] # p
  <2> DEFINE prev == CHOOSE q \in Proc : h.nextLink[q] = p
  <2>1. \E q \in Proc : h.nextLink[q] = p
    BY <1>1, <1>3 DEF LinksOK, NonfirstIsLinked
  <2>2. prev \in Proc /\ h.nextLink[prev] = p
    BY <2>1
  <2> HIDE DEF prev
  <2>3. prev # p /\ h.myList[prev] = l
    BY <1>1, <2>2 DEF LinksOK, LinksStayOnTheList, Acyclic, Ranks
  <2>4. /\ g.nextLink = [h.nextLink EXCEPT ![prev] = h.nextLink[p], ![p] = Nil]
        /\ g.myList = [h.myList EXCEPT ![p] = Nil]
        /\ g.firstLink = h.firstLink
        /\ g.lastLink = [h.lastLink EXCEPT ![l] = IF @ = p THEN prev ELSE @]
        /\ g.savedContext = h.savedContext
        /\ g.active = h.active
        /\ g \in Heap
    BY <1>1, <1>3, <2>1, <2>2, <2>3 DEF RemoveProcessFromList, Heap, prev
  <2> HIDE DEF g, l
  <2>5. LinksOK(g)
    <3> USE <1>1, <1>3, <2>2, <2>3, <2>4
    <3>1. EmptyListsAgree(g)
      BY DEF LinksOK, EmptyListsAgree
    <3>2. EndsAreOnTheList(g)
      BY DEF LinksOK, EmptyListsAgree, EndsAreOnTheList, l
    <3>3. OffListUnlinked(g)
      BY DEF LinksOK, OffListUnlinked
    <3>4. LinksStayOnTheList(g)
      BY DEF LinksOK, EndsAreOnTheList, OffListUnlinked, LinksStayOnTheList, NoSharedLinks, l
    <3>5. NoSharedLinks(g)
      BY DEF LinksOK, NoSharedLinks
    <3>6. OnlyLastEnds(g)
      BY DEF LinksOK, OnlyLastEnds, NoSharedLinks, l
    <3>7. NonfirstIsLinked(g)
      <4> SUFFICES ASSUME NEW r \in Proc, g.myList[r] # Nil, r # g.firstLink[g.myList[r]]
                   PROVE  \E q \in Proc : g.nextLink[q] = r
        BY DEF NonfirstIsLinked
      <4>1. r # p /\ g.myList[r] = h.myList[r]
        OBVIOUS
      <4>2. PICK q \in Proc : h.nextLink[q] = r
        BY <4>1 DEF LinksOK, NonfirstIsLinked
      <4>3. CASE q = p
        BY <4>1, <4>2, <4>3
      <4>4. CASE q # p
        BY <4>1, <4>2, <4>4
      <4> QED
        BY <4>3, <4>4
    <3> QED
      BY <3>1, <3>2, <3>3, <3>4, <3>5, <3>6, <3>7 DEF LinksOK
  <2>6. Acyclic(g)
    <3>1. PICK rank : Ranks(h, rank)
      BY DEF Acyclic
    <3>2. Ranks(g, rank)
      <4>1. rank \in [Proc -> Nat]
        BY <3>1 DEF Ranks
      <4>2. ASSUME NEW q \in Proc, g.nextLink[q] # Nil
            PROVE  rank[q] < rank[g.nextLink[q]]
        <5>1. CASE q = prev
          BY <1>1, <2>2, <2>3, <2>4, <3>1, <4>1, <4>2, <5>1 DEF Ranks
        <5>2. CASE q # prev
          BY <1>1, <2>2, <2>3, <2>4, <3>1, <4>1, <4>2, <5>2 DEF Ranks
        <5> QED
          BY <5>1, <5>2
      <4> QED
        BY <4>1, <4>2 DEF Ranks
    <3> QED
      BY <3>2 DEF Acyclic
  <2> QED
    BY <2>4, <2>5, <2>6 DEF g, l
<1> QED
  BY <1>2, <1>3

\* A list is empty exactly when it is nobody's myList.
LEMMA EmptyIffNobody ==
    ASSUME NEW h, GoodHeap(h), NEW l \in List
    PROVE  IsEmptyList(h, l) <=> \A p \in Proc : h.myList[p] # l
<1> USE DEF GoodHeap
<1>1. /\ h.nextLink \in [Proc -> Proc \union {Nil}]
      /\ h.myList \in [Proc -> List \union {Nil}]
      /\ h.firstLink \in [List -> Proc \union {Nil}]
  BY DEF Heap
<1>2. ASSUME ~IsEmptyList(h, l) PROVE \E p \in Proc : h.myList[p] = l
  BY <1>1, <1>2 DEF IsEmptyList, LinksOK, EndsAreOnTheList
<1>3. ASSUME NEW p \in Proc, h.myList[p] = l PROVE ~IsEmptyList(h, l)
  <2>1. PICK rank : Ranks(h, rank)
    BY DEF Acyclic
  <2> DEFINE on == {q \in Proc : h.myList[q] = l}
             T == {rank[q] : q \in on}
  <2>2. T \subseteq Nat /\ T # {}
    BY <1>3, <2>1 DEF Ranks
  <2>3. PICK n \in T : \A m \in T : ~(m < n)
    <3> HIDE DEF T
    <3>1. PICK n \in T : \A m \in T : ~(<<m, n>> \in OpToRel(<, Nat))
      BY <2>2, NatLessThanWellFounded, WFMin
    <3> QED
      BY <2>2, <3>1 DEF OpToRel
  <2>4. PICK q \in on : n = rank[q]
    OBVIOUS
  <2>5. q = h.firstLink[l]
    <3> SUFFICES ASSUME q # h.firstLink[l] PROVE FALSE
      OBVIOUS
    <3>1. PICK r \in Proc : h.nextLink[r] = q
      BY <2>4, <1>1 DEF LinksOK, NonfirstIsLinked
    <3>2. r \in on /\ rank[r] < rank[q]
      BY <3>1, <2>1, <1>1 DEF LinksOK, LinksStayOnTheList, Ranks
    <3> QED
      BY <3>2, <2>3, <2>4
  <2> QED
    BY <2>5 DEF IsEmptyList
<1> QED
  BY <1>2, <1>3

-----------------------------------------------------------------------------
(* Choosing a queue *)

\* wakeHighestPriority's and checkForPreemption's scans end: they look for an
\* extreme of a set of numbers.
LEMMA NaturalsHaveMinimum ==
    ASSUME NEW T, T \subseteq Nat, T # {}
    PROVE  \E n \in T : \A m \in T : n <= m
<1>1. PICK n \in T : \A m \in T : ~(<<m, n>> \in OpToRel(<, Nat))
  BY NatLessThanWellFounded, WFMin
<1>2. \A m \in T : ~(m < n)
  BY <1>1 DEF OpToRel
<1> QED
  BY <1>2

\* A nonempty set of priorities has a highest and a lowest member.
LEMMA ExtremesExist ==
    ASSUME NEW S, S \subseteq Priorities, S # {}
    PROVE  Highest(S) \in S /\ Lowest(S) \in S
<1>0. NumPriorities \in Nat /\ S \subseteq Nat /\ \A i \in S : i <= NumPriorities
  BY PriorityAssumption DEF Priorities
<1>1. Lowest(S) \in S
  <2>1. \E n \in S : \A m \in S : n <= m
    BY <1>0, NaturalsHaveMinimum
  <2> QED
    BY <2>1 DEF Lowest
<1>2. Highest(S) \in S
  <2> DEFINE T == {NumPriorities - i : i \in S}
  <2>0. \A i \in S : NumPriorities - i \in Nat
    BY <1>0
  <2>1. T \subseteq Nat /\ T # {}
    BY <2>0
  <2>2. PICK n \in T : \A m \in T : n <= m
    <3> HIDE DEF T
    <3> QED
      BY <2>1, NaturalsHaveMinimum
  <2>3. PICK i \in S : n = NumPriorities - i
    OBVIOUS
  <2>4. \A j \in S : j <= i
    <3> TAKE j \in S
    <3>1. NumPriorities - i <= NumPriorities - j
      BY <2>2, <2>3
    <3> QED
      BY <3>1, <1>0
  <2> QED
    BY <2>4 DEF Highest
<1> QED
  BY <1>1, <1>2

\* What wakeHighestPriority finds is a ready queue with a first link.
LEMMA ReadyPrioritiesAreLists ==
    /\ \A h : ReadyPriorities(h) \subseteq Priorities
    /\ \A h : \A i \in ReadyPriorities(h) : i \in List /\ ~IsEmptyList(h, i)
    /\ \A p \in Proc : Priority[p] \in Priorities /\ Priority[p] \in List
BY PriorityAssumption DEF ReadyPriorities, List

-----------------------------------------------------------------------------
(* Switching processes *)

\* Whoever is on a list, the running process apart, has a context to run.
ListedSaved(h) ==
    \A p \in Proc : p # h.active /\ h.myList[p] # Nil => p \in h.savedContext

\* A heap between two steps: the running process is on no list.
Schedulable(h) == GoodHeap(h) /\ ListedSaved(h) /\ h.myList[h.active] = Nil

\* putToSleep adds a process that is on no list to its priority's queue.
LEMMA PutToSleepKeepsLinks ==
    ASSUME NEW h, GoodHeap(h), NEW p \in Proc, h.myList[p] = Nil
    PROVE  LET g == PutToSleep(h, p)
           IN  /\ GoodHeap(g)
               /\ g.myList = [h.myList EXCEPT ![p] = Priority[p]]
               /\ g.savedContext = h.savedContext
               /\ g.active = h.active
<1> DEFINE l == Priority[p]
           g == AddLastLinkToList(h, p, l)
<1>1. l \in List
  BY ReadyPrioritiesAreLists
<1> HIDE DEF l
<1>2. /\ GoodHeap(g)
      /\ g.myList = [h.myList EXCEPT ![p] = l]
      /\ g.savedContext = h.savedContext
      /\ g.active = h.active
  BY <1>1, AddLastKeepsLinks
<1> QED
  BY <1>2 DEF PutToSleep, l

\* transferTo touches no list: it exchanges contexts and the active process.
LEMMA TransferKeepsLists ==
    ASSUME NEW h, GoodHeap(h), NEW p \in Proc
    PROVE  LET g == TransferTo(h, p)
           IN  /\ GoodHeap(g)
               /\ g.myList = h.myList
               /\ g.active = p
               /\ g.savedContext = IF p = h.active THEN h.savedContext
                                   ELSE (h.savedContext \union {h.active}) \ {p}
<1> DEFINE g == TransferTo(h, p)
<1>1. h \in Heap
  BY DEF GoodHeap
<1>2. /\ g \in Heap
      /\ g.nextLink = h.nextLink /\ g.myList = h.myList
      /\ g.firstLink = h.firstLink /\ g.lastLink = h.lastLink
      /\ g.active = p
      /\ g.savedContext = IF p = h.active THEN h.savedContext
                          ELSE (h.savedContext \union {h.active}) \ {p}
  BY <1>1 DEF TransferTo, Heap
<1> HIDE DEF g
<1>3. LinksOK(g)
  BY <1>2 DEF GoodHeap, LinksOK, EmptyListsAgree, EndsAreOnTheList, OffListUnlinked,
              LinksStayOnTheList, NoSharedLinks, OnlyLastEnds, NonfirstIsLinked
<1>4. Acyclic(g)
  BY <1>2 DEF GoodHeap, Acyclic, Ranks
<1> QED
  BY <1>2, <1>3, <1>4 DEF GoodHeap, g

\* Running the head of a queue: it alone leaves its list, and the process
\* that ran keeps its context wherever it was put.
LEMMA SwitchToHead ==
    ASSUME NEW h, GoodHeap(h), ListedSaved(h), NEW i \in ReadyPriorities(h)
    PROVE  LET g == SwitchToHeadOf(h, i)
               f == h.firstLink[i]
           IN  /\ Schedulable(g)
               /\ f \in Proc /\ h.myList[f] = i
               /\ g.active = f
               /\ g.myList = [h.myList EXCEPT ![f] = Nil]
<1> DEFINE f == h.firstLink[i]
           r == RemoveFirstLinkOfList(h, i)
           g == TransferTo(r, f)
<1>1. i \in List /\ ~IsEmptyList(h, i)
  BY ReadyPrioritiesAreLists
<1>2. /\ GoodHeap(r) /\ f \in Proc /\ h.myList[f] = i
      /\ r.myList = [h.myList EXCEPT ![f] = Nil]
      /\ r.savedContext = h.savedContext /\ r.active = h.active
  BY <1>1, RemoveFirstKeepsLinks
<1>3. /\ GoodHeap(g) /\ g.myList = r.myList /\ g.active = f
      /\ g.savedContext = IF f = r.active THEN r.savedContext
                          ELSE (r.savedContext \union {r.active}) \ {f}
  BY <1>2, TransferKeepsLists
<1>4. h.myList \in [Proc -> List \union {Nil}] /\ h.active \in Proc
  BY DEF GoodHeap, Heap
<1> HIDE DEF r, g, f
<1>5. g.myList[g.active] = Nil
  BY <1>2, <1>3, <1>4
<1>6. ListedSaved(g)
  BY <1>2, <1>3, <1>4 DEF ListedSaved
<1> QED
  BY <1>2, <1>3, <1>5, <1>6 DEF Schedulable, SwitchToHeadOf, r, g, f

\* Preemption by the head of a queue: the two processes change places.
LEMMA PreemptByHead ==
    ASSUME NEW h, Schedulable(h), NEW i \in ReadyPriorities(h)
    PROVE  LET g == PreemptByHeadOf(h, i)
               f == h.firstLink[i]
           IN  /\ Schedulable(g)
               /\ f \in Proc /\ h.myList[f] = i
               /\ g.active = f
               /\ g.myList = [h.myList EXCEPT ![f] = Nil, ![h.active] = Priority[h.active]]
<1> DEFINE f == h.firstLink[i]
           r == RemoveFirstLinkOfList(h, i)
           s == PutToSleep(r, h.active)
           g == TransferTo(s, f)
<1>1. i \in List /\ ~IsEmptyList(h, i)
  BY ReadyPrioritiesAreLists
<1>2. /\ GoodHeap(r) /\ f \in Proc /\ h.myList[f] = i
      /\ r.myList = [h.myList EXCEPT ![f] = Nil]
      /\ r.savedContext = h.savedContext /\ r.active = h.active
  BY <1>1, RemoveFirstKeepsLinks DEF Schedulable
<1>3. h.myList \in [Proc -> List \union {Nil}] /\ h.active \in Proc /\ i # Nil
  BY <1>1 DEF Schedulable, GoodHeap, Heap
<1>4. f # h.active /\ r.myList[h.active] = Nil
  BY <1>2, <1>3 DEF Schedulable
<1> HIDE DEF r, f
<1>5. /\ GoodHeap(s) /\ s.savedContext = r.savedContext /\ s.active = r.active
      /\ s.myList = [r.myList EXCEPT ![h.active] = Priority[h.active]]
  BY <1>2, <1>3, <1>4, PutToSleepKeepsLinks
<1> HIDE DEF s
<1>a. f # s.active /\ GoodHeap(s) /\ f \in Proc
  BY <1>2, <1>4, <1>5
<1>6. /\ GoodHeap(g) /\ g.myList = s.myList /\ g.active = f
      /\ g.savedContext = (s.savedContext \union {s.active}) \ {f}
  BY <1>a, TransferKeepsLists
<1> HIDE DEF g
<1>7. g.myList[g.active] = Nil
  <2>1. r.myList[f] = Nil /\ r.myList \in [Proc -> List \union {Nil}]
    BY <1>2, <1>3
  <2>2. s.myList[f] = Nil
    BY <1>2, <1>4, <1>5, <2>1
  <2> QED
    BY <1>6, <2>2
<1>8. ASSUME NEW q \in Proc, q # g.active, g.myList[q] # Nil PROVE q \in g.savedContext
  <2>1. CASE q = h.active
    BY <1>2, <1>4, <1>5, <1>6, <1>8, <2>1
  <2>2. CASE q # h.active
    <3>1. h.myList[q] # Nil
      BY <1>2, <1>3, <1>4, <1>5, <1>6, <1>8, <2>2
    <3>2. q \in h.savedContext
      BY <2>2, <3>1 DEF Schedulable, ListedSaved
    <3>3. q \in s.savedContext /\ q # f
      BY <1>2, <1>5, <1>6, <1>8, <3>2
    <3> QED
      BY <1>6, <3>3
  <2> QED
    BY <2>1, <2>2
<1> QED
  BY <1>2, <1>5, <1>6, <1>7, <1>8 DEF Schedulable, ListedSaved, PreemptByHeadOf, r, s, g, f

\* Resuming a process that is on no list: it runs in place of the running
\* process, which becomes ready, or it becomes ready itself.
LEMMA ResumeOffList ==
    ASSUME NEW h, Schedulable(h), NEW p \in Proc, h.myList[p] = Nil, p # h.active,
           p \in h.savedContext
    PROVE  LET g == ResumeProcess(h, p)
           IN  /\ Schedulable(g)
               /\ \/ /\ g.active = p
                     /\ g.myList = [h.myList EXCEPT ![h.active] = Priority[h.active]]
                  \/ /\ g.active = h.active
                     /\ g.myList = [h.myList EXCEPT ![p] = Priority[p]]
<1> DEFINE g == ResumeProcess(h, p)
<1>1. h.myList \in [Proc -> List \union {Nil}] /\ h.active \in Proc /\ GoodHeap(h)
      /\ h.myList[h.active] = Nil
  BY DEF Schedulable, GoodHeap, Heap
<1>2. CASE Priority[p] > Priority[h.active]
  <2> DEFINE s == PutToSleep(h, h.active)
             t == TransferTo(s, p)
  <2>1. /\ GoodHeap(s) /\ s.savedContext = h.savedContext /\ s.active = h.active
        /\ s.myList = [h.myList EXCEPT ![h.active] = Priority[h.active]]
    BY <1>1, PutToSleepKeepsLinks
  <2> HIDE DEF s
  <2>a. p # s.active
    BY <2>1
  <2>2. /\ GoodHeap(t) /\ t.myList = s.myList /\ t.active = p
        /\ t.savedContext = (s.savedContext \union {s.active}) \ {p}
    BY <2>1, <2>a, TransferKeepsLists
  <2> HIDE DEF t
  <2>3. ASSUME NEW q \in Proc, q # t.active, t.myList[q] # Nil PROVE q \in t.savedContext
    <3>1. q # h.active => h.myList[q] # Nil
      BY <1>1, <2>1, <2>2, <2>3
    <3>2. q # h.active => q \in h.savedContext
      BY <3>1 DEF Schedulable, ListedSaved
    <3> QED
      BY <2>1, <2>2, <2>3, <3>2
  <2>4. t.myList[t.active] = Nil
    BY <1>1, <2>1, <2>2
  <2>5. Schedulable(t)
    BY <2>2, <2>3, <2>4 DEF Schedulable, ListedSaved
  <2> QED
    BY <1>2, <2>1, <2>2, <2>5 DEF ResumeProcess, s, t
<1>3. CASE ~(Priority[p] > Priority[h.active])
  <2> DEFINE s == PutToSleep(h, p)
  <2>1. /\ GoodHeap(s) /\ s.savedContext = h.savedContext /\ s.active = h.active
        /\ s.myList = [h.myList EXCEPT ![p] = Priority[p]]
    BY <1>1, PutToSleepKeepsLinks
  <2> HIDE DEF s
  <2>2. Schedulable(s)
    BY <1>1, <2>1 DEF Schedulable, ListedSaved
  <2> QED
    BY <1>3, <2>1, <2>2 DEF ResumeProcess, s
<1> QED
  BY <1>2, <1>3

-----------------------------------------------------------------------------
(* Where processes are before and after.  Most of what the scheduler does    *)
(* only rearranges the runnable processes: those on the ready queues and the *)
(* one that runs.                                                            *)

Runnable(h, p) == p = h.active \/ h.myList[p] \in Priorities

KeepsPlace(h, g, p) ==
    \/ g.myList[p] = h.myList[p] /\ (p = g.active <=> p = h.active)
    \/ Runnable(h, p) /\ Runnable(g, p)

\* g is a heap between two steps in which only the processes of S may have
\* changed between runnable, waiting on a certain list, and on no list.
OnlyMoves(h, g, S) ==
    /\ Schedulable(g)
    /\ \A p \in Proc : p \notin S => KeepsPlace(h, g, p)

\* A rearrangement after a move is still that move.
LEMMA OnlyMovesComposes ==
    ASSUME NEW h, NEW g, NEW k, NEW S, OnlyMoves(h, g, S), OnlyMoves(g, k, {})
    PROVE  OnlyMoves(h, k, S)
BY DEF OnlyMoves, KeepsPlace, Runnable

\* What the proofs below use of a heap between two steps.
LEMMA SchedulableTypes ==
    ASSUME NEW h, Schedulable(h)
    PROVE  /\ GoodHeap(h) /\ ListedSaved(h)
           /\ h.myList \in [Proc -> List \union {Nil}]
           /\ h.active \in Proc
           /\ h.savedContext \subseteq Proc
           /\ h.myList[h.active] = Nil
           /\ Nil \notin Priorities
BY DEF Schedulable, GoodHeap, Heap, List

\* Preemption by the head of a ready queue only rearranges the runnable.
LEMMA PreemptionRearranges ==
    ASSUME NEW h, Schedulable(h), NEW i \in ReadyPriorities(h)
    PROVE  OnlyMoves(h, PreemptByHeadOf(h, i), {})
<1> DEFINE g == PreemptByHeadOf(h, i)
           f == h.firstLink[i]
<1>1. /\ Schedulable(g) /\ f \in Proc /\ h.myList[f] = i /\ g.active = f
      /\ g.myList = [h.myList EXCEPT ![f] = Nil, ![h.active] = Priority[h.active]]
  BY PreemptByHead
<1>2. i \in Priorities /\ Priority[h.active] \in Priorities
  BY SchedulableTypes, ReadyPrioritiesAreLists
<1> HIDE DEF g, f
<1>3. ASSUME NEW p \in Proc PROVE KeepsPlace(h, g, p)
  <2>1. CASE p = f
    BY <1>1, <1>2, <2>1 DEF KeepsPlace, Runnable
  <2>2. CASE p = h.active /\ p # f
    BY <1>1, <1>2, <2>2, SchedulableTypes DEF KeepsPlace, Runnable
  <2>3. CASE p # h.active /\ p # f
    BY <1>1, <1>2, <2>3, SchedulableTypes DEF KeepsPlace, Runnable
  <2> QED
    BY <2>1, <2>2, <2>3
<1> QED
  BY <1>1, <1>3 DEF OnlyMoves, g

\* The running process goes to the back of list l and the highest runs.
LEMMA LeaveForList ==
    ASSUME NEW h, Schedulable(h), NEW l \in List,
           ReadyPriorities(AddLastLinkToList(h, h.active, l)) # {}
    PROVE  LET g == TransferToHighestPriority(AddLastLinkToList(h, h.active, l))
           IN  /\ OnlyMoves(h, g, {h.active})
               /\ l \in Priorities => OnlyMoves(h, g, {})
               /\ l \notin Priorities => g.myList[h.active] = l /\ g.active # h.active
<1> DEFINE w == AddLastLinkToList(h, h.active, l)
           i == Highest(ReadyPriorities(w))
           f == w.firstLink[i]
           g == SwitchToHeadOf(w, i)
<1>0. /\ h.myList \in [Proc -> List \union {Nil}] /\ h.active \in Proc
      /\ GoodHeap(h) /\ ListedSaved(h) /\ h.myList[h.active] = Nil
  BY SchedulableTypes
<1>1. /\ GoodHeap(w) /\ w.myList = [h.myList EXCEPT ![h.active] = l]
      /\ w.savedContext = h.savedContext /\ w.active = h.active
  BY <1>0, AddLastKeepsLinks
<1>2. i \in ReadyPriorities(w) /\ i \in Priorities
  BY ReadyPrioritiesAreLists, ExtremesExist
<1>3. g = TransferToHighestPriority(w)
  BY DEF TransferToHighestPriority
<1> HIDE DEF w, i
<1>4. ListedSaved(w)
  BY <1>0, <1>1 DEF ListedSaved
<1>a. GoodHeap(w) /\ ListedSaved(w) /\ i \in ReadyPriorities(w)
  BY <1>1, <1>2, <1>4
<1>5. /\ Schedulable(g) /\ f \in Proc /\ w.myList[f] = i /\ g.active = f
      /\ g.myList = [w.myList EXCEPT ![f] = Nil]
  BY <1>a, SwitchToHead
<1> HIDE DEF f, g
<1>6. ASSUME NEW p \in Proc, p # h.active PROVE KeepsPlace(h, g, p)
  <2>1. CASE p = f
    BY <1>0, <1>1, <1>2, <1>5, <1>6, <2>1 DEF KeepsPlace, Runnable
  <2>2. CASE p # f
    <3>1. g.myList[p] = h.myList[p]
      BY <1>0, <1>1, <1>5, <1>6, <2>2
    <3> QED
      BY <1>5, <1>6, <2>2, <3>1 DEF KeepsPlace
  <2> QED
    BY <2>1, <2>2
<1>7. l \in Priorities => KeepsPlace(h, g, h.active)
  BY <1>0, <1>1, <1>2, <1>5 DEF KeepsPlace, Runnable
<1>8. l \notin Priorities => g.myList[h.active] = l /\ g.active # h.active
  BY <1>0, <1>1, <1>2, <1>5
<1> QED
  BY <1>3, <1>5, <1>6, <1>7, <1>8 DEF OnlyMoves, w

\* The running process goes nowhere and the highest runs.
LEMMA LeaveForNothing ==
    ASSUME NEW h, Schedulable(h), ReadyPriorities(h) # {}
    PROVE  LET g == TransferToHighestPriority(h)
           IN  /\ OnlyMoves(h, g, {h.active})
               /\ g.myList[h.active] = Nil
               /\ g.active # h.active
<1> DEFINE i == Highest(ReadyPriorities(h))
           f == h.firstLink[i]
           g == SwitchToHeadOf(h, i)
<1>0. /\ h.myList \in [Proc -> List \union {Nil}] /\ h.active \in Proc
      /\ GoodHeap(h) /\ ListedSaved(h) /\ h.myList[h.active] = Nil /\ Nil \notin Priorities
  BY SchedulableTypes
<1>2. i \in ReadyPriorities(h) /\ i \in Priorities
  BY ReadyPrioritiesAreLists, ExtremesExist
<1>3. g = TransferToHighestPriority(h)
  BY DEF TransferToHighestPriority
<1> HIDE DEF i
<1>5. /\ Schedulable(g) /\ f \in Proc /\ h.myList[f] = i /\ g.active = f
      /\ g.myList = [h.myList EXCEPT ![f] = Nil]
  BY <1>0, <1>2, SwitchToHead
<1> HIDE DEF f, g
<1>6. ASSUME NEW p \in Proc, p # h.active PROVE KeepsPlace(h, g, p)
  BY <1>0, <1>2, <1>5, <1>6 DEF KeepsPlace, Runnable
<1>7. g.myList[h.active] = Nil /\ g.active # h.active
  BY <1>0, <1>2, <1>5
<1> QED
  BY <1>3, <1>5, <1>6, <1>7 DEF OnlyMoves

\* Making the first waiter of a list that is no ready queue runnable.
LEMMA FirstWaiterLeaves ==
    ASSUME NEW h, Schedulable(h), NEW l \in List \ Priorities, ~IsEmptyList(h, l)
    PROVE  LET r == RemoveFirstLinkOfList(h, l)
               p == h.firstLink[l]
           IN  /\ Schedulable(r) /\ p \in Proc /\ h.myList[p] = l
               /\ p \in r.savedContext /\ p # r.active
               /\ r.active = h.active
               /\ r.myList = [h.myList EXCEPT ![p] = Nil]
<1> DEFINE p == h.firstLink[l]
           r == RemoveFirstLinkOfList(h, l)
<1>0. /\ h.myList \in [Proc -> List \union {Nil}] /\ h.active \in Proc
      /\ GoodHeap(h) /\ ListedSaved(h) /\ h.myList[h.active] = Nil
  BY SchedulableTypes
<1>1. /\ GoodHeap(r) /\ p \in Proc /\ h.myList[p] = l
      /\ r.myList = [h.myList EXCEPT ![p] = Nil]
      /\ r.savedContext = h.savedContext /\ r.active = h.active
  BY <1>0, RemoveFirstKeepsLinks
<1> HIDE DEF p, r
<1>2. p # h.active /\ p \in h.savedContext
  BY <1>0, <1>1 DEF ListedSaved
<1>3. Schedulable(r)
  BY <1>0, <1>1 DEF Schedulable, ListedSaved
<1> QED
  BY <1>1, <1>2, <1>3 DEF p, r

\* Resuming a process that is on no list makes it runnable and moves no other.
LEMMA ResumeMakesRunnable ==
    ASSUME NEW h, Schedulable(h), NEW p \in Proc, h.myList[p] = Nil, p # h.active,
           p \in h.savedContext
    PROVE  LET g == ResumeProcess(h, p) IN OnlyMoves(h, g, {p}) /\ Runnable(g, p)
<1> DEFINE g == ResumeProcess(h, p)
<1>0. /\ h.myList \in [Proc -> List \union {Nil}] /\ h.active \in Proc
      /\ Priority[p] \in Priorities /\ Priority[h.active] \in Priorities
  BY SchedulableTypes, ReadyPrioritiesAreLists
<1>1. /\ Schedulable(g)
      /\ \/ /\ g.active = p
            /\ g.myList = [h.myList EXCEPT ![h.active] = Priority[h.active]]
         \/ /\ g.active = h.active
            /\ g.myList = [h.myList EXCEPT ![p] = Priority[p]]
  BY ResumeOffList
<1> HIDE DEF g
<1>2. Runnable(g, p)
  BY <1>0, <1>1 DEF Runnable
<1>3. ASSUME NEW q \in Proc, q # p PROVE KeepsPlace(h, g, q)
  BY <1>0, <1>1, <1>3 DEF KeepsPlace, Runnable
<1> QED
  BY <1>1, <1>2, <1>3 DEF OnlyMoves, g

\* Taking another process off the list it is on.
LEMMA SuspensionMovesOne ==
    ASSUME NEW h, Schedulable(h), NEW p \in Proc, h.myList[p] # Nil
    PROVE  LET g == RemoveProcessFromList(h, p, h.myList[p])
           IN  OnlyMoves(h, g, {p}) /\ g.myList[p] = Nil /\ g.active = h.active /\ p # h.active
<1> DEFINE g == RemoveProcessFromList(h, p, h.myList[p])
<1>0. /\ h.myList \in [Proc -> List \union {Nil}] /\ h.active \in Proc
      /\ GoodHeap(h) /\ ListedSaved(h) /\ h.myList[h.active] = Nil
  BY SchedulableTypes
<1>1. /\ GoodHeap(g) /\ g.myList = [h.myList EXCEPT ![p] = Nil]
      /\ g.savedContext = h.savedContext /\ g.active = h.active
  BY <1>0, RemoveProcessKeepsLinks
<1> HIDE DEF g
<1>2. Schedulable(g)
  BY <1>0, <1>1 DEF Schedulable, ListedSaved
<1>3. ASSUME NEW q \in Proc, q # p PROVE KeepsPlace(h, g, q)
  BY <1>0, <1>1, <1>3 DEF KeepsPlace
<1> QED
  BY <1>0, <1>1, <1>2, <1>3 DEF OnlyMoves, g

\* The same links are as good with other contexts and another active process.
LEMMA SameLinks ==
    ASSUME NEW h, GoodHeap(h), NEW g \in Heap,
           g.nextLink = h.nextLink, g.myList = h.myList,
           g.firstLink = h.firstLink, g.lastLink = h.lastLink
    PROVE  GoodHeap(g)
<1>1. LinksOK(g)
  BY DEF GoodHeap, LinksOK, EmptyListsAgree, EndsAreOnTheList, OffListUnlinked,
         LinksStayOnTheList, NoSharedLinks, OnlyLastEnds, NonfirstIsLinked
<1>2. Acyclic(g)
  BY DEF GoodHeap, Acyclic, Ranks
<1> QED
  BY <1>1, <1>2 DEF GoodHeap

\* Moving a head to the back of its own ready queue changes nobody's list.
LEMMA RotationRearranges ==
    ASSUME NEW h, Schedulable(h), NEW i \in ReadyPriorities(h)
    PROVE  LET r == RemoveFirstLinkOfList(h, i)
               g == AddLastLinkToList(r, h.firstLink[i], i)
           IN  OnlyMoves(h, g, {}) /\ g.active = h.active
<1> DEFINE f == h.firstLink[i]
           r == RemoveFirstLinkOfList(h, i)
           g == AddLastLinkToList(r, f, i)
<1>0. /\ h.myList \in [Proc -> List \union {Nil}] /\ h.active \in Proc
      /\ GoodHeap(h) /\ ListedSaved(h) /\ h.myList[h.active] = Nil
  BY SchedulableTypes
<1>1. i \in List /\ ~IsEmptyList(h, i)
  BY ReadyPrioritiesAreLists
<1>2. /\ GoodHeap(r) /\ f \in Proc /\ h.myList[f] = i
      /\ r.myList = [h.myList EXCEPT ![f] = Nil]
      /\ r.savedContext = h.savedContext /\ r.active = h.active
  BY <1>0, <1>1, RemoveFirstKeepsLinks
<1> HIDE DEF r, f
<1>3. r.myList[f] = Nil
  BY <1>0, <1>2
<1>4. /\ GoodHeap(g) /\ g.myList = [r.myList EXCEPT ![f] = i]
      /\ g.savedContext = r.savedContext /\ g.active = r.active
  BY <1>1, <1>2, <1>3, AddLastKeepsLinks
<1> HIDE DEF g
<1>5. g.myList = h.myList
  BY <1>0, <1>2, <1>4
<1>6. Schedulable(g)
  BY <1>0, <1>2, <1>4, <1>5 DEF Schedulable, ListedSaved
<1>7. \A p \in Proc : KeepsPlace(h, g, p)
  BY <1>2, <1>4, <1>5 DEF KeepsPlace
<1> QED
  BY <1>2, <1>4, <1>6, <1>7 DEF OnlyMoves, g, r, f

\* Running the head of a ready queue without a trace of who ran before.
LEMMA HeadTakesOver ==
    ASSUME NEW h, Schedulable(h), NEW i \in ReadyPriorities(h),
           NEW C \in SUBSET Proc, h.savedContext \ {h.firstLink[i]} \subseteq C
    PROVE  LET g == [RemoveFirstLinkOfList(h, i) EXCEPT !.active = h.firstLink[i],
                                                        !.savedContext = C]
           IN  /\ OnlyMoves(h, g, {h.active})
               /\ g.myList[h.active] = Nil
               /\ g.active # h.active
<1> DEFINE f == h.firstLink[i]
           r == RemoveFirstLinkOfList(h, i)
           g == [r EXCEPT !.active = f, !.savedContext = C]
<1>0. /\ h.myList \in [Proc -> List \union {Nil}] /\ h.active \in Proc
      /\ GoodHeap(h) /\ ListedSaved(h) /\ h.myList[h.active] = Nil
      /\ h.savedContext \subseteq Proc
  BY SchedulableTypes
<1>1. i \in List /\ ~IsEmptyList(h, i) /\ i \in Priorities /\ i # Nil
  BY ReadyPrioritiesAreLists
<1>2. /\ GoodHeap(r) /\ f \in Proc /\ h.myList[f] = i
      /\ r.myList = [h.myList EXCEPT ![f] = Nil]
      /\ r.savedContext = h.savedContext /\ r.active = h.active
  BY <1>0, <1>1, RemoveFirstKeepsLinks
<1>3. h.savedContext \ {f} \subseteq C
  OBVIOUS
<1> HIDE DEF r, f
<1>4. /\ g \in Heap
      /\ g.nextLink = r.nextLink /\ g.myList = r.myList
      /\ g.firstLink = r.firstLink /\ g.lastLink = r.lastLink
      /\ g.active = f /\ g.savedContext = C
  BY <1>2 DEF GoodHeap, Heap
<1> HIDE DEF g
<1>5. GoodHeap(g)
  BY <1>2, <1>4, SameLinks
<1>6. Schedulable(g)
  BY <1>0, <1>2, <1>3, <1>4, <1>5 DEF Schedulable, ListedSaved
<1>7. ASSUME NEW p \in Proc, p # h.active PROVE KeepsPlace(h, g, p)
  BY <1>0, <1>1, <1>2, <1>4, <1>7 DEF KeepsPlace, Runnable
<1>8. g.myList[h.active] = Nil /\ g.active # h.active
  BY <1>0, <1>1, <1>2, <1>4
<1> QED
  BY <1>6, <1>7, <1>8 DEF OnlyMoves, g, r, f

\* Whom a move leaves alone stays on its wait list, parked or runnable.
LEMMA PlacesKept ==
    ASSUME NEW h, Schedulable(h), NEW g, NEW S, OnlyMoves(h, g, S),
           NEW p \in Proc, p \notin S
    PROVE  /\ \A l \in List \ Priorities : g.myList[p] = l <=> h.myList[p] = l
           /\ (p # g.active /\ g.myList[p] = Nil) <=> (p # h.active /\ h.myList[p] = Nil)
           /\ Runnable(g, p) <=> Runnable(h, p)
<1>1. Schedulable(g) /\ KeepsPlace(h, g, p)
  BY DEF OnlyMoves
<1>2. /\ h.myList[h.active] = Nil /\ g.myList[g.active] = Nil
      /\ Nil \notin Priorities
  BY <1>1, SchedulableTypes
<1> QED
  BY <1>1, <1>2 DEF KeepsPlace, Runnable

-----------------------------------------------------------------------------
(* What a walk along the links meets.  Induction over the length of the walk *)
(* is stated for a set of numbers.                                           *)

LEMMA InductionOnSet ==
    ASSUME NEW T, 0 \in T, \A n \in Nat : n \in T => n + 1 \in T
    PROVE  \A n \in Nat : n \in T
<1> SUFFICES ASSUME NEW k \in Nat, k \notin T PROVE FALSE
  OBVIOUS
<1> DEFINE U == {n \in Nat : n \notin T}
<1>1. U \subseteq Nat /\ U # {}
  OBVIOUS
<1>2. PICK n \in U : \A m \in U : n <= m
  <2> HIDE DEF U
  <2> QED
    BY <1>1, NaturalsHaveMinimum
<1>3. n # 0 /\ n - 1 \in Nat /\ n - 1 \notin U
  BY <1>2
<1>4. n - 1 \in T /\ (n - 1) + 1 = n
  BY <1>2, <1>3
<1> QED
  BY <1>2, <1>3, <1>4

\* The walk from firstLink of l exists, however long: link[n] is what the n-th
\* link's slot holds, and Nil from the end on.
Walk(h, l, bound, link) ==
    /\ link \in [1..bound -> Proc \union {Nil}]
    /\ bound > 0 => link[1] = h.firstLink[l]
    /\ \A n \in 1..bound : n + 1 <= bound =>
           link[n + 1] = IF link[n] = Nil THEN Nil ELSE h.nextLink[link[n]]

LEMMA WalksExist ==
    ASSUME NEW h \in Heap, NEW l \in List, NEW bound \in Nat
    PROVE  \E link : Walk(h, l, bound, link)
<1> DEFINE T == {n \in Nat : \E link : Walk(h, l, n, link)}
<1>0. /\ h.nextLink \in [Proc -> Proc \union {Nil}]
      /\ h.firstLink \in [List -> Proc \union {Nil}]
  BY DEF Heap
<1>1. 0 \in T
  <2>1. [i \in 1..0 |-> Nil] \in [1..0 -> Proc \union {Nil}]
    OBVIOUS
  <2>2. Walk(h, l, 0, [i \in 1..0 |-> Nil])
    BY <2>1 DEF Walk
  <2> QED
    BY <2>2
<1>2. ASSUME NEW n \in Nat, n \in T PROVE n + 1 \in T
  <2>1. PICK link : Walk(h, l, n, link)
    BY <1>2
  <2> DEFINE last == IF n = 0 THEN h.firstLink[l]
                     ELSE IF link[n] = Nil THEN Nil ELSE h.nextLink[link[n]]
             new == [i \in 1..(n + 1) |-> IF i = n + 1 THEN last ELSE link[i]]
  <2>2. last \in Proc \union {Nil}
    BY <1>0, <2>1 DEF Walk
  <2> HIDE DEF last
  <2>3. new \in [1..(n + 1) -> Proc \union {Nil}]
    BY <2>1, <2>2 DEF Walk
  <2>4. new[1] = h.firstLink[l]
    BY <2>1 DEF Walk, last
  <2>5. ASSUME NEW i \in 1..(n + 1), i + 1 <= n + 1
        PROVE  new[i + 1] = IF new[i] = Nil THEN Nil ELSE h.nextLink[new[i]]
    <3>1. CASE i + 1 = n + 1
      <4>1. i = n /\ n # 0 /\ new[i] = link[n] /\ new[i + 1] = last
        BY <2>5, <3>1
      <4> QED
        BY <4>1 DEF last
    <3>2. CASE i + 1 # n + 1
      <4>1. i \in 1..n /\ i + 1 <= n /\ new[i] = link[i] /\ new[i + 1] = link[i + 1]
        BY <2>5, <3>2
      <4> QED
        BY <2>1, <4>1 DEF Walk
    <3> QED
      BY <3>1, <3>2
  <2>6. Walk(h, l, n + 1, new)
    BY <2>3, <2>4, <2>5 DEF Walk
  <2> QED
    BY <2>6
<1> HIDE DEF T
<1>3. \A n \in Nat : n \in T
  BY <1>1, <1>2, InductionOnSet
<1> QED
  BY <1>3 DEF T

\* The positions at which it meets a process.
Met(link) == {n \in DOMAIN link : link[n] # Nil}

\* LinksOf is the walk up to its first Nil: the recursive function it defines
\* exists, and is a walk.
LEMMA LinksOfIsWalk ==
    ASSUME NEW h \in Heap, NEW l \in List
    PROVE  \E link :
              /\ Walk(h, l, Cardinality(Proc) + 1, link)
              /\ LinksOf(h, l) = SubSeq(link, 1, Cardinality(Met(link)))
<1> DEFINE bound == Cardinality(Proc) + 1
           link[n \in 1..bound] ==
               IF n = 1 THEN h.firstLink[l]
               ELSE IF link[n - 1] = Nil THEN Nil ELSE h.nextLink[link[n - 1]]
<1>1. LinksOf(h, l) = SubSeq(link, 1, Cardinality({n \in 1..bound : link[n] # Nil}))
  BY DEF LinksOf
<1>2. bound \in Nat /\ bound > 0
  BY ProcAssumption, FS_CardinalityType
<1> HIDE DEF bound
<1>3. link = [n \in 1..bound |->
                 IF n = 1 THEN h.firstLink[l]
                 ELSE IF link[n - 1] = Nil THEN Nil ELSE h.nextLink[link[n - 1]]]
  <2>1. PICK w : Walk(h, l, bound, w)
    BY <1>2, WalksExist
  <2>2. ASSUME NEW n \in 1..bound
        PROVE  w[n] = IF n = 1 THEN h.firstLink[l]
                      ELSE IF w[n - 1] = Nil THEN Nil ELSE h.nextLink[w[n - 1]]
    <3>1. CASE n = 1
      BY <1>2, <2>1, <3>1 DEF Walk
    <3>2. CASE n # 1
      <4>1. n - 1 \in 1..bound /\ (n - 1) + 1 = n /\ (n - 1) + 1 <= bound
        BY <1>2, <2>2, <3>2
      <4> QED
        BY <2>1, <3>2, <4>1 DEF Walk
    <3> QED
      BY <3>1, <3>2
  <2>3. w = [n \in 1..bound |->
                IF n = 1 THEN h.firstLink[l]
                ELSE IF w[n - 1] = Nil THEN Nil ELSE h.nextLink[w[n - 1]]]
    BY <2>1, <2>2 DEF Walk
  <2> DEFINE P(f) == f = [n \in 1..bound |->
                             IF n = 1 THEN h.firstLink[l]
                             ELSE IF f[n - 1] = Nil THEN Nil ELSE h.nextLink[f[n - 1]]]
  <2>4. link = CHOOSE f : P(f)
    BY DEF link
  <2>5. \E f : P(f)
    BY <2>3
  <2> HIDE DEF link
  <2>6. P(link)
    <3> HIDE DEF P
    <3> QED
      BY <2>4, <2>5
  <2> QED
    BY <2>6
<1> HIDE DEF link
<1>4. link[1] = h.firstLink[l]
  BY <1>2, <1>3
<1>5. ASSUME NEW n \in 1..bound, n + 1 <= bound
      PROVE  link[n + 1] = IF link[n] = Nil THEN Nil ELSE h.nextLink[link[n]]
  <2>1. n + 1 \in 1..bound /\ n + 1 # 1 /\ (n + 1) - 1 = n
    BY <1>2, <1>5
  <2> QED
    BY <1>3, <2>1
<1>6. \A n \in 1..bound : link[n] \in Proc \union {Nil}
  <2> DEFINE T == {n \in Nat : n + 1 <= bound => link[n + 1] \in Proc \union {Nil}}
  <2>0. /\ h.nextLink \in [Proc -> Proc \union {Nil}]
        /\ h.firstLink \in [List -> Proc \union {Nil}]
    BY DEF Heap
  <2>1. 0 \in T
    BY <1>4, <2>0
  <2>2. ASSUME NEW n \in Nat, n \in T PROVE n + 1 \in T
    <3> SUFFICES ASSUME (n + 1) + 1 <= bound PROVE link[(n + 1) + 1] \in Proc \union {Nil}
      OBVIOUS
    <3>1. n + 1 \in 1..bound /\ n + 1 <= bound
      BY <1>2
    <3>2. link[n + 1] \in Proc \union {Nil}
      BY <2>2, <3>1
    <3> QED
      BY <1>5, <2>0, <3>1, <3>2
  <2> HIDE DEF T
  <2>3. \A n \in Nat : n \in T
    BY <2>1, <2>2, InductionOnSet
  <2>4. ASSUME NEW n \in 1..bound PROVE link[n] \in Proc \union {Nil}
    <3>1. n - 1 \in Nat /\ (n - 1) + 1 = n /\ n <= bound
      BY <1>2
    <3>2. n - 1 \in T
      BY <2>3, <3>1
    <3> QED
      BY <3>1, <3>2 DEF T
  <2> QED
    BY <2>4
<1>7. link \in [1..bound -> Proc \union {Nil}]
  BY <1>3, <1>6
<1>8. Walk(h, l, bound, link)
  BY <1>4, <1>5, <1>7 DEF Walk
<1>9. Met(link) = {n \in 1..bound : link[n] # Nil}
  BY <1>7 DEF Met
<1>10. Walk(h, l, bound, link) /\ LinksOf(h, l) = SubSeq(link, 1, Cardinality(Met(link)))
  BY <1>1, <1>8, <1>9
<1> QED
  BY <1>10 DEF bound

\* A walk stays on its list, follows the links, and never meets a process
\* again, since ranks rise along it.
LEMMA WalkClimbs ==
    ASSUME NEW h, GoodHeap(h), NEW l \in List, NEW bound \in Nat,
           NEW link, Walk(h, l, bound, link)
    PROVE  /\ Met(link) \subseteq 1..bound
           /\ \A n \in Met(link) : /\ link[n] \in Proc /\ h.myList[link[n]] = l
                                   /\ \A i \in 1..n : i \in Met(link)
           /\ \A i, j \in Met(link) : link[i] = link[j] => i = j
<1>0. /\ h.nextLink \in [Proc -> Proc \union {Nil}]
      /\ h.myList \in [Proc -> List \union {Nil}]
      /\ h.firstLink \in [List -> Proc \union {Nil}]
  BY DEF GoodHeap, Heap
<1>1. /\ Met(link) \subseteq 1..bound
      /\ \A n \in 1..bound : n \in Met(link) <=> link[n] # Nil
      /\ \A n \in Met(link) : link[n] \in Proc
  BY DEF Walk, Met
<1>2. PICK rank : Ranks(h, rank)
  BY DEF GoodHeap, Acyclic
<1> DEFINE T == {n \in Nat : n + 1 \in Met(link) =>
                     /\ h.myList[link[n + 1]] = l
                     /\ \A i \in 1..n : /\ i \in Met(link)
                                        /\ rank[link[i]] < rank[link[n + 1]]}
<1>3. 0 \in T
  <2>1. 1 \in Met(link) => link[1] = h.firstLink[l] /\ link[1] # Nil
    BY <1>1 DEF Walk
  <2>2. 1 \in Met(link) => h.myList[link[1]] = l
    BY <2>1 DEF GoodHeap, LinksOK, EndsAreOnTheList
  <2> QED
    BY <2>2
<1>4. ASSUME NEW n \in Nat, n \in T PROVE n + 1 \in T
  <2> SUFFICES ASSUME (n + 1) + 1 \in Met(link)
               PROVE  /\ h.myList[link[(n + 1) + 1]] = l
                      /\ \A i \in 1..(n + 1) : /\ i \in Met(link)
                                               /\ rank[link[i]] < rank[link[(n + 1) + 1]]
    OBVIOUS
  <2>1. n + 1 \in 1..bound /\ (n + 1) + 1 \in 1..bound
    BY <1>1
  <2>2. link[(n + 1) + 1] = IF link[n + 1] = Nil THEN Nil ELSE h.nextLink[link[n + 1]]
    BY <2>1 DEF Walk
  <2>3. link[(n + 1) + 1] # Nil
    BY <1>1, <2>1
  <2>4. n + 1 \in Met(link) /\ link[n + 1] \in Proc /\ h.nextLink[link[n + 1]] = link[(n + 1) + 1]
    BY <1>1, <2>1, <2>2, <2>3
  <2>5. /\ h.myList[link[n + 1]] = l
        /\ \A i \in 1..n : i \in Met(link) /\ rank[link[i]] < rank[link[n + 1]]
    BY <1>4, <2>4
  <2>6. h.myList[link[(n + 1) + 1]] = l
    BY <2>3, <2>4, <2>5 DEF GoodHeap, LinksOK, LinksStayOnTheList
  <2>7. /\ rank[link[n + 1]] < rank[link[(n + 1) + 1]]
        /\ rank[link[n + 1]] \in Nat /\ rank[link[(n + 1) + 1]] \in Nat
    BY <1>1, <1>2, <2>3, <2>4 DEF Ranks
  <2>8. ASSUME NEW i \in 1..(n + 1)
        PROVE  i \in Met(link) /\ rank[link[i]] < rank[link[(n + 1) + 1]]
    <3>1. CASE i = n + 1
      BY <2>4, <2>7, <3>1
    <3>2. CASE i # n + 1
      <4>1. i \in 1..n
        BY <3>2
      <4>2. i \in Met(link) /\ rank[link[i]] < rank[link[n + 1]] /\ rank[link[i]] \in Nat
        BY <1>1, <1>2, <2>5, <4>1 DEF Ranks
      <4> QED
        BY <2>7, <4>2
    <3> QED
      BY <3>1, <3>2
  <2> QED
    BY <2>6, <2>8
<1> HIDE DEF T
<1>5. \A n \in Nat : n \in T
  BY <1>3, <1>4, InductionOnSet
<1>6. ASSUME NEW n \in Met(link)
      PROVE  /\ h.myList[link[n]] = l
             /\ \A i \in 1..(n - 1) : i \in Met(link) /\ rank[link[i]] < rank[link[n]]
  <2>1. n - 1 \in Nat /\ (n - 1) + 1 = n
    BY <1>1
  <2>2. n - 1 \in T
    BY <1>5, <2>1
  <2> QED
    BY <2>1, <2>2 DEF T
<1>7. ASSUME NEW n \in Met(link), NEW i \in 1..n PROVE i \in Met(link)
  <2>1. i = n \/ i \in 1..(n - 1)
    BY <1>1
  <2> QED
    BY <1>6, <2>1
<1>8. ASSUME NEW i \in Met(link), NEW j \in Met(link), link[i] = link[j] PROVE i = j
  <2>1. i \in Nat /\ j \in Nat /\ i >= 1 /\ j >= 1 /\ rank[link[i]] \in Nat
    BY <1>1, <1>2 DEF Ranks
  <2>2. ~(i < j)
    <3> SUFFICES ASSUME i < j PROVE FALSE
      OBVIOUS
    <3>1. i \in 1..(j - 1)
      BY <2>1
    <3> QED
      BY <1>6, <1>8, <2>1, <3>1
  <2>3. ~(j < i)
    <3> SUFFICES ASSUME j < i PROVE FALSE
      OBVIOUS
    <3>1. j \in 1..(i - 1)
      BY <2>1
    <3> QED
      BY <1>6, <1>8, <2>1, <3>1
  <2> QED
    BY <2>1, <2>2, <2>3
<1> QED
  BY <1>1, <1>6, <1>7, <1>8

\* s is the chain of links of list l: its processes from firstLink to
\* lastLink, each once.
Chain(h, l, s) ==
    /\ s \in Seq(Proc)
    /\ \A p \in Proc : h.myList[p] = l <=> \E i \in 1..Len(s) : s[i] = p
    /\ \A i, j \in 1..Len(s) : s[i] = s[j] => i = j
    /\ s # <<>> => s[1] = h.firstLink[l] /\ s[Len(s)] = h.lastLink[l]
    /\ \A i \in 1..Len(s) : i # Len(s) => h.nextLink[s[i]] = s[i + 1]

\* There are fewer processes on a list than steps in the walk, so it ends.
LEMMA WalkEnds ==
    ASSUME NEW h, GoodHeap(h), NEW l \in List, NEW link,
           Walk(h, l, Cardinality(Proc) + 1, link)
    PROVE  \E k \in 0..Cardinality(Proc) : Met(link) = 1..k /\ Cardinality(Met(link)) = k
<1> DEFINE bound == Cardinality(Proc) + 1
           U == {n \in 1..bound : link[n] = Nil}
<1>0. Cardinality(Proc) \in Nat /\ bound \in Nat
  BY ProcAssumption, FS_CardinalityType
<1>1. /\ Met(link) \subseteq 1..bound
      /\ \A n \in Met(link) : link[n] \in Proc /\ \A i \in 1..n : i \in Met(link)
      /\ \A i, j \in Met(link) : link[i] = link[j] => i = j
  BY <1>0, WalkClimbs
<1>2. link \in [1..bound -> Proc \union {Nil}]
  BY DEF Walk
<1>3. U # {}
  <2> SUFFICES ASSUME U = {} PROVE FALSE
    OBVIOUS
  <2>1. Met(link) = 1..bound
    BY <1>1, <1>2 DEF Met
  <2>2. link \in [1..bound -> Proc]
    BY <1>1, <1>2, <2>1
  <2>3. IsFiniteSet(1..bound) /\ Cardinality(1..bound) = bound
    BY <1>0, FS_Interval
  <2>4. \E x, y \in 1..bound : x # y /\ link[x] = link[y]
    BY <1>0, <2>2, <2>3, ProcAssumption, FS_PigeonHole
  <2> QED
    BY <1>1, <2>1, <2>4
<1>4. PICK m \in U : \A n \in U : m <= n
  <2>1. U \subseteq Nat
    BY <1>0
  <2> HIDE DEF U
  <2> QED
    BY <1>3, <2>1, NaturalsHaveMinimum
<1> DEFINE k == m - 1
<1>5. k \in 0..Cardinality(Proc)
  BY <1>0, <1>4
<1>6. Met(link) = 1..k
  <2>1. ASSUME NEW n \in Met(link) PROVE n \in 1..k
    <3>1. n \in 1..bound /\ m \in 1..bound /\ link[m] = Nil /\ link[n] # Nil
      BY <1>1, <1>4, <2>1 DEF Met
    <3>2. ~(m <= n)
      <4> SUFFICES ASSUME m <= n PROVE FALSE
        OBVIOUS
      <4>1. m \in 1..n
        BY <1>0, <3>1
      <4>2. m \in Met(link)
        BY <1>1, <4>1
      <4> QED
        BY <3>1, <4>2 DEF Met
    <3> QED
      BY <1>0, <3>1, <3>2
  <2>2. ASSUME NEW n \in 1..k PROVE n \in Met(link)
    <3>1. n \in 1..bound /\ n < m
      BY <1>0, <1>4
    <3>2. n \notin U
      BY <1>0, <1>4, <3>1
    <3> QED
      BY <1>2, <3>1, <3>2 DEF Met
  <2> QED
    BY <2>1, <2>2
<1> HIDE DEF k
<1>7. Cardinality(1..k) = k
  BY <1>0, <1>5, FS_Interval
<1> QED
  BY <1>5, <1>6, <1>7

\* Every process of the list is met: the one of lowest rank that is not would
\* be the first link, or behind one that is met.
LEMMA WalkMeetsAll ==
    ASSUME NEW h, GoodHeap(h), NEW l \in List, NEW bound \in Nat, NEW k \in 0..(bound - 1),
           NEW link, Walk(h, l, bound, link), Met(link) = 1..k
    PROVE  \A p \in Proc : h.myList[p] = l => \E i \in 1..k : link[i] = p
<1>0. /\ h.nextLink \in [Proc -> Proc \union {Nil}]
      /\ h.myList \in [Proc -> List \union {Nil}]
      /\ h.firstLink \in [List -> Proc \union {Nil}]
  BY DEF GoodHeap, Heap
<1>1. PICK rank : Ranks(h, rank)
  BY DEF GoodHeap, Acyclic
<1> DEFINE on == {p \in Proc : h.myList[p] = l /\ \A i \in 1..k : link[i] # p}
           U  == {rank[p] : p \in on}
<1> SUFFICES ASSUME on # {} PROVE FALSE
  OBVIOUS
<1>2. U \subseteq Nat /\ U # {}
  BY <1>1 DEF Ranks
<1>3. PICK n \in U : \A m \in U : n <= m
  <2> HIDE DEF U
  <2> QED
    BY <1>2, NaturalsHaveMinimum
<1>4. PICK p \in on : n = rank[p]
  OBVIOUS
<1>5. bound > 0 /\ link \in [1..bound -> Proc \union {Nil}] /\ link[1] = h.firstLink[l]
  BY DEF Walk
<1>6. CASE p = h.firstLink[l]
  <2>1. 1 \in Met(link)
    BY <1>4, <1>5, <1>6 DEF Met
  <2> QED
    BY <1>4, <1>5, <1>6, <2>1
<1>7. CASE p # h.firstLink[l]
  <2>1. PICK q \in Proc : h.nextLink[q] = p
    BY <1>4, <1>7 DEF GoodHeap, LinksOK, NonfirstIsLinked
  <2>2. h.myList[q] = l /\ rank[q] < rank[p] /\ rank[q] \in Nat /\ rank[p] \in Nat
    BY <1>1, <1>4, <2>1 DEF GoodHeap, LinksOK, LinksStayOnTheList, Ranks
  <2>3. q \notin on
    <3> SUFFICES ASSUME q \in on PROVE FALSE
      OBVIOUS
    <3>1. rank[q] \in U
      OBVIOUS
    <3>2. n <= rank[q]
      <4> HIDE DEF U
      <4> QED
        BY <1>3, <3>1
    <3> QED
      BY <1>4, <2>2, <3>2
  <2>4. PICK i \in 1..k : link[i] = q
    BY <2>2, <2>3
  <2>5. i \in 1..bound /\ i + 1 \in 1..bound /\ i + 1 <= bound
    OBVIOUS
  <2>6. link[i + 1] = p
    BY <2>1, <2>4, <2>5 DEF Walk
  <2>7. i + 1 \in Met(link)
    BY <1>4, <1>5, <2>5, <2>6 DEF Met
  <2>8. i + 1 \in 1..k
    BY <2>7
  <2> QED
    BY <1>4, <2>6, <2>8
<1> QED
  BY <1>6, <1>7

\* What LinksOf returns is the chain of the list.
LEMMA LinksAreChain ==
    ASSUME NEW h, GoodHeap(h), NEW l \in List
    PROVE  Chain(h, l, LinksOf(h, l))
<1> DEFINE bound == Cardinality(Proc) + 1
<1>0. /\ Cardinality(Proc) \in Nat /\ bound \in Nat
      /\ h \in Heap
      /\ h.nextLink \in [Proc -> Proc \union {Nil}]
      /\ h.firstLink \in [List -> Proc \union {Nil}]
  BY ProcAssumption, FS_CardinalityType DEF GoodHeap, Heap
<1>1. PICK link : Walk(h, l, bound, link) /\ LinksOf(h, l) = SubSeq(link, 1, Cardinality(Met(link)))
  BY <1>0, LinksOfIsWalk
<1>2. PICK k \in 0..Cardinality(Proc) : Met(link) = 1..k /\ Cardinality(Met(link)) = k
  BY <1>1, WalkEnds
<1>3. k \in Nat /\ k \in 0..(bound - 1) /\ k + 1 \in 1..bound
  BY <1>0
<1> HIDE DEF bound
<1>4. /\ \A n \in 1..k : link[n] \in Proc /\ h.myList[link[n]] = l
      /\ \A i, j \in 1..k : link[i] = link[j] => i = j
  BY <1>0, <1>1, <1>2, WalkClimbs
<1>5. \A p \in Proc : h.myList[p] = l => \E i \in 1..k : link[i] = p
  BY <1>0, <1>1, <1>2, <1>3, WalkMeetsAll
<1> DEFINE s == LinksOf(h, l)
<1>6. s \in Seq(Proc) /\ Len(s) = k /\ \A i \in 1..k : s[i] = link[i]
  <2>1. s = SubSeq(link, 1, k)
    BY <1>1, <1>2
  <2> HIDE DEF s
  <2>2. /\ s \in Seq(Proc)
        /\ Len(s) = IF 1 <= k THEN k - 1 + 1 ELSE 0
        /\ \A i \in 1..(k - 1 + 1) : s[i] = link[1 + i - 1]
    BY <1>3, <1>4, <2>1, SubSeqProperties
  <2> QED
    BY <1>3, <2>2
<1> HIDE DEF s
<1>7. /\ link \in [1..bound -> Proc \union {Nil}] /\ link[1] = h.firstLink[l]
      /\ \A i \in 1..k : link[i + 1] = h.nextLink[link[i]]
  <2>1. link[1] = h.firstLink[l] /\ link \in [1..bound -> Proc \union {Nil}]
    BY <1>0, <1>1, <1>3 DEF Walk
  <2>2. ASSUME NEW i \in 1..k PROVE link[i + 1] = h.nextLink[link[i]]
    <3>1. i \in 1..bound /\ i + 1 <= bound
      BY <1>0, <1>3
    <3>2. link[i] # Nil
      BY <1>4, NilAssumption
    <3> QED
      BY <1>1, <3>1, <3>2 DEF Walk
  <2> QED
    BY <2>1, <2>2
<1>8. ASSUME s # <<>> PROVE s[1] = h.firstLink[l] /\ s[Len(s)] = h.lastLink[l]
  <2>1. k >= 1 /\ 1 \in 1..k /\ k \in 1..k
    BY <1>3, <1>6, <1>8, EmptySeq
  <2>2. link[k + 1] = Nil
    <3>1. k + 1 \notin Met(link)
      BY <1>2, <1>3
    <3> QED
      BY <1>3, <1>7, <3>1 DEF Met
  <2>3. h.nextLink[link[k]] = Nil /\ link[k] \in Proc /\ h.myList[link[k]] = l
    BY <1>4, <1>7, <2>1, <2>2
  <2>4. link[k] = h.lastLink[l]
    BY <2>3 DEF GoodHeap, LinksOK, OnlyLastEnds
  <2> QED
    BY <1>6, <1>7, <2>1, <2>4
<1>9. ASSUME NEW i \in 1..Len(s), i # Len(s) PROVE h.nextLink[s[i]] = s[i + 1]
  <2>1. i \in 1..k /\ i + 1 \in 1..k
    BY <1>3, <1>6, <1>9
  <2> QED
    BY <1>6, <1>7, <2>1
<1>10. \A p \in Proc : h.myList[p] = l <=> \E i \in 1..Len(s) : s[i] = p
  BY <1>4, <1>5, <1>6
<1>11. \A i, j \in 1..Len(s) : s[i] = s[j] => i = j
  BY <1>4, <1>6
<1>12. Chain(h, l, s)
  BY <1>6, <1>8, <1>9, <1>10, <1>11 DEF Chain
<1> QED
  BY <1>12 DEF s

\* A list has one chain only, so whatever is its chain is what LinksOf returns.
LEMMA ChainIsLinks ==
    ASSUME NEW h, GoodHeap(h), NEW l \in List, NEW s, Chain(h, l, s)
    PROVE  LinksOf(h, l) = s
<1> DEFINE t == LinksOf(h, l)
<1>1. Chain(h, l, t)
  BY LinksAreChain
<1> HIDE DEF t
<1>2. ASSUME NEW u, NEW v, Chain(h, l, u), Chain(h, l, v)
      PROVE  Len(u) <= Len(v) /\ \A i \in 1..Len(u) : v[i] = u[i]
  <2>0. u \in Seq(Proc) /\ v \in Seq(Proc) /\ Len(u) \in Nat /\ Len(v) \in Nat
    BY <1>2 DEF Chain
  <2> DEFINE T == {n \in Nat : n + 1 <= Len(u) => n + 1 <= Len(v) /\ v[n + 1] = u[n + 1]}
  <2>1. 0 \in T
    <3> SUFFICES ASSUME 1 <= Len(u) PROVE 1 <= Len(v) /\ v[1] = u[1]
      OBVIOUS
    <3>1. u # <<>> /\ u[1] = h.firstLink[l] /\ u[1] \in Proc /\ 1 \in 1..Len(u)
      BY <1>2, <2>0, EmptySeq DEF Chain
    <3>2. PICK i \in 1..Len(v) : v[i] = u[1]
      BY <1>2, <3>1 DEF Chain
    <3>3. v # <<>> /\ Len(v) >= 1
      BY <2>0, <3>2, EmptySeq
    <3> QED
      BY <1>2, <3>1, <3>3 DEF Chain
  <2>2. ASSUME NEW n \in Nat, n \in T PROVE n + 1 \in T
    <3> SUFFICES ASSUME (n + 1) + 1 <= Len(u)
                 PROVE  (n + 1) + 1 <= Len(v) /\ v[(n + 1) + 1] = u[(n + 1) + 1]
      OBVIOUS
    <3>1. n + 1 <= Len(u) /\ n + 1 <= Len(v) /\ v[n + 1] = u[n + 1]
      BY <2>0, <2>2
    <3>2. n + 1 \in 1..Len(u) /\ n + 1 # Len(u) /\ (n + 1) + 1 \in 1..Len(u)
          /\ n + 1 \in 1..Len(v)
      BY <2>0, <3>1
    <3>3. h.nextLink[u[n + 1]] = u[(n + 1) + 1] /\ u[(n + 1) + 1] \in Proc
      BY <1>2, <2>0, <3>2 DEF Chain
    <3>4. n + 1 # Len(v)
      <4> SUFFICES ASSUME n + 1 = Len(v) PROVE FALSE
        OBVIOUS
      <4>1. v # <<>>
        BY <2>0, <3>2, EmptySeq
      <4>2. v[n + 1] = h.lastLink[l] /\ v[n + 1] \in Proc /\ h.myList[v[n + 1]] = l
        BY <1>2, <2>0, <3>2, <4>1 DEF Chain
      <4>3. h.firstLink[l] # Nil
        <5>1. v[1] = h.firstLink[l] /\ v[1] \in Proc
          BY <1>2, <2>0, <3>2, <4>1 DEF Chain
        <5> QED
          BY <5>1, NilAssumption
      <4>4. h.nextLink[v[n + 1]] = Nil
        BY <4>2, <4>3 DEF GoodHeap, LinksOK, EndsAreOnTheList
      <4> QED
        BY <3>1, <3>3, <4>4, NilAssumption
    <3>5. (n + 1) + 1 <= Len(v)
      BY <2>0, <3>1, <3>4
    <3>6. h.nextLink[v[n + 1]] = v[(n + 1) + 1]
      BY <1>2, <3>2, <3>4 DEF Chain
    <3> QED
      BY <3>1, <3>3, <3>5, <3>6
  <2> HIDE DEF T
  <2>3. \A n \in Nat : n \in T
    BY <2>1, <2>2, InductionOnSet
  <2>4. ASSUME NEW i \in 1..Len(u) PROVE i <= Len(v) /\ v[i] = u[i]
    <3>1. i - 1 \in Nat /\ (i - 1) + 1 = i /\ i <= Len(u)
      BY <2>0
    <3>2. i - 1 \in T
      BY <2>3, <3>1
    <3> QED
      BY <3>1, <3>2 DEF T
  <2>5. Len(u) <= Len(v)
    <3>1. CASE Len(u) = 0
      BY <2>0, <3>1
    <3>2. CASE Len(u) # 0
      BY <2>0, <2>4, <3>2
    <3> QED
      BY <3>1, <3>2
  <2> QED
    BY <2>4, <2>5
<1>3. /\ Len(s) <= Len(t) /\ Len(t) <= Len(s)
      /\ \A i \in 1..Len(s) : t[i] = s[i]
  BY <1>1, <1>2
<1>4. s \in Seq(Proc) /\ t \in Seq(Proc) /\ Len(s) \in Nat /\ Len(t) \in Nat
  BY <1>1 DEF Chain
<1>5. Len(s) = Len(t)
  BY <1>3, <1>4
<1>6. t = s
  BY <1>3, <1>4, <1>5, SeqEqual
<1> QED
  BY <1>6 DEF t

-----------------------------------------------------------------------------
(* The helpers as operations on queues: what LinksOf shows afterwards *)

\* Two heaps that agree on a list's links and ends show the same chain.
LEMMA SameChain ==
    ASSUME NEW h, GoodHeap(h), NEW g, GoodHeap(g), NEW k \in List,
           \A q \in Proc : g.myList[q] = k <=> h.myList[q] = k,
           \A q \in Proc : h.myList[q] = k => g.nextLink[q] = h.nextLink[q],
           g.firstLink[k] = h.firstLink[k], g.lastLink[k] = h.lastLink[k]
    PROVE  LinksOf(g, k) = LinksOf(h, k)
<1> DEFINE s == LinksOf(h, k)
<1>1. Chain(h, k, s)
  BY LinksAreChain
<1> HIDE DEF s
<1>2. s \in Seq(Proc) /\ \A i \in 1..Len(s) : s[i] \in Proc /\ h.myList[s[i]] = k
  BY <1>1 DEF Chain
<1>3. \A i \in 1..Len(s) : i # Len(s) => g.nextLink[s[i]] = s[i + 1]
  BY <1>1, <1>2 DEF Chain
<1>4. Chain(g, k, s)
  BY <1>1, <1>3 DEF Chain
<1> QED
  BY <1>4, ChainIsLinks DEF s

\* Contexts and the running process are no part of the queues.
LEMMA SameLinksSameChains ==
    ASSUME NEW h, GoodHeap(h), NEW g, GoodHeap(g),
           g.nextLink = h.nextLink, g.myList = h.myList,
           g.firstLink = h.firstLink, g.lastLink = h.lastLink
    PROVE  \A k \in List : LinksOf(g, k) = LinksOf(h, k)
BY SameChain

\* A list is empty exactly if its queue is, and firstLink is the queue's head.
LEMMA FirstLinkIsHead ==
    ASSUME NEW h, GoodHeap(h), NEW l \in List
    PROVE  /\ LinksOf(h, l) \in Seq(Proc)
           /\ IsEmptyList(h, l) <=> LinksOf(h, l) = <<>>
           /\ ~IsEmptyList(h, l) => h.firstLink[l] = Head(LinksOf(h, l))
<1> DEFINE s == LinksOf(h, l)
<1>1. Chain(h, l, s)
  BY LinksAreChain
<1> HIDE DEF s
<1>2. s \in Seq(Proc) /\ Len(s) \in Nat
  BY <1>1 DEF Chain
<1>3. ASSUME s = <<>> PROVE IsEmptyList(h, l)
  <2>1. \A p \in Proc : h.myList[p] # l
    BY <1>1, <1>2, <1>3, EmptySeq DEF Chain
  <2> QED
    BY <2>1, EmptyIffNobody
<1>4. ASSUME s # <<>> PROVE ~IsEmptyList(h, l) /\ h.firstLink[l] = Head(s)
  <2>1. Len(s) >= 1 /\ s[1] \in Proc
    BY <1>2, <1>4, EmptySeq
  <2>2. s[1] = h.firstLink[l]
    BY <1>1, <1>4 DEF Chain
  <2> QED
    BY <1>2, <2>1, <2>2, NilAssumption DEF IsEmptyList
<1> QED
  BY <1>2, <1>3, <1>4 DEF s

\* addLastLinkToList appends to one queue.
LEMMA AddLastAppends ==
    ASSUME NEW h, GoodHeap(h), NEW p \in Proc, NEW l \in List, h.myList[p] = Nil
    PROVE  LET g == AddLastLinkToList(h, p, l)
           IN  \A k \in List : LinksOf(g, k) = IF k = l THEN Append(LinksOf(h, k), p)
                                               ELSE LinksOf(h, k)
<1> DEFINE g == AddLastLinkToList(h, p, l)
           s == LinksOf(h, l)
<1>1. /\ h.nextLink \in [Proc -> Proc \union {Nil}]
      /\ h.myList \in [Proc -> List \union {Nil}]
      /\ h.firstLink \in [List -> Proc \union {Nil}]
      /\ h.lastLink \in [List -> Proc \union {Nil}]
  BY DEF GoodHeap, Heap
<1>2. /\ g.nextLink = IF h.firstLink[l] = Nil
                      THEN [h.nextLink EXCEPT ![p] = Nil]
                      ELSE [h.nextLink EXCEPT ![p] = Nil, ![h.lastLink[l]] = p]
      /\ g.myList = [h.myList EXCEPT ![p] = l]
      /\ g.firstLink = [h.firstLink EXCEPT ![l] = IF @ = Nil THEN p ELSE @]
      /\ g.lastLink = [h.lastLink EXCEPT ![l] = p]
  BY DEF AddLastLinkToList, IsEmptyList, GoodHeap, Heap
<1>3. GoodHeap(g)
  BY AddLastKeepsLinks
<1>4. Chain(h, l, s)
  BY LinksAreChain
<1>5. IsEmptyList(h, l) <=> s = <<>>
  BY FirstLinkIsHead
<1> HIDE DEF g, s
<1>6. /\ s \in Seq(Proc) /\ Len(s) \in Nat
      /\ \A i \in 1..Len(s) : s[i] \in Proc /\ h.myList[s[i]] = l /\ s[i] # p
  BY <1>4, NilAssumption DEF Chain
<1> DEFINE t == Append(s, p)
<1>7. /\ t \in Seq(Proc) /\ t # <<>> /\ Len(t) = Len(s) + 1
      /\ \A i \in 1..Len(s) : t[i] = s[i]
      /\ t[Len(s) + 1] = p
  BY <1>6, AppendProperties
<1> HIDE DEF t
<1>8. ASSUME NEW q \in Proc PROVE g.myList[q] = l <=> \E i \in 1..Len(t) : t[i] = q
  <2>1. CASE q = p
    BY <1>1, <1>2, <1>6, <1>7, <2>1
  <2>2. CASE q # p
    <3>1. g.myList[q] = h.myList[q]
      BY <1>1, <1>2, <2>2
    <3>2. (\E i \in 1..Len(t) : t[i] = q) <=> \E i \in 1..Len(s) : s[i] = q
      BY <1>6, <1>7, <2>2
    <3> QED
      BY <1>4, <3>1, <3>2 DEF Chain
  <2> QED
    BY <2>1, <2>2
<1>9. ASSUME NEW i \in 1..Len(t), NEW j \in 1..Len(t), t[i] = t[j] PROVE i = j
  <2>1. \A n \in 1..Len(t) : n \in 1..Len(s) \/ n = Len(s) + 1
    BY <1>6, <1>7
  <2> QED
    BY <1>4, <1>6, <1>7, <1>9, <2>1 DEF Chain
<1>10. t[1] = g.firstLink[l] /\ t[Len(t)] = g.lastLink[l]
  <2>1. t[Len(t)] = g.lastLink[l]
    BY <1>1, <1>2, <1>7
  <2>2. CASE s = <<>>
    BY <1>1, <1>2, <1>5, <1>6, <1>7, <2>2, EmptySeq DEF IsEmptyList
  <2>3. CASE s # <<>>
    <3>1. 1 \in 1..Len(s) /\ s[1] = h.firstLink[l] /\ h.firstLink[l] # Nil
      BY <1>4, <1>5, <1>6, <2>3, EmptySeq DEF Chain, IsEmptyList
    <3> QED
      BY <1>1, <1>2, <1>7, <2>1, <3>1
  <2> QED
    BY <2>1, <2>2, <2>3
<1>11. ASSUME NEW i \in 1..Len(t), i # Len(t) PROVE g.nextLink[t[i]] = t[i + 1]
  <2>1. i \in 1..Len(s) /\ t[i] = s[i] /\ s # <<>> /\ h.firstLink[l] # Nil
    BY <1>5, <1>6, <1>7, <1>11, EmptySeq DEF IsEmptyList
  <2>2. s[Len(s)] = h.lastLink[l] /\ h.lastLink[l] \in Proc
    BY <1>4, <1>6, <2>1 DEF Chain
  <2>3. CASE i = Len(s)
    <3>1. t[i] = h.lastLink[l] /\ t[i + 1] = p
      BY <1>7, <2>1, <2>2, <2>3
    <3> QED
      BY <1>1, <1>2, <2>1, <2>2, <3>1
  <2>4. CASE i # Len(s)
    <3>1. i + 1 \in 1..Len(s) /\ Len(s) \in 1..Len(s)
      BY <1>6, <2>1, <2>4
    <3>2. h.nextLink[s[i]] = s[i + 1] /\ s[i] # h.lastLink[l] /\ s[i] # p /\ s[i] \in Proc
      BY <1>4, <1>6, <2>1, <2>2, <2>4, <3>1 DEF Chain
    <3>3. g.nextLink[s[i]] = h.nextLink[s[i]]
      BY <1>1, <1>2, <2>1, <3>2
    <3> QED
      BY <1>7, <2>1, <3>1, <3>2, <3>3
  <2> QED
    BY <2>3, <2>4
<1>12. Chain(g, l, t)
  BY <1>7, <1>8, <1>9, <1>10, <1>11 DEF Chain
<1>13. LinksOf(g, l) = t
  BY <1>3, <1>12, ChainIsLinks
<1>14. ASSUME NEW k \in List, k # l PROVE LinksOf(g, k) = LinksOf(h, k)
  <2>1. \A q \in Proc : g.myList[q] = k <=> h.myList[q] = k
    BY <1>1, <1>2, <1>14, NilAssumption
  <2>2. h.firstLink[l] # Nil => h.lastLink[l] \in Proc /\ h.myList[h.lastLink[l]] = l
    BY <1>1 DEF GoodHeap, LinksOK, EmptyListsAgree, EndsAreOnTheList
  <2>3. ASSUME NEW q \in Proc, h.myList[q] = k PROVE g.nextLink[q] = h.nextLink[q]
    BY <1>1, <1>2, <1>14, <2>2, <2>3, NilAssumption
  <2>4. g.firstLink[k] = h.firstLink[k] /\ g.lastLink[k] = h.lastLink[k]
    BY <1>1, <1>2, <1>14
  <2> QED
    BY <1>3, <2>1, <2>3, <2>4, SameChain
<1> QED
  BY <1>13, <1>14 DEF g, s, t

\* removeFirstLinkOfList takes the head off one queue.
LEMMA RemoveFirstTakesHead ==
    ASSUME NEW h, GoodHeap(h), NEW l \in List, ~IsEmptyList(h, l)
    PROVE  LET g == RemoveFirstLinkOfList(h, l)
           IN  \A k \in List : LinksOf(g, k) = IF k = l THEN Tail(LinksOf(h, k))
                                               ELSE LinksOf(h, k)
<1> DEFINE g == RemoveFirstLinkOfList(h, l)
           f == h.firstLink[l]
           s == LinksOf(h, l)
<1>1. /\ h.nextLink \in [Proc -> Proc \union {Nil}]
      /\ h.myList \in [Proc -> List \union {Nil}]
      /\ h.firstLink \in [List -> Proc \union {Nil}]
      /\ h.lastLink \in [List -> Proc \union {Nil}]
  BY DEF GoodHeap, Heap
<1>2. GoodHeap(g) /\ f \in Proc /\ h.myList[f] = l
  BY RemoveFirstKeepsLinks
<1>3. /\ g.nextLink = [h.nextLink EXCEPT ![f] = Nil]
      /\ g.myList = [h.myList EXCEPT ![f] = Nil]
      /\ g.firstLink = [h.firstLink EXCEPT ![l] =
                           IF f = h.lastLink[l] THEN Nil ELSE h.nextLink[f]]
      /\ g.lastLink = [h.lastLink EXCEPT ![l] = IF f = h.lastLink[l] THEN Nil ELSE @]
  BY <1>1, <1>2 DEF RemoveFirstLinkOfList, GoodHeap, Heap
<1>4. Chain(h, l, s)
  BY LinksAreChain
<1>5. s # <<>>
  BY FirstLinkIsHead
<1> HIDE DEF g, s, f
<1>6. /\ s \in Seq(Proc) /\ Len(s) \in Nat /\ Len(s) >= 1
      /\ \A i \in 1..Len(s) : s[i] \in Proc /\ h.myList[s[i]] = l
      /\ s[1] = f /\ s[Len(s)] = h.lastLink[l]
  BY <1>4, <1>5, EmptySeq DEF Chain, f
<1>7. \A i, j \in 1..Len(s) : s[i] = s[j] => i = j
  BY <1>4 DEF Chain
<1> DEFINE t == Tail(s)
<1>8. /\ t \in Seq(Proc) /\ Len(t) = Len(s) - 1
      /\ \A i \in 1..Len(t) : t[i] = s[i + 1]
  BY <1>5, <1>6, HeadTailProperties
<1> HIDE DEF t
<1>9. ASSUME NEW q \in Proc PROVE g.myList[q] = l <=> \E i \in 1..Len(t) : t[i] = q
  <2>1. ASSUME NEW i \in 1..Len(t), t[i] = q PROVE g.myList[q] = l
    <3>1. i + 1 \in 1..Len(s) /\ 1 \in 1..Len(s) /\ i + 1 # 1 /\ s[i + 1] = q
      BY <1>6, <1>8, <2>1
    <3>2. q # f /\ h.myList[q] = l
      BY <1>6, <1>7, <3>1
    <3> QED
      BY <1>1, <1>3, <3>2
  <2>2. ASSUME g.myList[q] = l PROVE \E i \in 1..Len(t) : t[i] = q
    <3>1. q # f /\ h.myList[q] = l
      BY <1>1, <1>2, <1>3, <2>2, NilAssumption
    <3>2. PICK i \in 1..Len(s) : s[i] = q
      BY <1>4, <3>1 DEF Chain
    <3>3. i - 1 \in 1..Len(t) /\ (i - 1) + 1 = i
      BY <1>6, <1>8, <3>1, <3>2
    <3>4. t[i - 1] = q
      BY <1>8, <3>2, <3>3
    <3> QED
      BY <3>3, <3>4
  <2> QED
    BY <2>1, <2>2
<1>10. ASSUME NEW i \in 1..Len(t), NEW j \in 1..Len(t), t[i] = t[j] PROVE i = j
  <2>1. i + 1 \in 1..Len(s) /\ j + 1 \in 1..Len(s) /\ s[i + 1] = s[j + 1]
    BY <1>6, <1>8, <1>10
  <2>2. i + 1 = j + 1
    BY <1>7, <2>1
  <2> QED
    BY <1>6, <1>8, <2>2
<1>11. ASSUME t # <<>> PROVE t[1] = g.firstLink[l] /\ t[Len(t)] = g.lastLink[l]
  <2>1. Len(t) >= 1 /\ Len(s) >= 2 /\ 1 \in 1..Len(s) /\ Len(s) \in 1..Len(s)
    BY <1>6, <1>8, <1>11, EmptySeq
  <2>2. f # h.lastLink[l]
    BY <1>6, <1>7, <2>1
  <2>3. h.nextLink[f] = s[2] /\ t[1] = s[2] /\ t[Len(t)] = s[Len(s)]
    <3>1. 1 # Len(s)
      BY <1>6, <2>1
    <3>2. h.nextLink[s[1]] = s[1 + 1]
      BY <1>4, <2>1, <3>1 DEF Chain
    <3>3. 1 \in 1..Len(t) /\ Len(t) \in 1..Len(t) /\ Len(t) + 1 = Len(s)
      BY <1>6, <1>8, <2>1
    <3> QED
      BY <1>6, <1>8, <3>2, <3>3
  <2> QED
    BY <1>1, <1>3, <1>6, <2>2, <2>3
<1>12. ASSUME NEW i \in 1..Len(t), i # Len(t) PROVE g.nextLink[t[i]] = t[i + 1]
  <2>1. /\ i + 1 \in 1..Len(s) /\ i + 1 # Len(s) /\ i + 1 # 1 /\ 1 \in 1..Len(s)
        /\ i + 1 \in 1..Len(t) /\ t[i] = s[i + 1] /\ t[i + 1] = s[(i + 1) + 1]
    BY <1>6, <1>8, <1>12
  <2>2. h.nextLink[s[i + 1]] = s[(i + 1) + 1] /\ s[i + 1] # f /\ s[i + 1] \in Proc
    BY <1>4, <1>6, <1>7, <2>1 DEF Chain
  <2> QED
    BY <1>1, <1>3, <2>1, <2>2
<1>13. Chain(g, l, t)
  BY <1>8, <1>9, <1>10, <1>11, <1>12 DEF Chain
<1>14. LinksOf(g, l) = t
  BY <1>2, <1>13, ChainIsLinks
<1>15. ASSUME NEW k \in List, k # l PROVE LinksOf(g, k) = LinksOf(h, k)
  <2>1. \A q \in Proc : g.myList[q] = k <=> h.myList[q] = k
    BY <1>1, <1>2, <1>3, <1>15, NilAssumption
  <2>2. ASSUME NEW q \in Proc, h.myList[q] = k PROVE g.nextLink[q] = h.nextLink[q]
    BY <1>1, <1>2, <1>3, <1>15, <2>2
  <2>3. g.firstLink[k] = h.firstLink[k] /\ g.lastLink[k] = h.lastLink[k]
    BY <1>1, <1>3, <1>15
  <2> QED
    BY <1>2, <2>1, <2>2, <2>3, SameChain
<1> QED
  BY <1>14, <1>15 DEF g, s, t

\* removeProcessFromList takes the process out of its queue, wherever it is.
LEMMA RemoveProcessTakesOut ==
    ASSUME NEW h, GoodHeap(h), NEW p \in Proc, h.myList[p] # Nil
    PROVE  LET l == h.myList[p]
               g == RemoveProcessFromList(h, p, l)
               s == LinksOf(h, l)
           IN  /\ \E i \in DOMAIN s :
                     s[i] = p /\ LinksOf(g, l) = SubSeq(s, 1, i - 1) \o SubSeq(s, i + 1, Len(s))
               /\ \A k \in List : k # l => LinksOf(g, k) = LinksOf(h, k)
<1> DEFINE l == h.myList[p]
           g == RemoveProcessFromList(h, p, l)
           s == LinksOf(h, l)
           t(i) == SubSeq(s, 1, i - 1) \o SubSeq(s, i + 1, Len(s))
<1>1. /\ h.nextLink \in [Proc -> Proc \union {Nil}]
      /\ h.myList \in [Proc -> List \union {Nil}]
      /\ h.firstLink \in [List -> Proc \union {Nil}]
      /\ h.lastLink \in [List -> Proc \union {Nil}]
      /\ l \in List /\ h \in Heap
  BY DEF GoodHeap, Heap
<1>2. GoodHeap(g) /\ g.myList = [h.myList EXCEPT ![p] = Nil]
  BY RemoveProcessKeepsLinks
<1>3. Chain(h, l, s)
  BY <1>1, LinksAreChain
<1> HIDE DEF s, l
<1>4. /\ s \in Seq(Proc) /\ Len(s) \in Nat /\ DOMAIN s = 1..Len(s)
      /\ \A i \in 1..Len(s) : s[i] \in Proc /\ h.myList[s[i]] = l
      /\ \A i, j \in 1..Len(s) : s[i] = s[j] => i = j
  BY <1>3 DEF Chain
<1>5. PICK i \in 1..Len(s) : s[i] = p
  BY <1>3 DEF Chain, l
<1>6. s # <<>> /\ s[1] = h.firstLink[l] /\ s[Len(s)] = h.lastLink[l] /\ h.firstLink[l] # Nil
  <2>1. s # <<>> /\ 1 \in 1..Len(s)
    BY <1>4, <1>5, EmptySeq
  <2>2. s[1] = h.firstLink[l] /\ s[Len(s)] = h.lastLink[l]
    BY <1>3, <2>1 DEF Chain
  <2>3. s[1] \in Proc
    BY <1>4, <2>1
  <2> QED
    BY <2>1, <2>2, <2>3, NilAssumption
<1>7. CASE i = 1
  <2>1. h.firstLink[l] = p /\ ~IsEmptyList(h, l) /\ g = RemoveFirstLinkOfList(h, l)
    BY <1>5, <1>6, <1>7 DEF RemoveProcessFromList, IsEmptyList
  <2>2. \A k \in List : LinksOf(g, k) = IF k = l THEN Tail(LinksOf(h, k)) ELSE LinksOf(h, k)
    BY <1>1, <2>1, RemoveFirstTakesHead
  <2>3. t(i) = Tail(s)
    <3>1. SubSeq(s, 1, 0) = <<>>
      BY SubSeqEmpty
    <3>2. Tail(s) = SubSeq(s, 2, Len(s)) /\ Tail(s) \in Seq(Proc)
      BY <1>4, <1>6, TailIsSubSeq, HeadTailProperties
    <3>3. <<>> \o Tail(s) = Tail(s)
      BY <3>2, ConcatEmptySeq
    <3> QED
      BY <1>7, <3>1, <3>2, <3>3
  <2>4. LinksOf(g, l) = t(i) /\ \A k \in List : k # l => LinksOf(g, k) = LinksOf(h, k)
    BY <1>1, <2>2, <2>3 DEF s
  <2> HIDE DEF g, t
  <2>5. /\ \E j \in DOMAIN s : s[j] = p /\ LinksOf(g, l) = t(j)
        /\ \A k \in List : k # l => LinksOf(g, k) = LinksOf(h, k)
    BY <1>4, <1>5, <2>4
  <2> QED
    BY <2>5 DEF g, t, s, l
<1>8. CASE i # 1
  <2> DEFINE prev == CHOOSE q \in Proc : h.nextLink[q] = p
  <2>0. i \in Nat /\ i >= 2 /\ i <= Len(s) /\ Len(s) \in Nat
    BY <1>4, <1>5, <1>8
  <2>1. i - 1 \in 1..Len(s) /\ (i - 1) + 1 = i /\ i - 1 # Len(s) /\ 1 \in 1..Len(s)
    BY <2>0
  <2>2. h.nextLink[s[i - 1]] = p /\ s[i - 1] \in Proc /\ p # s[1]
    <3>1. h.nextLink[s[i - 1]] = s[(i - 1) + 1]
      BY <1>3, <2>1 DEF Chain
    <3>2. p # s[1]
      BY <1>4, <1>5, <1>8, <2>1
    <3> QED
      BY <1>4, <1>5, <2>1, <3>1, <3>2
  <2>3. prev \in Proc /\ h.nextLink[prev] = p
    BY <2>2
  <2> HIDE DEF prev
  <2>4. prev = s[i - 1]
    BY <1>1, <2>2, <2>3, NilAssumption DEF GoodHeap, LinksOK, NoSharedLinks
  <2>5. prev # p
    BY <1>4, <1>5, <2>1, <2>4
  <2>6. /\ g.nextLink = [h.nextLink EXCEPT ![prev] = h.nextLink[p], ![p] = Nil]
        /\ g.firstLink = h.firstLink
        /\ g.lastLink = [h.lastLink EXCEPT ![l] = IF @ = p THEN prev ELSE @]
    BY <1>1, <1>6, <2>2, <2>3 DEF RemoveProcessFromList, Heap, prev
  <2> HIDE DEF g
  <2> DEFINE u == t(i)
  <2>7. /\ u \in Seq(Proc) /\ Len(u) = Len(s) - 1
        /\ \A j \in 1..(i - 1) : u[j] = s[j]
        /\ \A j \in i..(Len(s) - 1) : u[j] = s[j + 1]
    <3> DEFINE a == SubSeq(s, 1, i - 1)
               b == SubSeq(s, i + 1, Len(s))
    <3>1. /\ a \in Seq(Proc) /\ Len(a) = i - 1
          /\ \A j \in 1..(i - 1) : a[j] = s[j]
      <4>1. \A j \in 1..(i - 1) : s[j] \in Proc
        BY <1>4, <2>1
      <4>2. /\ a \in Seq(Proc) /\ Len(a) = IF 1 <= i - 1 THEN (i - 1) - 1 + 1 ELSE 0
            /\ \A j \in 1..((i - 1) - 1 + 1) : a[j] = s[1 + j - 1]
        <5> HIDE DEF a
        <5>1. 1 \in Int /\ i - 1 \in Int
          BY <2>1
        <5> QED
          BY <4>1, <5>1, SubSeqProperties DEF a
      <4> HIDE DEF a
      <4> QED
        BY <2>1, <4>2
    <3>2. /\ b \in Seq(Proc) /\ Len(b) = Len(s) - i
          /\ \A j \in 1..(Len(s) - i) : b[j] = s[i + j]
      <4>1. \A j \in (i + 1)..Len(s) : s[j] \in Proc
        BY <1>4, <2>1
      <4>2. /\ b \in Seq(Proc) /\ Len(b) = IF i + 1 <= Len(s) THEN Len(s) - (i + 1) + 1 ELSE 0
            /\ \A j \in 1..(Len(s) - (i + 1) + 1) : b[j] = s[(i + 1) + j - 1]
        <5> HIDE DEF b
        <5>1. i + 1 \in Int /\ Len(s) \in Int
          BY <1>4, <2>1
        <5> QED
          BY <4>1, <5>1, SubSeqProperties DEF b
      <4> HIDE DEF b
      <4>3. Len(s) - (i + 1) + 1 = Len(s) - i /\ (i + 1 <= Len(s) \/ Len(s) - i = 0)
        BY <2>0
      <4>4. Len(b) = Len(s) - i
        BY <4>2, <4>3
      <4>5. ASSUME NEW j \in 1..(Len(s) - i) PROVE b[j] = s[i + j]
        <5>1. (i + 1) + j - 1 = i + j
          BY <2>0
        <5>2. b[j] = s[(i + 1) + j - 1]
          BY <4>2, <4>3
        <5> QED
          BY <5>1, <5>2
      <4> QED
        BY <4>2, <4>4, <4>5
    <3> HIDE DEF a, b
    <3>3. /\ a \o b \in Seq(Proc) /\ Len(a \o b) = Len(a) + Len(b)
          /\ \A j \in 1..(Len(a) + Len(b)) : (a \o b)[j] = IF j <= Len(a) THEN a[j] ELSE b[j - Len(a)]
      BY <3>1, <3>2, ConcatProperties
    <3>4. u = a \o b
      BY DEF a, b
    <3> HIDE DEF u
    <3>5. u \in Seq(Proc) /\ Len(u) = Len(s) - 1
      <4>1. Len(a) = i - 1 /\ Len(b) = Len(s) - i
        BY <3>1, <3>2
      <4>2. u \in Seq(Proc) /\ Len(u) = Len(a) + Len(b)
        BY <3>3, <3>4
      <4>3. (i - 1) + (Len(s) - i) = Len(s) - 1
        BY <2>0
      <4> QED
        BY <4>1, <4>2, <4>3
    <3>6. ASSUME NEW j \in 1..(i - 1) PROVE u[j] = s[j]
      <4>1. j \in 1..(Len(a) + Len(b)) /\ j <= Len(a)
        BY <2>0, <3>1, <3>2
      <4> QED
        BY <3>1, <3>3, <3>4, <4>1
    <3>7. ASSUME NEW j \in i..(Len(s) - 1) PROVE u[j] = s[j + 1]
      <4>1. j \in 1..(Len(a) + Len(b)) /\ ~(j <= Len(a)) /\ j - Len(a) \in 1..(Len(s) - i)
            /\ i + (j - Len(a)) = j + 1
        BY <2>0, <3>1, <3>2
      <4>2. u[j] = b[j - Len(a)]
        BY <3>3, <3>4, <4>1
      <4>3. b[j - Len(a)] = s[i + (j - Len(a))]
        BY <3>2, <4>1
      <4> QED
        BY <4>1, <4>2, <4>3
    <3> QED
      BY <3>5, <3>6, <3>7
  <2> HIDE DEF t, u
  <2>8. ASSUME NEW j \in 1..Len(u)
        PROVE  LET m == IF j < i THEN j ELSE j + 1
               IN  m \in 1..Len(s) /\ m # i /\ u[j] = s[m]
    BY <1>4, <1>5, <2>7
  <2>9. ASSUME NEW m \in 1..Len(s), m # i
        PROVE  \E j \in 1..Len(u) : u[j] = s[m]
    <3>1. CASE m < i
      <4>1. m \in 1..Len(u) /\ m \in 1..(i - 1)
        BY <1>4, <1>5, <2>7, <3>1
      <4> QED
        BY <2>7, <4>1
    <3>2. CASE ~(m < i)
      <4>1. m - 1 \in 1..Len(u) /\ m - 1 \in i..(Len(s) - 1) /\ (m - 1) + 1 = m
        BY <1>4, <1>5, <2>7, <2>9, <3>2
      <4> QED
        BY <2>7, <4>1
    <3> QED
      BY <3>1, <3>2
  <2>10. ASSUME NEW q \in Proc PROVE g.myList[q] = l <=> \E j \in 1..Len(u) : u[j] = q
    <3>1. ASSUME NEW j \in 1..Len(u), u[j] = q PROVE g.myList[q] = l
      <4>1. PICK m \in 1..Len(s) : m # i /\ s[m] = q
        BY <2>8, <3>1
      <4>2. q # p /\ h.myList[q] = l
        BY <1>4, <1>5, <4>1
      <4> QED
        BY <1>1, <1>2, <4>2
    <3>2. ASSUME g.myList[q] = l PROVE \E j \in 1..Len(u) : u[j] = q
      <4>1. q # p /\ h.myList[q] = l
        BY <1>1, <1>2, <3>2, NilAssumption
      <4>2. PICK m \in 1..Len(s) : s[m] = q
        BY <1>3, <4>1 DEF Chain
      <4> QED
        BY <1>5, <2>9, <4>1, <4>2
    <3> QED
      BY <3>1, <3>2
  <2>11. ASSUME NEW j \in 1..Len(u), NEW m \in 1..Len(u), u[j] = u[m] PROVE j = m
    <3> DEFINE x == IF j < i THEN j ELSE j + 1
               y == IF m < i THEN m ELSE m + 1
    <3>1. x \in 1..Len(s) /\ y \in 1..Len(s) /\ s[x] = s[y]
      BY <2>8, <2>11
    <3>2. x = y
      <4> HIDE DEF x, y
      <4> QED
        BY <1>4, <3>1
    <3> QED
      BY <1>4, <1>5, <2>7, <3>2
  <2>12. ASSUME u # <<>> PROVE u[1] = g.firstLink[l] /\ u[Len(u)] = g.lastLink[l]
    <3>1. Len(u) >= 1 /\ u[1] = s[1]
      BY <1>4, <2>1, <2>7, <2>12, EmptySeq
    <3>2. CASE i = Len(s)
      <4>1. Len(u) = i - 1 /\ i - 1 \in 1..(i - 1)
        BY <2>0, <2>7, <3>2
      <4>2. h.lastLink[l] = p /\ u[Len(u)] = prev
        BY <1>5, <1>6, <2>4, <2>7, <3>2, <4>1
      <4> QED
        BY <1>1, <1>6, <2>6, <3>1, <4>2
    <3>3. CASE i # Len(s)
      <4>1. Len(s) \in 1..Len(s) /\ Len(u) \in i..(Len(s) - 1) /\ Len(u) + 1 = Len(s)
        BY <2>0, <2>7, <3>3
      <4>2. h.lastLink[l] # p
        <5>1. s[Len(s)] = s[i] => Len(s) = i
          BY <1>4, <1>5, <4>1
        <5> QED
          BY <1>5, <1>6, <3>3, <5>1
      <4>3. u[Len(u)] = h.lastLink[l]
        BY <1>6, <2>7, <4>1
      <4> QED
        BY <1>1, <1>6, <2>6, <3>1, <4>2, <4>3
    <3> QED
      BY <3>2, <3>3
  <2>13. ASSUME NEW j \in 1..Len(u), j # Len(u) PROVE g.nextLink[u[j]] = u[j + 1]
    <3>0. j \in Nat /\ j >= 1 /\ j < Len(u) /\ Len(u) \in Nat /\ Len(u) = Len(s) - 1
      BY <2>0, <2>7, <2>13
    <3>1. CASE j < i - 1
      <4>1. /\ u[j] = s[j] /\ u[j + 1] = s[j + 1] /\ j \in 1..Len(s) /\ j # Len(s)
            /\ j # i /\ j # i - 1
        <5>1. /\ j \in 1..(i - 1) /\ j + 1 \in 1..(i - 1) /\ j \in 1..Len(s) /\ j # Len(s)
              /\ j # i /\ j # i - 1
          BY <2>0, <3>0, <3>1
        <5> QED
          BY <2>7, <5>1
      <4>2. h.nextLink[s[j]] = s[j + 1]
        BY <1>3, <4>1 DEF Chain
      <4>3. s[j] # p /\ s[j] # prev /\ s[j] \in Proc
        <5>1. s[j] = s[i] => j = i
          BY <1>4, <1>5, <4>1
        <5>2. s[j] = s[i - 1] => j = i - 1
          BY <1>4, <2>1, <4>1
        <5>3. s[j] \in Proc
          BY <1>4, <4>1
        <5> QED
          BY <1>5, <2>4, <4>1, <5>1, <5>2, <5>3
      <4> QED
        BY <1>1, <2>3, <2>6, <4>1, <4>2, <4>3
    <3>2. CASE j = i - 1
      <4>1. /\ u[j] = prev /\ u[j + 1] = s[i + 1] /\ i # Len(s)
        <5>1. j \in 1..(i - 1) /\ j + 1 = i /\ i \in i..(Len(s) - 1) /\ i # Len(s)
          BY <2>0, <3>0, <3>2
        <5> QED
          BY <2>4, <2>7, <3>2, <5>1
      <4>2. h.nextLink[p] = s[i + 1]
        BY <1>3, <1>5, <4>1 DEF Chain
      <4> QED
        BY <1>1, <2>3, <2>5, <2>6, <4>1, <4>2
    <3>3. CASE j > i - 1
      <4>1. /\ u[j] = s[j + 1] /\ u[j + 1] = s[(j + 1) + 1] /\ j + 1 \in 1..Len(s)
            /\ j + 1 # Len(s) /\ j + 1 # i /\ j + 1 # i - 1
        <5>1. /\ j \in i..(Len(s) - 1) /\ j + 1 \in i..(Len(s) - 1) /\ j + 1 \in 1..Len(s)
              /\ j + 1 # Len(s) /\ j + 1 # i /\ j + 1 # i - 1
          BY <2>0, <3>0, <3>3
        <5> QED
          BY <2>7, <5>1
      <4>2. h.nextLink[s[j + 1]] = s[(j + 1) + 1]
        BY <1>3, <4>1 DEF Chain
      <4>3. s[j + 1] # p /\ s[j + 1] # prev /\ s[j + 1] \in Proc
        <5>1. s[j + 1] = s[i] => j + 1 = i
          BY <1>4, <1>5, <4>1
        <5>2. s[j + 1] = s[i - 1] => j + 1 = i - 1
          BY <1>4, <2>1, <4>1
        <5>3. s[j + 1] \in Proc
          BY <1>4, <4>1
        <5> QED
          BY <1>5, <2>4, <4>1, <5>1, <5>2, <5>3
      <4> QED
        BY <1>1, <2>3, <2>6, <4>1, <4>2, <4>3
    <3>4. j < i - 1 \/ j = i - 1 \/ j > i - 1
      BY <2>0, <3>0
    <3> QED
      BY <3>1, <3>2, <3>3, <3>4
  <2>14. Chain(g, l, u)
    BY <2>7, <2>10, <2>11, <2>12, <2>13 DEF Chain
  <2>15. LinksOf(g, l) = u
    BY <1>1, <1>2, <2>14, ChainIsLinks
  <2>16. ASSUME NEW k \in List, k # l PROVE LinksOf(g, k) = LinksOf(h, k)
    <3>1. \A q \in Proc : g.myList[q] = k <=> h.myList[q] = k
      BY <1>1, <1>2, <2>16, NilAssumption DEF l
    <3>2. h.myList[prev] = l
      BY <1>4, <2>1, <2>4
    <3>3. ASSUME NEW q \in Proc, h.myList[q] = k PROVE g.nextLink[q] = h.nextLink[q]
      BY <1>1, <2>3, <2>6, <2>16, <3>2, <3>3 DEF l
    <3>4. g.firstLink[k] = h.firstLink[k] /\ g.lastLink[k] = h.lastLink[k]
      BY <1>1, <2>6, <2>16
    <3>5. GoodHeap(g)
      BY <1>2
    <3> QED
      BY <3>1, <3>3, <3>4, <3>5, SameChain
  <2>17. /\ \E j \in DOMAIN s : s[j] = p /\ LinksOf(g, l) = t(j)
         /\ \A k \in List : k # l => LinksOf(g, k) = LinksOf(h, k)
    BY <1>4, <1>5, <2>15, <2>16 DEF u
  <2> QED
    BY <2>17 DEF g, t, s, l
<1> QED
  BY <1>7, <1>8

=============================================================================
