----------------------------- MODULE Compaction -----------------------------
(***************************************************************************)
(* The compacting half of ObjectMemory::fullGC.  Old space is scanned three*)
(* times in address order: to plan where each marked object goes (its first*)
(* field is saved in eden and replaced by the new address), to redirect    *)
(* references, and to slide the objects.  A word is a number: a positive   *)
(* one where a pointer is expected is the address of an object's header,   *)
(* others are SmallIntegers, and raw data may look like anything.          *)
(***************************************************************************)
EXTENDS Integers, Sequences, FiniteSetsExt

CONSTANTS
    Object,
    SlotCount,     \* the number of slots of each object
    KindOf,        \* "pointers", "bytes" or "method"
    Overflow,      \* objects whose slot count is in a word before the header
    Pinned,
    Classed,       \* objects whose class has an entry in classTable_
    Root, Frame,   \* the collector's roots; those that are a frame's method
    Layouts,       \* what old space may start with: where objects begin, and its end
    Graphs,        \* the contents it may start with, by identity
    Holdings,      \* what the roots may hold at the start, by identity
    IPOffset,      \* where a frame's instruction pointer is in its method
    OldSpaceEnd,   \* size of old space in words
    ScratchLimit,  \* size of eden in words
    MaxGCs, MaxMutations

OldSpaceStart == 1

WordCount(o) == Max({1, SlotCount[o]})

TotalSize(o) == WordCount(o) + (IF o \in Overflow THEN 2 ELSE 1)

ASSUME HeapAssumption ==
    /\ SlotCount \in [Object -> Nat]
    /\ KindOf \in [Object -> {"pointers", "bytes", "method"}]
    /\ Overflow \union Pinned \union Classed \subseteq Object
    /\ Frame \subseteq Root
    /\ IPOffset \in Nat /\ OldSpaceEnd \in Nat /\ ScratchLimit \in Nat
    /\ MaxGCs \in Nat /\ MaxMutations \in Nat
    /\ \A graph \in Graphs, o \in Object : DOMAIN graph[o] = 1..WordCount(o)

\* Bump allocation has filled old space from its start, object after object.
ASSUME LayoutAssumption ==
    \A layout \in Layouts :
        /\ DOMAIN layout.start \subseteq Object
        /\ layout.start \in [DOMAIN layout.start -> OldSpaceStart..OldSpaceEnd]
        /\ layout.free \in OldSpaceStart..(OldSpaceEnd + 1)
        /\ \A o \in DOMAIN layout.start :
              /\ layout.start[o] + TotalSize(o) <= layout.free
              /\ \A x \in DOMAIN layout.start \ {o} :
                    \/ layout.start[o] + TotalSize(o) <= layout.start[x]
                    \/ layout.start[x] + TotalSize(x) <= layout.start[o]

VARIABLES
    live,        \* the objects in old space
    start,       \* where each begins (at its overflow word, if it has one)
    words,       \* the words after the header: at least one
    roots,
    ip,          \* instruction pointers, and what prepareForGC makes of them
    free,        \* oldSpaceFree_
    phase,       \* "run", "plan", "update" or "copy"
    marked, grey,
    todo,        \* marked objects the scanner has not come to
    toFinger,
    saved,       \* savedFirstFieldsSpace_
    savedPtr,    \* how many saved fields the scan has gone past
    before,      \* history: the graph at the start of the collection
    gcs, mutations

heapVars == <<live, start, words, roots, free>>
scanVars == <<phase, todo, toFinger, savedPtr>>
countVars == <<gcs, mutations>>
vars == <<heapVars, ip, scanVars, marked, grey, saved, before, countVars>>

-----------------------------------------------------------------------------
(* Layout of objects *)

\* The address of the header of an object that begins at a.
HeaderAt(o, a) == IF o \in Overflow THEN a + 1 ELSE a

Header(o) == HeaderAt(o, start[o])

\* pointerSlotsOf, given the first field; a method's tells how many literals.
PointerSlots(o, first) ==
    CASE KindOf[o] = "pointers" -> SlotCount[o]
      [] KindOf[o] = "bytes"    -> 0
      [] KindOf[o] = "method"   ->
            IF first <= 0 THEN Min({1 - first, SlotCount[o]}) ELSE Min({1, SlotCount[o]})

ObjectsAt(a) == {o \in live : Header(o) = a}

-----------------------------------------------------------------------------
(* What an image may start with: references to objects it holds. *)

\* An object of L or a SmallInteger
Refers(L, v) == v \in L \/ (v \in Int /\ v <= 0)

\* Which of an object's words are references is seen from its first word.
Slots(o, first) == PointerSlots(o, IF first \in Object THEN 1 ELSE first)

WellFormed(L, contents, held) ==
    /\ \A o \in L : \A i \in 1..WordCount(o) :
          IF i <= Slots(o, contents[o][1]) THEN Refers(L, contents[o][i])
                                           ELSE contents[o][i] \in Int
    /\ \A r \in Root : Refers(L, held[r])

ASSUME ImageAssumption ==
    \A layout \in Layouts, graph \in Graphs, holding \in Holdings :
        WellFormed(DOMAIN layout.start, graph, holding)

-----------------------------------------------------------------------------
(* The graph the heap stands for *)

\* A reference to no object stands for itself.
Decode(w) == IF ObjectsAt(w) = {} THEN w ELSE CHOOSE o \in ObjectsAt(w) : TRUE

DecodedWords(o) ==
    [i \in DOMAIN words[o] |->
        IF i <= PointerSlots(o, words[o][1]) THEN Decode(words[o][i]) ELSE words[o][i]]

Graph ==
    [objects  |-> live,
     contents |-> [o \in live |-> DecodedWords(o)],
     held     |-> [r \in Root |-> Decode(roots[r])]]

Blank(o) == [i \in 1..WordCount(o) |-> 0]

Init ==
    \E layout \in Layouts, graph \in Graphs, holding \in Holdings :
        LET at == layout.start
            encode(w) == IF w \in Object THEN HeaderAt(w, at[w]) ELSE w
        IN  /\ live = DOMAIN at
            /\ start = at
            /\ words = [o \in live |-> [i \in DOMAIN graph[o] |-> encode(graph[o][i])]]
            /\ roots = [r \in Root |-> encode(holding[r])]
            /\ ip = [f \in Frame |-> roots[f] + 1 + IPOffset]
            /\ free = layout.free
            /\ phase = "run" /\ todo = {} /\ toFinger = OldSpaceStart /\ savedPtr = 0
            /\ marked = {} /\ grey = {} /\ saved = <<>>
            /\ before = Graph
            /\ gcs = 0 /\ mutations = 0

-----------------------------------------------------------------------------
(* The image, between collections *)

Mutate ==
    /\ phase = "run" /\ mutations < MaxMutations
    /\ mutations' = mutations + 1
    /\ UNCHANGED <<ip, scanVars, marked, grey, saved, before, gcs>>

\* allocateSlots, allocateBytes, allocateWords: bump allocation
Allocate(o, r) ==
    /\ Mutate
    /\ o \notin live /\ KindOf[o] # "method" /\ r \notin Frame
    /\ free + TotalSize(o) <= OldSpaceEnd + 1
    /\ live' = live \union {o}
    /\ start' = [x \in live' |-> IF x = o THEN free ELSE start[x]]
    /\ words' = [x \in live' |-> IF x = o THEN Blank(o) ELSE words[x]]
    /\ free' = free + TotalSize(o)
    /\ roots' = [roots EXCEPT ![r] = HeaderAt(o, free)]

Store(o, i, r) ==
    /\ Mutate
    /\ o \in live /\ KindOf[o] = "pointers" /\ i \in 1..SlotCount[o]
    /\ words' = [words EXCEPT ![o][i] = roots[r]]
    /\ UNCHANGED <<live, start, roots, free>>

Drop(r) ==
    /\ Mutate
    /\ r \notin Frame
    /\ roots' = [roots EXCEPT ![r] = 0]
    /\ UNCHANGED <<live, start, words, free>>

-----------------------------------------------------------------------------
(* Marking: see the module of that name. *)

Closed(S) ==
    \A o \in S : {DecodedWords(o)[i] : i \in 1..PointerSlots(o, words[o][1])}
                     \intersect Object \subseteq S

\* Instruction pointers become offsets into their methods.
PrepareForGC == ip' = [f \in Frame |-> ip[f] - (roots[f] + 1)]

\* prepareForGC, clearing of marks, markPhase: the marked objects are closed,
\* whatever became of ephemerons and weak objects.
StartCollection ==
    /\ phase = "run" /\ gcs < MaxGCs
    /\ before' = Graph
    /\ PrepareForGC
    /\ \E S \in SUBSET live :
          /\ {Decode(roots[r]) : r \in Root} \intersect Object \subseteq S
          /\ Closed(S)
          /\ marked' = S /\ todo' = S
    /\ grey' = {} /\ saved' = <<>>
    /\ toFinger' = OldSpaceStart /\ savedPtr' = 0
    /\ phase' = "plan" /\ gcs' = gcs + 1
    /\ UNCHANGED <<heapVars, mutations>>

-----------------------------------------------------------------------------
(* Planning *)

\* The next marked object the scanner comes to.
Scans(o) == o \in todo /\ \A x \in todo : start[o] <= start[x]

\* An object that is pinned, or in its place already.
PlanStay(o) ==
    /\ phase = "plan" /\ Scans(o)
    /\ o \in Pinned \/ toFinger = start[o]
    /\ grey' = grey \ {o}
    /\ toFinger' = start[o] + TotalSize(o)
    /\ todo' = todo \ {o}
    /\ UNCHANGED <<heapVars, ip, phase, savedPtr, marked, saved, before, countVars>>

\* When the scratch space is full planning stops, and fullGC goes on.
PlanMove(o) ==
    /\ phase = "plan" /\ Scans(o)
    /\ o \notin Pinned /\ toFinger # start[o]
    /\ IF Len(saved) < ScratchLimit
       THEN /\ saved' = Append(saved, words[o][1])
            /\ words' = [words EXCEPT ![o][1] = HeaderAt(o, toFinger)]
            /\ grey' = grey \union {o}
            /\ toFinger' = toFinger + TotalSize(o)
            /\ todo' = todo \ {o}
            /\ UNCHANGED phase
       ELSE /\ phase' = "update" /\ todo' = marked
            /\ UNCHANGED <<saved, words, grey, toFinger>>
    /\ UNCHANGED <<live, start, roots, free, ip, savedPtr, marked, before, countVars>>

FaultyEndPlanScansDead ==
    /\ phase = "plan" /\ todo = {}
    /\ phase' = "update" /\ todo' = live
    /\ UNCHANGED <<heapVars, ip, toFinger, savedPtr, marked, grey, saved, before, countVars>>

EndPlan ==
    /\ phase = "plan" /\ todo = {}
    /\ phase' = "update" /\ todo' = marked
    /\ UNCHANGED <<heapVars, ip, toFinger, savedPtr, marked, grey, saved, before, countVars>>

-----------------------------------------------------------------------------
(* Redirecting references *)

ResolveForward(w) ==
    LET targets == ObjectsAt(w) \intersect Classed \intersect marked \intersect grey
    IN  IF targets = {} THEN w ELSE words[CHOOSE o \in targets : TRUE][1]

\* Some object's words from one index to another, redirected.
Redirected(o, from, to) ==
    [i \in DOMAIN words[o] |->
        IF i \in from..to THEN ResolveForward(words[o][i]) ELSE words[o][i]]

UpdateStaying(o) ==
    /\ phase = "update" /\ Scans(o)
    /\ o \notin grey
    /\ words' = [words EXCEPT ![o] = Redirected(o, 1, PointerSlots(o, words[o][1]))]
    /\ todo' = todo \ {o}
    /\ UNCHANGED <<live, start, roots, free, ip, phase, toFinger, savedPtr, marked, grey,
                   saved, before, countVars>>

FaultyUpdateTrustsHeader(o) ==
    /\ phase = "update" /\ Scans(o)
    /\ o \in grey /\ savedPtr < Len(saved)
    /\ words' = [words EXCEPT ![o] = Redirected(o, 2, PointerSlots(o, words[o][1]))]
    /\ saved' = [saved EXCEPT ![savedPtr + 1] = ResolveForward(saved[savedPtr + 1])]
    /\ savedPtr' = savedPtr + 1
    /\ todo' = todo \ {o}
    /\ UNCHANGED <<live, start, roots, free, ip, phase, toFinger, marked, grey, before, countVars>>

\* The first field is in the scratch space.
UpdateMoving(o) ==
    /\ phase = "update" /\ Scans(o)
    /\ o \in grey /\ savedPtr < Len(saved)
    /\ LET first == saved[savedPtr + 1]
           n == PointerSlots(o, first)
       IN  /\ words' = [words EXCEPT ![o] = Redirected(o, 2, n)]
           /\ saved' = IF n > 0 THEN [saved EXCEPT ![savedPtr + 1] = ResolveForward(first)]
                       ELSE saved
    /\ savedPtr' = savedPtr + 1
    /\ todo' = todo \ {o}
    /\ UNCHANGED <<live, start, roots, free, ip, phase, toFinger, marked, grey, before, countVars>>

FaultyUpdateFewerRoots ==
    /\ phase = "update" /\ todo = {}
    /\ roots' = [r \in Root |-> IF r \in Frame THEN ResolveForward(roots[r]) ELSE roots[r]]
    /\ phase' = "copy" /\ todo' = marked
    /\ toFinger' = OldSpaceStart /\ savedPtr' = 0
    /\ UNCHANGED <<live, start, words, free, ip, marked, grey, saved, before, countVars>>

\* forEachMemoryRoot and forEachRoot
UpdateRoots ==
    /\ phase = "update" /\ todo = {}
    /\ roots' = [r \in Root |-> ResolveForward(roots[r])]
    /\ phase' = "copy" /\ todo' = marked
    /\ toFinger' = OldSpaceStart /\ savedPtr' = 0
    /\ UNCHANGED <<live, start, words, free, ip, marked, grey, saved, before, countVars>>

-----------------------------------------------------------------------------
(* Sliding *)

FaultyCopyPinnedClosesGap(o) ==
    /\ phase = "copy" /\ Scans(o)
    /\ o \in Pinned
    /\ toFinger' = toFinger + TotalSize(o)
    /\ todo' = todo \ {o} /\ grey' = grey \ {o}
    /\ UNCHANGED <<heapVars, ip, phase, savedPtr, marked, saved, before, countVars>>

CopyPinned(o) ==
    /\ phase = "copy" /\ Scans(o)
    /\ o \in Pinned
    /\ toFinger' = start[o] + TotalSize(o)
    /\ todo' = todo \ {o} /\ grey' = grey \ {o}
    /\ UNCHANGED <<heapVars, ip, phase, savedPtr, marked, saved, before, countVars>>

CopyMobile(o) ==
    /\ phase = "copy" /\ Scans(o)
    /\ o \notin Pinned
    /\ IF o \in grey /\ savedPtr < Len(saved)
       THEN /\ words' = [words EXCEPT ![o][1] = saved[savedPtr + 1]]
            /\ savedPtr' = savedPtr + 1
       ELSE UNCHANGED <<words, savedPtr>>
    /\ start' = [start EXCEPT ![o] = toFinger]
    /\ toFinger' = toFinger + TotalSize(o)
    /\ todo' = todo \ {o} /\ grey' = grey \ {o}
    /\ UNCHANGED <<live, roots, free, ip, phase, marked, saved, before, countVars>>

FaultyAfterGC == ip' = ip

\* Offsets become instruction pointers again, where the methods are now.
AfterGC == ip' = [f \in Frame |-> roots[f] + 1 + ip[f]]

\* The end of copyAndUnmark, and afterGC
EndCollection ==
    /\ phase = "copy" /\ todo = {}
    /\ free' = toFinger
    /\ live' = marked
    /\ start' = [o \in marked |-> start[o]] /\ words' = [o \in marked |-> words[o]]
    /\ AfterGC
    /\ marked' = {} /\ phase' = "run"
    /\ UNCHANGED <<roots, todo, toFinger, savedPtr, grey, saved, before, countVars>>

Compact ==
    \/ \E o \in marked : \/ PlanStay(o) \/ PlanMove(o)
                         \/ UpdateStaying(o) \/ UpdateMoving(o)
                         \/ CopyPinned(o) \/ CopyMobile(o)
    \/ EndPlan \/ UpdateRoots \/ EndCollection

Next ==
    \/ \E o \in Object, r \in Root : Allocate(o, r)
    \/ \E o \in live, r \in Root : \E i \in 1..SlotCount[o] : Store(o, i, r)
    \/ \E r \in Root : Drop(r)
    \/ StartCollection
    \/ Compact

Spec == Init /\ [][Next]_vars

-----------------------------------------------------------------------------
(* Properties *)

CompactionTypeOK ==
    /\ marked \subseteq live /\ todo \subseteq marked /\ grey \subseteq marked
    /\ live \subseteq Object
    /\ start \in [live -> OldSpaceStart..OldSpaceEnd]
    /\ DOMAIN words = live /\ \A o \in live : DOMAIN words[o] = 1..WordCount(o)
    /\ phase \in {"run", "plan", "update", "copy"}
    /\ toFinger \in OldSpaceStart..(OldSpaceEnd + 1) /\ free \in OldSpaceStart..(OldSpaceEnd + 1)
    /\ savedPtr \in 0..Len(saved) /\ Len(saved) <= ScratchLimit

Extent(o) == start[o]..(start[o] + TotalSize(o) - 1)

\* No object is slid over one that the scan has still to come to, or over one
\* that it has put in its place; in between collections no two overlap.
NoOverlap ==
    LET there == IF phase = "copy" THEN marked ELSE live
    IN  \A x, y \in there : x # y => Extent(x) \intersect Extent(y) = {}

\* Between collections a reference leads to an object's header.
NoStalePointer ==
    phase = "run" =>
        /\ \A r \in Root : roots[r] > 0 => ObjectsAt(roots[r]) # {}
        /\ \A o \in live : \A i \in 1..PointerSlots(o, words[o][1]) :
              words[o][i] > 0 => ObjectsAt(words[o][i]) # {}

\* What the theorems about references assume: objects are no numbers, each has
\* a class that is in the class table (resolveForward asks for it), and eden
\* has a word for the first field of every object that may move.
SoundImage ==
    /\ Object \intersect Int = {}
    /\ Object \subseteq Classed
    /\ IsFiniteSet(Object \ Pinned) /\ Cardinality(Object \ Pinned) <= ScratchLimit

\* A frame goes on at the same place of the same method.
FramesGoOn ==
    phase = "run" => \A f \in Frame : ip[f] = roots[f] + 1 + IPOffset

Image == IF phase = "run" THEN Graph ELSE before

G == INSTANCE ObjectGraph WITH
        objects <- Image.objects, contents <- Image.contents, held <- Image.held

\* Compaction implements ObjectGraph: across any number of collections every
\* surviving object keeps its fields, its raw data and who refers to it.
CollectionKeepsGraph == G!Spec
=============================================================================
