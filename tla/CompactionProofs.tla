-------------------------- MODULE CompactionProofs --------------------------
(***************************************************************************)
(* The compacting phase, for any heap, any pinned objects and any marked   *)
(* set.  First where it puts objects: nothing is ever slid over an object  *)
(* that is still to be moved, or was, at any size of the scratch area.     *)
(* Then what becomes of the words: with room in the scratch area, each     *)
(* reference that is redirected leads where its object goes, so the heap   *)
(* stands for the same graph before and after.                             *)
(***************************************************************************)
EXTENDS Compaction, SequenceTheorems, FiniteSetTheorems, TLAPS

Ends(o) == start[o] + TotalSize(o)

Apart(x, y) == Ends(x) <= start[y] \/ Ends(y) <= start[x]

\* While objects are slid the dead ones no longer count.
There == IF phase = "copy" THEN marked ELSE live

ShapeInv ==
    /\ marked \subseteq live /\ todo \subseteq marked /\ grey \subseteq marked
    /\ live \subseteq Object
    /\ DOMAIN words = live /\ \A o \in live : DOMAIN words[o] = 1..WordCount(o)
    /\ phase \in {"run", "plan", "update", "copy"}
    /\ phase = "run" => marked = {}
    /\ phase = "copy" => grey \subseteq todo

\* The two walks of toFinger, while planning and while sliding, stay behind the
\* objects to come; sliding leaves those it has placed behind.
SlideInv ==
    /\ start \in [live -> OldSpaceStart..OldSpaceEnd]
    /\ free \in OldSpaceStart..(OldSpaceEnd + 1)
    /\ toFinger \in OldSpaceStart..free
    /\ \A o \in There : Ends(o) <= free
    /\ \A x, y \in There : x # y => Apart(x, y)
    /\ phase \in {"plan", "copy"} => \A o \in todo : toFinger <= start[o]
    /\ phase = "copy" => \A o \in marked \ todo : Ends(o) <= toFinger

SavedInv ==
    /\ \E S : saved \in Seq(S)
    /\ Len(saved) <= ScratchLimit
    /\ savedPtr \in 0..Len(saved)

IInv == ShapeInv /\ SlideInv /\ SavedInv

-----------------------------------------------------------------------------
LEMMA SizesArePositive ==
    ASSUME NEW o \in Object
    PROVE  WordCount(o) \in Nat \ {0} /\ TotalSize(o) \in Nat \ {0}
<1>1. SlotCount[o] \in Nat
  BY HeapAssumption
<1>2. \E x \in {1, SlotCount[o]} : \A y \in {1, SlotCount[o]} : x >= y
  BY <1>1
<1>3. Max({1, SlotCount[o]}) \in {1, SlotCount[o]} /\ Max({1, SlotCount[o]}) >= 1
  BY <1>2 DEF Max
<1>4. WordCount(o) \in Nat \ {0}
  BY <1>1, <1>3 DEF WordCount
<1> QED
  BY <1>4 DEF TotalSize

LEMMA IInvInitially == Init => IInv
<1> SUFFICES ASSUME Init PROVE IInv
  OBVIOUS
<1>1. PICK layout \in Layouts, graph \in Graphs :
        /\ live = DOMAIN layout.start /\ start = layout.start /\ free = layout.free
        /\ DOMAIN words = live /\ \A o \in live : DOMAIN words[o] = DOMAIN graph[o]
        /\ phase = "run" /\ todo = {} /\ toFinger = OldSpaceStart /\ savedPtr = 0
        /\ marked = {} /\ grey = {} /\ saved = <<>>
  BY DEF Init
<1>2. ShapeInv
  BY <1>1, HeapAssumption, LayoutAssumption DEF ShapeInv
<1>3. SlideInv
  BY <1>1, LayoutAssumption DEF SlideInv, There, Apart, Ends, OldSpaceStart
<1>4. SavedInv
  <2>1. <<>> \in Seq({}) /\ Len(<<>>) = 0
    BY EmptySeq
  <2> QED
    BY <1>1, <2>1, HeapAssumption DEF SavedInv
<1> QED
  BY <1>2, <1>3, <1>4 DEF IInv

LEMMA ShapePreserved ==
    ASSUME ShapeInv, [Next]_vars
    PROVE  ShapeInv'
<1> USE DEF ShapeInv, heapVars, scanVars
<1>1. CASE UNCHANGED vars
  BY <1>1 DEF vars
<1>2. ASSUME NEW o \in Object, NEW r \in Root, Allocate(o, r) PROVE ShapeInv'
  BY <1>2 DEF Allocate, Mutate, Blank
<1>3. ASSUME NEW o \in live, NEW r \in Root, NEW i \in 1..SlotCount[o], Store(o, i, r)
      PROVE  ShapeInv'
  BY <1>3 DEF Store, Mutate
<1>4. ASSUME NEW r \in Root, Drop(r) PROVE ShapeInv'
  BY <1>4 DEF Drop, Mutate
<1>5. CASE StartCollection
  BY <1>5 DEF StartCollection
<1>6. ASSUME NEW o \in marked, PlanStay(o) PROVE ShapeInv'
  BY <1>6 DEF PlanStay
<1>7. ASSUME NEW o \in marked, PlanMove(o) PROVE ShapeInv'
  BY <1>7 DEF PlanMove
<1>8. ASSUME NEW o \in marked, UpdateStaying(o) PROVE ShapeInv'
  BY <1>8 DEF UpdateStaying, Redirected
<1>9. ASSUME NEW o \in marked, UpdateMoving(o) PROVE ShapeInv'
  BY <1>9 DEF UpdateMoving, Redirected
<1>10. ASSUME NEW o \in marked, CopyPinned(o) PROVE ShapeInv'
  BY <1>10 DEF CopyPinned
<1>11. ASSUME NEW o \in marked, CopyMobile(o) PROVE ShapeInv'
  BY <1>11 DEF CopyMobile
<1>12. CASE EndPlan
  BY <1>12 DEF EndPlan
<1>13. CASE UpdateRoots
  BY <1>13 DEF UpdateRoots
<1>14. CASE EndCollection
  BY <1>14 DEF EndCollection
<1> QED
  BY <1>1, <1>2, <1>3, <1>4, <1>5, <1>6, <1>7, <1>8, <1>9, <1>10, <1>11, <1>12,
     <1>13, <1>14 DEF Next, Compact

\* The object the scanner comes to lies before the other ones to come.
LEMMA ScansInOrder ==
    ASSUME ShapeInv, SlideInv, NEW o, Scans(o), NEW x \in todo, x # o
    PROVE  Ends(o) <= start[x]
<1>1. o \in todo /\ o \in There /\ x \in There /\ o \in Object /\ x \in Object
  BY DEF Scans, ShapeInv, There
<1>2. start[o] <= start[x] /\ start[o] \in Nat /\ start[x] \in Nat
  BY <1>1 DEF Scans, SlideInv, ShapeInv, OldSpaceStart
<1>3. Apart(o, x)
  BY <1>1 DEF SlideInv
<1>4. TotalSize(o) \in Nat \ {0} /\ TotalSize(x) \in Nat \ {0}
  BY <1>1, SizesArePositive
<1> QED
  BY <1>2, <1>3, <1>4 DEF Apart, Ends

LEMMA Places ==
    ASSUME ShapeInv, SlideInv, NEW o \in There
    PROVE  /\ o \in live /\ o \in Object
           /\ start[o] \in Nat /\ start[o] >= OldSpaceStart /\ start[o] <= OldSpaceEnd
           /\ TotalSize(o) \in Nat \ {0} /\ Ends(o) \in Nat /\ Ends(o) <= free
           /\ Ends(o) = start[o] + TotalSize(o)
<1>1. o \in live /\ o \in Object
  BY DEF There, ShapeInv
<1>2. start[o] \in Nat /\ start[o] >= OldSpaceStart /\ start[o] <= OldSpaceEnd
  BY <1>1, HeapAssumption DEF SlideInv, OldSpaceStart
<1>3. TotalSize(o) \in Nat \ {0}
  BY <1>1, SizesArePositive
<1> QED
  BY <1>1, <1>2, <1>3 DEF SlideInv, Ends

LEMMA Fingers ==
    ASSUME SlideInv
    PROVE  /\ free \in Nat /\ toFinger \in Nat /\ toFinger >= OldSpaceStart
           /\ toFinger <= free /\ free <= OldSpaceEnd + 1 /\ OldSpaceEnd \in Nat
BY HeapAssumption DEF SlideInv, OldSpaceStart

\* A scan moves its finger up to the end of an object, at most.
LEMMA FingerMoves ==
    ASSUME ShapeInv, SlideInv, phase \in {"plan", "copy"}, NEW o, Scans(o),
           NEW f \in Nat, OldSpaceStart <= f, f <= Ends(o)
    PROVE  /\ f \in OldSpaceStart..free
           /\ \A x \in todo \ {o} : f <= start[x]
<1>1. o \in todo /\ o \in There /\ todo \subseteq There
  BY DEF Scans, ShapeInv, There
<1>2. f <= free
  BY <1>1, Places, Fingers
<1>3. ASSUME NEW x \in todo \ {o} PROVE f <= start[x]
  <2>1. Ends(o) <= start[x]
    BY ScansInOrder
  <2>2. Ends(o) \in Nat /\ start[x] \in Nat
    BY <1>1, Places
  <2> QED
    BY <2>1, <2>2
<1> QED
  BY <1>2, <1>3, Fingers DEF OldSpaceStart

LEMMA SlidePreserved ==
    ASSUME ShapeInv, SlideInv, [Next]_vars
    PROVE  SlideInv'
<1> USE DEF heapVars, scanVars
<1>a. UNCHANGED <<start, live, free, marked, phase, todo, toFinger>> => SlideInv'
  BY DEF SlideInv, There, Apart, Ends
<1>b. ASSUME UNCHANGED <<start, live, free>>, phase # "copy", phase' \in {"plan", "update"},
             toFinger' \in OldSpaceStart..free,
             phase' = "plan" => \A o \in todo' : toFinger' <= start[o]
      PROVE  SlideInv'
  <2>1. There = live /\ There' = live /\ phase' # "copy"
    BY <1>b DEF There
  <2>2. /\ start' \in [live' -> OldSpaceStart..OldSpaceEnd]
        /\ free' \in OldSpaceStart..(OldSpaceEnd + 1)
        /\ toFinger' \in OldSpaceStart..free'
    BY <1>b DEF SlideInv
  <2>3. /\ \A x \in There' : (Ends(x) <= free)'
        /\ \A x, y \in There' : x # y => Apart(x, y)'
    BY <1>b, <2>1 DEF SlideInv, Apart, Ends
  <2>4. phase' = "plan" => \A o \in todo' : toFinger' <= start'[o]
    BY <1>b
  <2> QED
    BY <2>1, <2>2, <2>3, <2>4 DEF SlideInv
<1>1. CASE UNCHANGED vars
  BY <1>1, <1>a DEF vars
<1>2. ASSUME NEW o \in Object, NEW r \in Root, Allocate(o, r) PROVE SlideInv'
  <2>1. /\ o \notin live /\ live' = live \union {o} /\ free' = free + TotalSize(o)
        /\ start' = [x \in live' |-> IF x = o THEN free ELSE start[x]]
        /\ free + TotalSize(o) <= OldSpaceEnd + 1
        /\ phase = "run" /\ UNCHANGED <<phase, toFinger, todo, marked>>
    BY <1>2 DEF Allocate, Mutate
  <2>2. TotalSize(o) \in Nat \ {0}
    BY SizesArePositive
  <2>3. There = live /\ There' = live \union {o}
    BY <2>1 DEF There
  <2>4. start' \in [live' -> OldSpaceStart..OldSpaceEnd]
    BY <2>1, <2>2, Fingers DEF SlideInv, OldSpaceStart
  <2>5. free' \in OldSpaceStart..(OldSpaceEnd + 1) /\ toFinger' \in OldSpaceStart..free'
    BY <2>1, <2>2, Fingers DEF OldSpaceStart
  <2>6. start'[o] = free /\ Ends(o)' = free' /\ \A x \in live : start'[x] = start[x] /\ Ends(x)' = Ends(x)
    BY <2>1 DEF Ends
  <2>7. \A x \in live : Ends(x) \in Nat /\ Ends(x) <= free
    BY <2>3, Places
  <2>8. \A x \in There' : (Ends(x) <= free)'
    BY <2>1, <2>2, <2>3, <2>6, <2>7, Fingers
  <2>9. \A x, y \in There' : x # y => Apart(x, y)'
    BY <2>3, <2>6, <2>7 DEF SlideInv, Apart
  <2> QED
    BY <2>1, <2>4, <2>5, <2>8, <2>9 DEF SlideInv
<1>3. ASSUME NEW o \in live, NEW r \in Root, NEW i \in 1..SlotCount[o], Store(o, i, r)
      PROVE  SlideInv'
  BY <1>3, <1>a DEF Store, Mutate
<1>4. ASSUME NEW r \in Root, Drop(r) PROVE SlideInv'
  BY <1>4, <1>a DEF Drop, Mutate
<1>5. CASE StartCollection
  BY <1>5, <1>b, Fingers DEF StartCollection, SlideInv, ShapeInv, OldSpaceStart
<1>6. ASSUME NEW o \in marked, PlanStay(o) PROVE SlideInv'
  <2>1. /\ phase = "plan" /\ Scans(o) /\ toFinger' = Ends(o) /\ todo' = todo \ {o}
        /\ phase' = "plan" /\ UNCHANGED <<start, live, free>>
    BY <1>6 DEF PlanStay, Ends
  <2>2. o \in There
    BY <2>1 DEF Scans, There, ShapeInv
  <2>3. Ends(o) \in Nat /\ OldSpaceStart <= Ends(o) /\ Ends(o) <= Ends(o)
    BY <2>2, Places DEF OldSpaceStart
  <2>4. toFinger' \in OldSpaceStart..free /\ \A x \in todo' : toFinger' <= start[x]
    BY <2>1, <2>3, FingerMoves
  <2> QED
    BY <2>1, <2>4, <1>b
<1>7. ASSUME NEW o \in marked, PlanMove(o) PROVE SlideInv'
  <2>1. /\ phase = "plan" /\ Scans(o) /\ UNCHANGED <<start, live, free>>
        /\ \/ phase' = "plan" /\ toFinger' = toFinger + TotalSize(o) /\ todo' = todo \ {o}
           \/ phase' = "update" /\ toFinger' = toFinger
    BY <1>7 DEF PlanMove
  <2>2. o \in There /\ toFinger <= start[o]
    BY <2>1 DEF Scans, There, ShapeInv, SlideInv
  <2>3. /\ toFinger + TotalSize(o) \in Nat /\ OldSpaceStart <= toFinger + TotalSize(o)
        /\ toFinger + TotalSize(o) <= Ends(o)
    BY <2>2, Places, Fingers DEF OldSpaceStart
  <2>4. /\ toFinger + TotalSize(o) \in OldSpaceStart..free
        /\ \A x \in todo \ {o} : toFinger + TotalSize(o) <= start[x]
    BY <2>1, <2>3, FingerMoves
  <2>5. toFinger \in OldSpaceStart..free
    BY DEF SlideInv
  <2> QED
    BY <2>1, <2>4, <2>5, <1>b
<1>8. ASSUME NEW o \in marked, UpdateStaying(o) PROVE SlideInv'
  BY <1>8, <1>b DEF UpdateStaying, SlideInv
<1>9. ASSUME NEW o \in marked, UpdateMoving(o) PROVE SlideInv'
  BY <1>9, <1>b DEF UpdateMoving, SlideInv
<1>10. ASSUME NEW o \in marked, CopyPinned(o) PROVE SlideInv'
  <2>1. /\ phase = "copy" /\ Scans(o) /\ toFinger' = Ends(o) /\ todo' = todo \ {o}
        /\ UNCHANGED <<phase, start, live, free, marked>>
    BY <1>10 DEF CopyPinned, Ends
  <2>2. There = marked /\ There' = marked /\ todo \subseteq marked
    BY <2>1 DEF There, ShapeInv
  <2>3. /\ Ends(o) \in Nat /\ OldSpaceStart <= Ends(o) /\ start[o] \in Nat
        /\ start[o] <= Ends(o) /\ toFinger <= start[o]
    BY <2>1, <2>2, Places DEF Scans, SlideInv, OldSpaceStart
  <2>4. toFinger' \in OldSpaceStart..free' /\ \A x \in todo' : toFinger' <= start'[x]
    BY <2>1, <2>3, FingerMoves
  <2>5. ASSUME NEW x \in marked \ todo' PROVE Ends(x)' <= toFinger'
    <3>1. CASE x = o
      BY <2>1, <2>3, <3>1 DEF Ends
    <3>2. CASE x # o
      <4>1. Ends(x) <= toFinger /\ Ends(x) \in Nat /\ Ends(x)' = Ends(x)
        BY <2>1, <2>2, <2>5, <3>2, Places DEF SlideInv, Ends
      <4> QED
        BY <4>1, <2>1, <2>3, Fingers
    <3> QED
      BY <3>1, <3>2
  <2> QED
    BY <2>1, <2>2, <2>4, <2>5 DEF SlideInv, Apart, Ends
<1>11. ASSUME NEW o \in marked, CopyMobile(o) PROVE SlideInv'
  <2>1. /\ phase = "copy" /\ Scans(o) /\ start' = [start EXCEPT ![o] = toFinger]
        /\ toFinger' = toFinger + TotalSize(o) /\ todo' = todo \ {o}
        /\ UNCHANGED <<phase, live, free, marked>>
    BY <1>11 DEF CopyMobile
  <2>2. There = marked /\ There' = marked /\ todo \subseteq marked /\ o \in live
    BY <2>1 DEF There, ShapeInv
  <2>3. toFinger <= start[o] /\ start[o] \in Nat /\ TotalSize(o) \in Nat \ {0} /\ start[o] <= OldSpaceEnd
    BY <2>1, <2>2, Places DEF Scans, SlideInv
  <2>4. /\ toFinger' \in Nat /\ OldSpaceStart <= toFinger' /\ toFinger' <= Ends(o)
        /\ toFinger <= toFinger'
    BY <2>1, <2>3, Fingers DEF Ends, OldSpaceStart
  <2>5. /\ start'[o] = toFinger /\ Ends(o)' = toFinger'
        /\ \A x \in marked \ {o} : start'[x] = start[x] /\ Ends(x)' = Ends(x)
    BY <2>1, <2>2 DEF SlideInv, Ends, ShapeInv
  <2>6. start' \in [live' -> OldSpaceStart..OldSpaceEnd]
    <3>1. toFinger \in OldSpaceStart..OldSpaceEnd
      BY <2>3, Fingers DEF OldSpaceStart
    <3>2. start \in [live -> OldSpaceStart..OldSpaceEnd] /\ live' = live
      BY <2>1 DEF SlideInv
    <3> QED
      BY <2>1, <3>1, <3>2
  <2>7. toFinger' \in OldSpaceStart..free /\ \A x \in todo \ {o} : toFinger' <= start[x]
    BY <2>1, <2>4, FingerMoves
  <2>8. \A x \in marked \ todo : Ends(x) <= toFinger /\ Ends(x) \in Nat
    BY <2>1, <2>2, Places DEF SlideInv
  <2>9. \A x \in marked \ todo' : Ends(x)' <= toFinger'
    BY <2>1, <2>4, <2>5, <2>8, Fingers
  <2>10. \A x \in marked \ {o} : Apart(o, x)' /\ Apart(x, o)'
    BY <2>1, <2>5, <2>7, <2>8 DEF Apart
  <2>11. \A x, y \in There' : x # y => Apart(x, y)'
    BY <2>2, <2>5, <2>10 DEF SlideInv, Apart
  <2>12. \A x \in There' : (Ends(x) <= free)'
    BY <2>1, <2>2, <2>5, <2>7, Places DEF OldSpaceStart
  <2>13. \A x \in todo' : toFinger' <= start'[x]
    BY <2>1, <2>2, <2>5, <2>7
  <2>14. free' \in OldSpaceStart..(OldSpaceEnd + 1)
    BY <2>1 DEF SlideInv
  <2> QED
    BY <2>1, <2>6, <2>7, <2>9, <2>11, <2>12, <2>13, <2>14 DEF SlideInv
<1>12. CASE EndPlan
  BY <1>12, <1>b DEF EndPlan, SlideInv
<1>13. CASE UpdateRoots
  <2>1. /\ phase = "update" /\ phase' = "copy" /\ todo' = marked /\ toFinger' = OldSpaceStart
        /\ UNCHANGED <<start, live, free, marked>>
    BY <1>13 DEF UpdateRoots
  <2>2. There = live /\ There' = marked /\ marked \subseteq live
    BY <2>1 DEF There, ShapeInv
  <2>3. \A o \in todo' : toFinger' <= start'[o]
    BY <2>1, <2>2, Places
  <2>4. toFinger' \in OldSpaceStart..free'
    BY <2>1, Fingers DEF OldSpaceStart
  <2> QED
    BY <2>1, <2>2, <2>3, <2>4 DEF SlideInv, Apart, Ends
<1>14. CASE EndCollection
  <2>1. /\ phase = "copy" /\ phase' = "run" /\ todo = {} /\ free' = toFinger
        /\ toFinger' = toFinger /\ live' = marked /\ start' = [o \in marked |-> start[o]]
    BY <1>14 DEF EndCollection
  <2>2. There = marked /\ There' = marked /\ marked \subseteq live
    BY <2>1 DEF There, ShapeInv
  <2>3. start' \in [live' -> OldSpaceStart..OldSpaceEnd]
    BY <2>1, <2>2 DEF SlideInv
  <2>4. free' \in OldSpaceStart..(OldSpaceEnd + 1) /\ toFinger' \in OldSpaceStart..free'
    BY <2>1, Fingers DEF OldSpaceStart
  <2> QED
    BY <2>1, <2>2, <2>3, <2>4 DEF SlideInv, Apart, Ends
<1> QED
  BY <1>1, <1>2, <1>3, <1>4, <1>5, <1>6, <1>7, <1>8, <1>9, <1>10, <1>11, <1>12,
     <1>13, <1>14 DEF Next, Compact

LEMMA SavedPreserved ==
    ASSUME ShapeInv, SavedInv, [Next]_vars
    PROVE  SavedInv'
<1> USE DEF heapVars, scanVars
<1>a. UNCHANGED <<saved, savedPtr>> => SavedInv'
  BY DEF SavedInv
<1>b. Len(saved) \in Nat /\ ScratchLimit \in Nat
  BY LenProperties, HeapAssumption DEF SavedInv
<1>1. CASE UNCHANGED vars
  BY <1>1, <1>a DEF vars
<1>2. ASSUME NEW o \in Object, NEW r \in Root, Allocate(o, r) PROVE SavedInv'
  BY <1>2, <1>a DEF Allocate, Mutate
<1>3. ASSUME NEW o \in live, NEW r \in Root, NEW i \in 1..SlotCount[o], Store(o, i, r)
      PROVE  SavedInv'
  BY <1>3, <1>a DEF Store, Mutate
<1>4. ASSUME NEW r \in Root, Drop(r) PROVE SavedInv'
  BY <1>4, <1>a DEF Drop, Mutate
<1>5. CASE StartCollection
  <2>1. saved' = <<>> /\ savedPtr' = 0
    BY <1>5 DEF StartCollection
  <2>2. <<>> \in Seq({}) /\ Len(<<>>) = 0 /\ 0 \in 0..0
    BY EmptySeq
  <2> QED
    BY <2>1, <2>2, <1>b DEF SavedInv
<1>6. ASSUME NEW o \in marked, PlanStay(o) PROVE SavedInv'
  BY <1>6, <1>a DEF PlanStay
<1>7. ASSUME NEW o \in marked, PlanMove(o) PROVE SavedInv'
  <2>1. CASE Len(saved) < ScratchLimit
    <3>1. saved' = Append(saved, words[o][1]) /\ savedPtr' = savedPtr
      BY <1>7, <2>1 DEF PlanMove
    <3>2. PICK S : saved \in Seq(S)
      BY DEF SavedInv
    <3>3. saved \in Seq(S \union {words[o][1]})
      BY <3>2, SeqMonotonic
    <3>4. saved' \in Seq(S \union {words[o][1]}) /\ Len(saved') = Len(saved) + 1
      BY <3>1, <3>3, AppendProperties
    <3> QED
      BY <2>1, <3>1, <3>4, <1>b DEF SavedInv
  <2>2. CASE ~(Len(saved) < ScratchLimit)
    BY <1>7, <2>2, <1>a DEF PlanMove
  <2> QED
    BY <2>1, <2>2
<1>8. ASSUME NEW o \in marked, UpdateStaying(o) PROVE SavedInv'
  BY <1>8, <1>a DEF UpdateStaying
<1>9. ASSUME NEW o \in marked, UpdateMoving(o) PROVE SavedInv'
  <2>1. savedPtr < Len(saved) /\ savedPtr' = savedPtr + 1
        /\ \/ saved' = saved
           \/ saved' = [saved EXCEPT ![savedPtr + 1] = ResolveForward(saved[savedPtr + 1])]
    BY <1>9 DEF UpdateMoving
  <2>2. PICK S : saved \in Seq(S)
    BY DEF SavedInv
  <2> DEFINE w == ResolveForward(saved[savedPtr + 1])
             T == S \union {w}
  <2>3. saved \in Seq(T) /\ w \in T
    BY <2>2, SeqMonotonic
  <2>4. savedPtr + 1 \in 1..Len(saved)
    BY <2>1, <1>b DEF SavedInv
  <2> HIDE DEF T, w
  <2>5. /\ [saved EXCEPT ![savedPtr + 1] = w] \in Seq(T)
        /\ Len([saved EXCEPT ![savedPtr + 1] = w]) = Len(saved)
    BY <2>3, <2>4, ExceptSeq
  <2>6. saved' \in Seq(T) /\ Len(saved') = Len(saved)
    BY <2>1, <2>3, <2>5 DEF w
  <2> QED
    BY <2>1, <2>4, <2>6, <1>b DEF SavedInv
<1>10. ASSUME NEW o \in marked, CopyPinned(o) PROVE SavedInv'
  BY <1>10, <1>a DEF CopyPinned
<1>11. ASSUME NEW o \in marked, CopyMobile(o) PROVE SavedInv'
  BY <1>11, <1>b DEF CopyMobile, SavedInv
<1>12. CASE EndPlan
  BY <1>12, <1>a DEF EndPlan
<1>13. CASE UpdateRoots
  BY <1>13, <1>b DEF UpdateRoots, SavedInv
<1>14. CASE EndCollection
  BY <1>14, <1>a DEF EndCollection
<1> QED
  BY <1>1, <1>2, <1>3, <1>4, <1>5, <1>6, <1>7, <1>8, <1>9, <1>10, <1>11, <1>12,
     <1>13, <1>14 DEF Next, Compact

LEMMA IInvHolds == Spec => []IInv
<1>1. IInv /\ [Next]_vars => IInv'
  BY ShapePreserved, SlidePreserved, SavedPreserved DEF IInv
<1> QED
  BY <1>1, IInvInitially, PTL DEF Spec

\* The collector's pointers and lists stay within old space and within the
\* scratch area, also when that is full.
THEOREM CompactionTypeCorrect == Spec => []CompactionTypeOK
<1>1. IInv => CompactionTypeOK
  <2> SUFFICES ASSUME IInv PROVE CompactionTypeOK
    OBVIOUS
  <2>1. toFinger \in OldSpaceStart..(OldSpaceEnd + 1) /\ free \in OldSpaceStart..(OldSpaceEnd + 1)
    BY Fingers DEF IInv, OldSpaceStart
  <2> QED
    BY <2>1 DEF IInv, ShapeInv, SlideInv, SavedInv, CompactionTypeOK
<1> QED
  BY <1>1, IInvHolds, PTL

\* Sliding overwrites no object that is alive: neither one that the scan has
\* still to come to nor one in its new place, whatever is pinned or dead in
\* between.
THEOREM ObjectsStayApart == Spec => []NoOverlap
<1>1. IInv => NoOverlap
  <2> SUFFICES ASSUME IInv, NEW x \in There, NEW y \in There, x # y
               PROVE  Extent(x) \intersect Extent(y) = {}
    BY DEF NoOverlap, There
  <2>1. Apart(x, y)
    BY DEF IInv, SlideInv
  <2>2. start[x] \in Nat /\ start[y] \in Nat /\ Ends(x) \in Nat /\ Ends(y) \in Nat
        /\ TotalSize(x) \in Nat /\ TotalSize(y) \in Nat
    BY Places DEF IInv
  <2>3. ASSUME NEW n \in Extent(x), n \in Extent(y) PROVE FALSE
    <3>1. /\ n \in Int /\ start[x] <= n /\ n < Ends(x) /\ start[y] <= n /\ n < Ends(y)
      BY <2>2, <2>3 DEF Ends, Extent
    <3> QED
      BY <2>1, <2>2, <3>1 DEF Apart
  <2> QED
    BY <2>3
<1> QED
  BY <1>1, IInvHolds, PTL

-----------------------------------------------------------------------------
(* References *)

\* The word that stands for v when objects begin where at says.
WordFor(v, at) == IF v \in Object THEN HeaderAt(v, at[v]) ELSE v

HeadersApart(L, at) ==
    /\ \A o \in L : at[o] \in Nat /\ at[o] >= 1
    /\ \A x, y \in L : HeaderAt(x, at[x]) = HeaderAt(y, at[y]) => x = y

\* The heap stands for the contents c and the holdings h.
Shows(L, at, wd, rt, c, h) ==
    /\ WellFormed(L, c, h)
    /\ \A o \in L :
          /\ DOMAIN wd[o] = 1..WordCount(o)
          /\ \A i \in 1..WordCount(o) : wd[o][i] = WordFor(c[o][i], at)
    /\ \A r \in Root : rt[r] = WordFor(h[r], at)

Canon(L, c, h) ==
    [objects  |-> L,
     contents |-> [o \in L |-> [i \in 1..WordCount(o) |-> c[o][i]]],
     held     |-> [r \in Root |-> h[r]]]

-----------------------------------------------------------------------------
(* The collection under way *)

\* Where an object goes: its first word tells, once it has been planned to move.
Goal ==
    [o \in marked |->
        IF o \notin grey THEN start[o]
        ELSE IF o \in Overflow THEN words[o][1] - 1 ELSE words[o][1]]

\* How many of the saved first fields are back in their objects.
Restored == IF phase = "copy" THEN savedPtr ELSE 0

\* The saved first fields are those of q, in the order of the scan.
SavedFieldsOf(q) ==
    /\ q \in [1..Len(saved) -> marked \ Pinned]
    /\ grey = {q[k] : k \in (Restored + 1)..Len(saved)}
    /\ \A i, j \in (Restored + 1)..Len(saved) : i < j => start[q[i]] < start[q[j]]
    /\ \A o \in grey : words[o][1] \in Int
    /\ phase = "plan" => savedPtr = 0 /\ grey \intersect todo = {}
    /\ phase = "update" => \A k \in 1..Len(saved) : q[k] \in todo <=> savedPtr < k

\* A scan of T that starts with its finger at f comes to every mobile object
\* with the finger where the object goes.
Planned(T, f, at, to) ==
    \A o \in T \ Pinned :
        /\ (\A y \in T : at[o] <= at[y]) => to[o] = f
        /\ \A x \in T :
              at[x] < at[o] /\ (\A y \in T : at[y] <= at[x] \/ at[o] <= at[y])
                  => to[o] = to[x] + TotalSize(x)

\* Where such a scan has its finger after all of T.
Reached(T, f, g, at, to) ==
    /\ T = {} => g = f
    /\ \A x \in T : (\A y \in T : at[y] <= at[x]) => g = to[x] + TotalSize(x)

PlanInv ==
    /\ phase = "plan" =>
          LET T == marked \ todo
          IN  /\ \A x \in T, y \in todo : start[x] < start[y]
              /\ Planned(T, OldSpaceStart, start, Goal)
              /\ Reached(T, OldSpaceStart, toFinger, start, Goal)
    /\ phase = "update" => Planned(marked, OldSpaceStart, start, Goal)
    /\ phase = "copy" => Planned(todo, toFinger, start, Goal)

\* What the references in an object go by, at this point of the collection.
Seen(o) == IF phase = "copy" \/ (phase = "update" /\ o \notin todo) THEN Goal ELSE start

WordsStandFor(c, h, q) ==
    /\ \A o \in marked : \A i \in 1..WordCount(o) :
          ~(i = 1 /\ o \in grey) => words[o][i] = WordFor(c[o][i], Seen(o))
    /\ \A k \in (Restored + 1)..Len(saved) : saved[k] = WordFor(c[q[k]][1], Seen(q[k]))
    /\ \A r \in Root : roots[r] = WordFor(h[r], IF phase = "copy" THEN Goal ELSE start)

Collecting(c, h, q) ==
    /\ before = Canon(live, c, h) /\ WellFormed(marked, c, h)
    /\ SavedFieldsOf(q) /\ PlanInv /\ WordsStandFor(c, h, q)

GraphInv ==
    IF phase = "run" THEN \E c, h : Shows(live, start, words, roots, c, h)
                     ELSE \E c, h, q : Collecting(c, h, q)

FrameInv ==
    /\ DOMAIN roots = Root /\ ip \in [Frame -> Int]
    /\ \A f \in Frame :
          IF phase = "run" THEN ip[f] = roots[f] + 1 + IPOffset ELSE ip[f] = IPOffset

-----------------------------------------------------------------------------
(* Words and what they stand for *)

LEMMA MinOfTwo ==
    ASSUME NEW a \in Int, NEW b \in Int
    PROVE  Min({a, b}) \in {a, b} /\ Min({a, b}) <= a /\ Min({a, b}) <= b
<1>1. \E x \in {a, b} : \A y \in {a, b} : x <= y
  BY SMT
<1> QED
  BY <1>1 DEF Min

\* Headers are in different places when the objects are.
LEMMA HeadersAreApart ==
    ASSUME NEW L, L \subseteq Object, NEW at, \A o \in L : at[o] \in Nat /\ at[o] >= 1,
           \A x, y \in L : x # y =>
              at[x] + TotalSize(x) <= at[y] \/ at[y] + TotalSize(y) <= at[x]
    PROVE  HeadersApart(L, at)
<1> SUFFICES ASSUME NEW x \in L, NEW y \in L, x # y,
                    HeaderAt(x, at[x]) = HeaderAt(y, at[y])
             PROVE  FALSE
  BY DEF HeadersApart
<1>1. \A o \in L : TotalSize(o) \in Nat /\ TotalSize(o) >= 2
  BY SizesArePositive DEF TotalSize
<1>2. \A o \in L : HeaderAt(o, at[o]) \in {at[o], at[o] + 1} /\ at[o] \in Nat
  BY DEF HeaderAt
<1> QED
  BY <1>1, <1>2

LEMMA Decoding ==
    ASSUME SoundImage, NEW L, L \subseteq Object, NEW at, HeadersApart(L, at),
           NEW v, Refers(L, v)
    PROVE  LET w == WordFor(v, at)
               there == {o \in L : HeaderAt(o, at[o]) = w}
           IN  /\ w \in Int
               /\ v \in L => there = {v} /\ w > 0
               /\ v \notin L => there = {} /\ w = v /\ v \notin Object /\ w <= 0
<1>1. CASE v \in L
  BY <1>1 DEF WordFor, HeadersApart, HeaderAt
<1>2. CASE v \notin L
  <2>1. v \in Int /\ v <= 0 /\ v \notin Object /\ WordFor(v, at) = v
    BY <1>2 DEF Refers, WordFor, SoundImage
  <2>2. \A o \in L : HeaderAt(o, at[o]) \in Nat /\ HeaderAt(o, at[o]) > 0
    BY DEF HeadersApart, HeaderAt
  <2> QED
    BY <1>2, <2>1, <2>2
<1> QED
  BY <1>1, <1>2

LEMMA PointerSlotsAreSlots ==
    ASSUME NEW o \in Object, NEW n \in Int
    PROVE  /\ PointerSlots(o, n) \in Nat /\ PointerSlots(o, n) <= WordCount(o)
           /\ n > 0 => PointerSlots(o, n) = PointerSlots(o, 1)
<1>1. SlotCount[o] \in Nat /\ KindOf[o] \in {"pointers", "bytes", "method"}
  BY HeapAssumption
<1>2. SlotCount[o] <= WordCount(o) /\ WordCount(o) \in Nat
  <2>1. \E x \in {1, SlotCount[o]} : \A y \in {1, SlotCount[o]} : x >= y
    BY <1>1
  <2> QED
    BY <2>1, SizesArePositive DEF WordCount, Max
<1>3. CASE KindOf[o] # "method"
  BY <1>1, <1>2, <1>3 DEF PointerSlots
<1>4. CASE KindOf[o] = "method"
  <2>1. PointerSlots(o, n) = IF n <= 0 THEN Min({1 - n, SlotCount[o]}) ELSE Min({1, SlotCount[o]})
    BY <1>4 DEF PointerSlots
  <2>2. PointerSlots(o, 1) = Min({1, SlotCount[o]})
    BY <1>4 DEF PointerSlots
  <2>3. CASE n <= 0
    <3>1. 1 - n \in Int /\ 1 - n >= 0
      BY <2>3
    <3>a. \A k \in Int : /\ Min({k, SlotCount[o]}) \in {k, SlotCount[o]}
                         /\ Min({k, SlotCount[o]}) <= SlotCount[o]
      BY <1>1, MinOfTwo
    <3>2. Min({1 - n, SlotCount[o]}) \in {1 - n, SlotCount[o]}
          /\ Min({1 - n, SlotCount[o]}) <= SlotCount[o]
      BY <3>1, <3>a
    <3> QED
      BY <1>1, <1>2, <2>1, <2>3, <3>1, <3>2
  <2>4. CASE n > 0
    <3>1. Min({1, SlotCount[o]}) \in {1, SlotCount[o]} /\ Min({1, SlotCount[o]}) <= SlotCount[o]
      BY <1>1, MinOfTwo
    <3> QED
      BY <1>1, <1>2, <2>1, <2>2, <2>4, <3>1
  <2> QED
    BY <2>3, <2>4
<1> QED
  BY <1>3, <1>4

\* The first word of an object tells which of its words are references, and
\* what it stands for tells the same.
LEMMA SlotsByContents ==
    ASSUME SoundImage, NEW L, L \subseteq Object, NEW at, HeadersApart(L, at),
           NEW c, NEW h, WellFormed(L, c, h), NEW o \in L
    PROVE  /\ PointerSlots(o, WordFor(c[o][1], at)) = Slots(o, c[o][1])
           /\ Slots(o, c[o][1]) \in Nat /\ Slots(o, c[o][1]) <= WordCount(o)
<1>1. o \in Object /\ 1 \in 1..WordCount(o)
  BY SizesArePositive
<1>2. Refers(L, c[o][1]) \/ c[o][1] \in Int
  BY <1>1 DEF WellFormed
<1>3. CASE c[o][1] \in Object
  <2>1. c[o][1] \in L
    BY <1>2, <1>3 DEF Refers, SoundImage
  <2>2. WordFor(c[o][1], at) \in Int /\ WordFor(c[o][1], at) > 0
    BY <2>1, Decoding DEF Refers
  <2>3. Slots(o, c[o][1]) = PointerSlots(o, 1)
    BY <1>3 DEF Slots
  <2> QED
    BY <1>1, <2>2, <2>3, PointerSlotsAreSlots
<1>4. CASE c[o][1] \notin Object
  <2>1. c[o][1] \in Int /\ WordFor(c[o][1], at) = c[o][1]
    BY <1>2, <1>4 DEF Refers, WordFor
  <2> QED
    BY <1>1, <1>4, <2>1, PointerSlotsAreSlots DEF Slots
<1> QED
  BY <1>3, <1>4

\* What a heap stands for can be read off it, and each reference in it leads
\* to an object.
LEMMA ShownGraph ==
    ASSUME SoundImage, live \subseteq Object, HeadersApart(live, start), NEW c, NEW h,
           Shows(live, start, words, roots, c, h)
    PROVE  /\ Graph = Canon(live, c, h)
           /\ \A r \in Root : roots[r] \in Int /\ (roots[r] > 0 => ObjectsAt(roots[r]) # {})
           /\ \A o \in live : \A i \in 1..PointerSlots(o, words[o][1]) :
                 words[o][i] \in Int /\ (words[o][i] > 0 => ObjectsAt(words[o][i]) # {})
<1>1. ASSUME NEW v, Refers(live, v)
      PROVE  LET w == WordFor(v, start)
             IN  Decode(w) = v /\ w \in Int /\ (w > 0 => ObjectsAt(w) # {})
  <2> DEFINE w == WordFor(v, start)
  <2>1. ObjectsAt(w) = {o \in live : HeaderAt(o, start[o]) = w}
    BY DEF ObjectsAt, Header
  <2> HIDE DEF w
  <2>2. /\ w \in Int
        /\ v \in live => ObjectsAt(w) = {v} /\ w > 0
        /\ v \notin live => ObjectsAt(w) = {} /\ w = v /\ w <= 0
    BY <1>1, <2>1, Decoding DEF w
  <2> QED
    BY <2>2 DEF Decode, w
<1>2. ASSUME NEW r \in Root
      PROVE  /\ Decode(roots[r]) = h[r] /\ roots[r] \in Int
             /\ roots[r] > 0 => ObjectsAt(roots[r]) # {}
  <2>1. roots[r] = WordFor(h[r], start) /\ Refers(live, h[r])
    BY DEF Shows, WellFormed
  <2> QED
    BY <2>1, <1>1
<1>3. ASSUME NEW o \in live
      PROVE  /\ DOMAIN words[o] = 1..WordCount(o)
             /\ PointerSlots(o, words[o][1]) = Slots(o, c[o][1])
             /\ Slots(o, c[o][1]) \in Nat /\ Slots(o, c[o][1]) <= WordCount(o)
  <2>1. words[o][1] = WordFor(c[o][1], start) /\ WellFormed(live, c, h)
        /\ DOMAIN words[o] = 1..WordCount(o)
    BY SizesArePositive DEF Shows
  <2> QED
    BY <2>1, SlotsByContents
<1>4. ASSUME NEW o \in live, NEW i \in 1..WordCount(o), i <= Slots(o, c[o][1])
      PROVE  /\ Decode(words[o][i]) = c[o][i] /\ words[o][i] \in Int
             /\ words[o][i] > 0 => ObjectsAt(words[o][i]) # {}
  <2>1. words[o][i] = WordFor(c[o][i], start) /\ Refers(live, c[o][i])
    BY <1>4 DEF Shows, WellFormed
  <2> QED
    BY <2>1, <1>1
<1>5. ASSUME NEW o \in live, NEW i \in 1..WordCount(o), ~(i <= Slots(o, c[o][1]))
      PROVE  words[o][i] = c[o][i]
  <2>1. words[o][i] = WordFor(c[o][i], start) /\ c[o][i] \in Int
    BY <1>5 DEF Shows, WellFormed
  <2> QED
    BY <2>1 DEF WordFor, SoundImage
<1>6. ASSUME NEW o \in live PROVE DecodedWords(o) = [i \in 1..WordCount(o) |-> c[o][i]]
  BY <1>3, <1>4, <1>5 DEF DecodedWords
<1>7. Graph = Canon(live, c, h)
  BY <1>2, <1>6 DEF Graph, Canon
<1>8. ASSUME NEW o \in live, NEW i \in 1..PointerSlots(o, words[o][1])
      PROVE  words[o][i] \in Int /\ (words[o][i] > 0 => ObjectsAt(words[o][i]) # {})
  <2>1. i \in 1..WordCount(o) /\ i <= Slots(o, c[o][1])
    BY <1>3, SizesArePositive
  <2> QED
    BY <2>1, <1>4
<1> QED
  BY <1>2, <1>7, <1>8

\* Moving other objects changes nothing to a reference.
LEMMA WordsAgree ==
    ASSUME NEW L, NEW at, NEW to, \A x \in L : to[x] = at[x]
    PROVE  \A v : v \in L \/ v \notin Object => WordFor(v, to) = WordFor(v, at)
BY DEF WordFor

LEMMA SlidePlaces ==
    ASSUME ShapeInv, SlideInv, phase # "copy"
    PROVE  HeadersApart(live, start)
<1>1. There = live /\ live \subseteq Object
  BY DEF There, ShapeInv
<1>2. \A o \in live : start[o] \in Nat /\ start[o] >= 1
  BY <1>1, Places DEF OldSpaceStart
<1>3. \A x, y \in live : x # y =>
         start[x] + TotalSize(x) <= start[y] \/ start[y] + TotalSize(y) <= start[x]
  BY <1>1 DEF SlideInv, Apart, Ends
<1> QED
  BY <1>1, <1>2, <1>3, HeadersAreApart

LEMMA NoneOutside ==
    ASSUME SoundImage, NEW L, NEW c, NEW h, WellFormed(L, c, h)
    PROVE  /\ \A o \in L : \A i \in 1..WordCount(o) : c[o][i] \in L \/ c[o][i] \notin Object
           /\ \A r \in Root : h[r] \in L \/ h[r] \notin Object
BY DEF WellFormed, Refers, SoundImage

-----------------------------------------------------------------------------
(* The image between collections *)

LEMMA ShownInitially ==
    ASSUME Init
    PROVE  phase = "run" /\ \E c, h : Shows(live, start, words, roots, c, h)
<1>1. PICK layout \in Layouts, graph \in Graphs, holding \in Holdings :
        /\ live = DOMAIN layout.start /\ start = layout.start
        /\ words = [o \in live |-> [i \in DOMAIN graph[o] |->
                       IF graph[o][i] \in Object
                       THEN HeaderAt(graph[o][i], layout.start[graph[o][i]]) ELSE graph[o][i]]]
        /\ roots = [r \in Root |-> IF holding[r] \in Object
                                   THEN HeaderAt(holding[r], layout.start[holding[r]])
                                   ELSE holding[r]]
        /\ phase = "run"
  BY DEF Init
<1>2. live \subseteq Object /\ \A o \in live : DOMAIN graph[o] = 1..WordCount(o)
  BY <1>1, LayoutAssumption, HeapAssumption
<1>3. WellFormed(live, graph, holding)
  BY <1>1, ImageAssumption
<1>4. \A o \in live : /\ DOMAIN words[o] = 1..WordCount(o)
                      /\ \A i \in 1..WordCount(o) : words[o][i] = WordFor(graph[o][i], start)
  BY <1>1, <1>2 DEF WordFor
<1>5. \A r \in Root : roots[r] = WordFor(holding[r], start)
  BY <1>1 DEF WordFor
<1>6. Shows(live, start, words, roots, graph, holding)
  BY <1>3, <1>4, <1>5 DEF Shows
<1> QED
  BY <1>1, <1>6

\* A new object is held by a root, and refers to nothing.
WithNew(c, o) == [x \in live \union {o} |-> IF x = o THEN Blank(o) ELSE c[x]]

Holding(h, r, v) == [x \in Root |-> IF x = r THEN v ELSE h[x]]

WithStored(c, o, i, v) ==
    [x \in live |-> [j \in 1..WordCount(x) |-> IF x = o /\ j = i THEN v ELSE c[x][j]]]

LEMMA AllocateShows ==
    ASSUME SoundImage, ShapeInv, NEW c, NEW h, Shows(live, start, words, roots, c, h),
           NEW o \in Object, NEW r \in Root, Allocate(o, r), DOMAIN roots = Root
    PROVE  Shows(live', start', words', roots', WithNew(c, o), Holding(h, r, o))
<1> DEFINE c2 == WithNew(c, o)
           h2 == Holding(h, r, o)
<1>1. /\ o \notin live /\ live' = live \union {o} /\ live \subseteq Object
      /\ start' = [x \in live' |-> IF x = o THEN free ELSE start[x]]
      /\ words' = [x \in live' |-> IF x = o THEN Blank(o) ELSE words[x]]
      /\ roots' = [roots EXCEPT ![r] = HeaderAt(o, free)]
  BY DEF Allocate, ShapeInv
<1>2. /\ \A x \in live : c2[x] = c[x]
      /\ c2[o] = Blank(o) /\ h2[r] = o /\ \A x \in Root \ {r} : h2[x] = h[x]
  BY <1>1 DEF WithNew, Holding
<1> HIDE DEF c2, h2
<1>3. /\ \A i \in 1..WordCount(o) : Blank(o)[i] = 0
      /\ DOMAIN Blank(o) = 1..WordCount(o)
  BY DEF Blank
<1>4. \A v : Refers(live, v) => Refers(live', v)
  BY <1>1 DEF Refers
<1>5. WellFormed(live', c2, h2)
  <2>1. Refers(live', 0) /\ Refers(live', o) /\ 0 \in Int
    BY <1>1 DEF Refers
  <2>2. WellFormed(live, c, h)
    BY DEF Shows
  <2>3. \A x \in live : \A i \in 1..WordCount(x) :
           IF i <= Slots(x, c2[x][1]) THEN Refers(live', c2[x][i]) ELSE c2[x][i] \in Int
    BY <1>2, <1>4, <2>2 DEF WellFormed
  <2>4. \A i \in 1..WordCount(o) :
           IF i <= Slots(o, c2[o][1]) THEN Refers(live', c2[o][i]) ELSE c2[o][i] \in Int
    BY <1>2, <1>3, <2>1
  <2>5. \A x \in Root : Refers(live', h2[x])
    BY <1>2, <1>4, <2>1, <2>2 DEF WellFormed
  <2> QED
    BY <1>1, <2>3, <2>4, <2>5 DEF WellFormed
<1>6. \A x \in live : start'[x] = start[x]
  BY <1>1
<1>7. /\ \A x \in live : \A i \in 1..WordCount(x) : WordFor(c[x][i], start') = WordFor(c[x][i], start)
      /\ \A x \in Root : WordFor(h[x], start') = WordFor(h[x], start)
  <2>1. WellFormed(live, c, h)
    BY DEF Shows
  <2>2. /\ \A x \in live : \A i \in 1..WordCount(x) : c[x][i] \in live \/ c[x][i] \notin Object
        /\ \A x \in Root : h[x] \in live \/ h[x] \notin Object
    BY <2>1, NoneOutside
  <2>3. \A v : v \in live \/ v \notin Object => WordFor(v, start') = WordFor(v, start)
    BY <1>6, WordsAgree
  <2> QED
    BY <2>2, <2>3
<1>8. \A x \in live' : /\ DOMAIN words'[x] = 1..WordCount(x)
                       /\ \A i \in 1..WordCount(x) : words'[x][i] = WordFor(c2[x][i], start')
  <2>1. ASSUME NEW x \in live
        PROVE  /\ DOMAIN words'[x] = 1..WordCount(x)
               /\ \A i \in 1..WordCount(x) : words'[x][i] = WordFor(c2[x][i], start')
    <3>1. words'[x] = words[x]
      BY <1>1
    <3> QED
      BY <3>1, <1>2, <1>7 DEF Shows
  <2>2. 0 \notin Object
    BY DEF SoundImage
  <2>3. words'[o] = Blank(o)
    BY <1>1
  <2>4. \A i \in 1..WordCount(o) : words'[o][i] = WordFor(c2[o][i], start')
    BY <1>2, <1>3, <2>2, <2>3 DEF WordFor
  <2> QED
    BY <1>1, <1>3, <2>1, <2>3, <2>4
<1>9. \A x \in Root : roots'[x] = WordFor(h2[x], start')
  <2>1. start'[o] = free
    BY <1>1
  <2>2. roots'[r] = WordFor(h2[r], start')
    BY <1>1, <1>2, <2>1 DEF WordFor
  <2>3. \A x \in Root \ {r} : roots'[x] = WordFor(h2[x], start')
    BY <1>1, <1>2, <1>7 DEF Shows
  <2> QED
    BY <2>2, <2>3
<1> QED
  BY <1>5, <1>8, <1>9 DEF Shows, c2, h2

LEMMA StoreShows ==
    ASSUME SoundImage, ShapeInv, NEW c, NEW h, Shows(live, start, words, roots, c, h),
           NEW o \in live, NEW r \in Root, NEW i \in 1..SlotCount[o], Store(o, i, r)
    PROVE  /\ Shows(live', start', words', roots', WithStored(c, o, i, h[r]), h)
           /\ i \in 1..WordCount(o)
<1> DEFINE c2 == WithStored(c, o, i, h[r])
<1>1. /\ words' = [words EXCEPT ![o][i] = roots[r]] /\ KindOf[o] = "pointers"
      /\ UNCHANGED <<live, start, roots>> /\ DOMAIN words = live /\ live \subseteq Object
      /\ DOMAIN words[o] = 1..WordCount(o)
  BY DEF Store, ShapeInv
<1>2. \A n : PointerSlots(o, n) = SlotCount[o]
  BY <1>1 DEF PointerSlots
<1>3. i \in 1..WordCount(o)
  <2>1. SlotCount[o] \in Nat /\ SlotCount[o] <= WordCount(o) /\ WordCount(o) \in Nat
    <3>1. o \in Object /\ 1 \in Int
      BY <1>1
    <3>2. PointerSlots(o, 1) \in Nat /\ PointerSlots(o, 1) <= WordCount(o)
      BY <3>1, PointerSlotsAreSlots
    <3> QED
      BY <1>2, <3>1, <3>2, SizesArePositive
  <2> QED
    BY <2>1
<1>4. \A x \in live : \A j \in 1..WordCount(x) :
         c2[x][j] = IF x = o /\ j = i THEN h[r] ELSE c[x][j]
  BY DEF WithStored
<1> HIDE DEF c2
<1>5. WellFormed(live, c2, h)
  <2>1. WellFormed(live, c, h) /\ Refers(live, h[r])
    BY DEF Shows, WellFormed
  <2>2. ASSUME NEW x \in live \ {o}, NEW j \in 1..WordCount(x)
        PROVE  IF j <= Slots(x, c2[x][1]) THEN Refers(live, c2[x][j]) ELSE c2[x][j] \in Int
    <3>1. c2[x][1] = c[x][1] /\ c2[x][j] = c[x][j]
      BY <1>1, <1>4, SizesArePositive
    <3> QED
      BY <2>1, <3>1 DEF WellFormed
  <2>3. ASSUME NEW j \in 1..WordCount(o)
        PROVE  IF j <= Slots(o, c2[o][1]) THEN Refers(live, c2[o][j]) ELSE c2[o][j] \in Int
    <3>1. Slots(o, c2[o][1]) = SlotCount[o] /\ Slots(o, c[o][1]) = SlotCount[o]
      BY <1>2 DEF Slots
    <3>2. i <= SlotCount[o]
      BY HeapAssumption
    <3> QED
      BY <1>4, <2>1, <3>1, <3>2 DEF WellFormed
  <2>4. \A x \in Root : Refers(live, h[x])
    BY <2>1 DEF WellFormed
  <2> QED
    BY <2>2, <2>3, <2>4 DEF WellFormed
<1>6. roots[r] = WordFor(h[r], start)
  BY DEF Shows
<1>7. \A x \in live : /\ DOMAIN words'[x] = 1..WordCount(x)
                      /\ \A j \in 1..WordCount(x) : words'[x][j] = WordFor(c2[x][j], start')
  <2>1. \A x \in live : /\ DOMAIN words[x] = 1..WordCount(x)
                        /\ \A j \in 1..WordCount(x) : words[x][j] = WordFor(c[x][j], start)
    BY DEF Shows
  <2>2. words'[o] = [words[o] EXCEPT ![i] = roots[r]] /\ \A x \in live \ {o} : words'[x] = words[x]
    BY <1>1
  <2>3. \A x \in live \ {o} : \A j \in 1..WordCount(x) : words'[x][j] = WordFor(c2[x][j], start')
    BY <1>1, <1>4, <2>1, <2>2
  <2>4. ASSUME NEW j \in 1..WordCount(o) PROVE words'[o][j] = WordFor(c2[o][j], start')
    <3>1. start' = start /\ words[o][j] = WordFor(c[o][j], start)
      BY <1>1, <2>1
    <3>2. c2[o][j] = IF j = i THEN h[r] ELSE c[o][j]
      BY <1>4
    <3>3. words'[o][j] = IF j = i THEN roots[r] ELSE words[o][j]
      BY <1>1, <2>2
    <3> QED
      BY <1>6, <3>1, <3>2, <3>3
  <2>5. \A x \in live : DOMAIN words'[x] = 1..WordCount(x)
    BY <2>1, <2>2
  <2> QED
    BY <2>3, <2>4, <2>5
<1>8. \A x \in Root : roots'[x] = WordFor(h[x], start')
  BY <1>1 DEF Shows
<1> QED
  BY <1>1, <1>3, <1>5, <1>7, <1>8 DEF Shows, c2

LEMMA DropShows ==
    ASSUME SoundImage, NEW c, NEW h, Shows(live, start, words, roots, c, h),
           NEW r \in Root, Drop(r), DOMAIN roots = Root
    PROVE  Shows(live', start', words', roots', c, Holding(h, r, 0))
<1>1. roots' = [roots EXCEPT ![r] = 0] /\ UNCHANGED <<live, start, words>>
  BY DEF Drop
<1>2. 0 \notin Object /\ Refers(live, 0) /\ WordFor(0, start) = 0
  BY DEF SoundImage, Refers, WordFor
<1>3. WellFormed(live, c, Holding(h, r, 0))
  BY <1>2 DEF Shows, WellFormed, Holding
<1>4. \A x \in Root : roots'[x] = WordFor(Holding(h, r, 0)[x], start)
  BY <1>1, <1>2 DEF Holding, Shows
<1> QED
  BY <1>1, <1>3, <1>4 DEF Shows

-----------------------------------------------------------------------------
(* Scans *)

\* Planning: the object the scan comes to goes to the finger, or stays.
LEMMA PlanGrows ==
    ASSUME NEW T, NEW f, NEW g, NEW at, NEW to, NEW to2, NEW o, o \notin T,
           \A x \in T \union {o} : at[x] \in Int,
           \A x \in T : at[x] < at[o] /\ to2[x] = to[x],
           Planned(T, f, at, to), Reached(T, f, g, at, to), o \in Pinned \/ to2[o] = g
    PROVE  /\ Planned(T \union {o}, f, at, to2)
           /\ Reached(T \union {o}, f, to2[o] + TotalSize(o), at, to2)
<1> DEFINE U == T \union {o}
<1>1. ASSUME NEW x \in U \ Pinned, \A y \in U : at[x] <= at[y] PROVE to2[x] = f
  <2>1. CASE x = o
    <3>1. T = {}
      BY <1>1, <2>1
    <3> QED
      BY <2>1, <3>1, <1>1 DEF Reached
  <2>2. CASE x # o
    BY <2>2, <1>1 DEF Planned
  <2> QED
    BY <2>1, <2>2
<1>2. ASSUME NEW z \in U \ Pinned, NEW x \in U, at[x] < at[z],
             \A y \in U : at[y] <= at[x] \/ at[z] <= at[y]
      PROVE  to2[z] = to2[x] + TotalSize(x)
  <2>1. x \in T
    BY <1>2
  <2>2. CASE z = o
    <3>1. \A y \in T : at[y] <= at[x]
      BY <1>2, <2>2
    <3> QED
      BY <1>2, <2>1, <2>2, <3>1 DEF Reached
  <2>3. CASE z # o
    BY <1>2, <2>1, <2>3 DEF Planned
  <2> QED
    BY <2>2, <2>3
<1>3. ASSUME NEW x \in U, \A y \in U : at[y] <= at[x] PROVE x = o
  BY <1>3
<1> QED
  BY <1>1, <1>2, <1>3 DEF Planned, Reached

\* Sliding: the object the scan comes to has the finger where it goes, and
\* past it the finger is right for the others.
LEMMA PlanShrinks ==
    ASSUME NEW T, NEW f, NEW at, NEW to, NEW o \in T,
           \A x \in T : at[x] \in Int, \A x \in T \ {o} : at[o] < at[x],
           Planned(T, f, at, to)
    PROVE  /\ o \notin Pinned => to[o] = f
           /\ Planned(T \ {o}, to[o] + TotalSize(o), at, to)
<1>1. \A y \in T : at[o] <= at[y]
  OBVIOUS
<1>2. o \notin Pinned => to[o] = f
  BY <1>1 DEF Planned
<1> DEFINE U == T \ {o}
<1>3. ASSUME NEW x \in U \ Pinned, \A y \in U : at[x] <= at[y]
      PROVE  to[x] = to[o] + TotalSize(o)
  <2>1. at[o] < at[x] /\ \A y \in T : at[y] <= at[o] \/ at[x] <= at[y]
    BY <1>3
  <2> QED
    BY <1>3, <2>1 DEF Planned
<1>4. ASSUME NEW z \in U \ Pinned, NEW x \in U, at[x] < at[z],
             \A y \in U : at[y] <= at[x] \/ at[z] <= at[y]
      PROVE  to[z] = to[x] + TotalSize(x)
  <2>1. \A y \in T : at[y] <= at[x] \/ at[z] <= at[y]
    BY <1>4, <1>1
  <2> QED
    BY <1>4, <2>1 DEF Planned
<1> QED
  BY <1>2, <1>3, <1>4 DEF Planned

\* A scan that moves nothing already moved does not care about where objects
\* are that it does not come to.
LEMMA PlannedAgrees ==
    ASSUME NEW T, NEW f, NEW at, NEW at2, NEW to, NEW to2, Planned(T, f, at, to),
           \A x \in T : at2[x] = at[x] /\ to2[x] = to[x]
    PROVE  Planned(T, f, at2, to2)
BY DEF Planned

\* Scanned in order, the objects come one before the other.
LEMMA ScansNext ==
    ASSUME ShapeInv, SlideInv, NEW o, Scans(o)
    PROVE  /\ o \in todo /\ o \in marked /\ o \in live /\ o \in Object
           /\ \A x \in live : start[x] \in Int
           /\ \A x \in todo \ {o} : start[o] < start[x]
<1>1. o \in todo /\ o \in There /\ o \in marked /\ o \in live /\ o \in Object
  BY DEF Scans, ShapeInv, There
<1>2. \A x \in live : start[x] \in Int
  BY DEF SlideInv, OldSpaceStart
<1>3. \A x \in todo \ {o} : Ends(o) <= start[x]
  BY ScansInOrder
<1>4. Ends(o) = start[o] + TotalSize(o) /\ TotalSize(o) \in Nat \ {0}
  BY <1>1, Places
<1>5. \A x \in todo \ {o} : x \in live
  BY DEF ShapeInv
<1> QED
  BY <1>1, <1>2, <1>3, <1>4, <1>5

\* Where references to an object that is alive lead in the end.
LEMMA ResolvesToGoal ==
    ASSUME SoundImage, ShapeInv, SlideInv, phase = "update", \A o \in grey : words[o][1] \in Int,
           NEW v, Refers(marked, v)
    PROVE  ResolveForward(WordFor(v, start)) = WordFor(v, Goal)
<1> DEFINE w == WordFor(v, start)
<1>1. HeadersApart(live, start) /\ live \subseteq Object /\ Refers(live, v)
  BY SlidePlaces DEF Refers, ShapeInv
<1>2. ObjectsAt(w) = {o \in live : HeaderAt(o, start[o]) = w}
  BY DEF ObjectsAt, Header
<1> HIDE DEF w
<1>3. /\ v \in live => ObjectsAt(w) = {v}
      /\ v \notin live => ObjectsAt(w) = {} /\ w = v /\ v \notin Object
  BY <1>1, <1>2, Decoding DEF w
<1>4. CASE v \in live
  <2>1. v \in marked /\ v \in Object /\ v \in Classed
    BY <1>1, <1>4 DEF Refers, SoundImage
  <2>2. ObjectsAt(w) \intersect Classed \intersect marked \intersect grey =
           IF v \in grey THEN {v} ELSE {}
    BY <1>3, <1>4, <2>1
  <2>3. w = HeaderAt(v, start[v]) /\ WordFor(v, Goal) = HeaderAt(v, Goal[v])
    BY <2>1 DEF w, WordFor
  <2>4. CASE v \in grey
    <3>1. ResolveForward(w) = words[v][1]
      BY <2>2, <2>4 DEF ResolveForward
    <3>2. HeaderAt(v, Goal[v]) = words[v][1]
      BY <2>1, <2>4 DEF Goal, HeaderAt
    <3> QED
      BY <2>3, <3>1, <3>2 DEF w
  <2>5. CASE v \notin grey
    <3>1. ResolveForward(w) = w
      BY <2>2, <2>5 DEF ResolveForward
    <3>2. Goal[v] = start[v]
      BY <2>1, <2>5 DEF Goal
    <3> QED
      BY <2>3, <3>1, <3>2 DEF w
  <2> QED
    BY <2>4, <2>5
<1>5. CASE v \notin live
  <2>1. ObjectsAt(w) \intersect Classed \intersect marked \intersect grey = {}
    BY <1>3, <1>5
  <2>2. ResolveForward(w) = w
    BY <2>1 DEF ResolveForward
  <2>3. WordFor(v, Goal) = v
    BY <1>3, <1>5 DEF WordFor
  <2> QED
    BY <1>3, <1>5, <2>2, <2>3 DEF w
<1> QED
  BY <1>4, <1>5

\* The first field of the object the scan comes to is the next one.
LEMMA NextSaved ==
    ASSUME ShapeInv, SlideInv, SavedInv, NEW q, SavedFieldsOf(q), phase \in {"update", "copy"},
           NEW o \in grey, Scans(o)
    PROVE  savedPtr + 1 \in (Restored + 1)..Len(saved) /\ o = q[savedPtr + 1]
<1>1. savedPtr \in Nat /\ Len(saved) \in Nat /\ savedPtr <= Len(saved)
      /\ Restored \in Nat /\ Restored <= savedPtr
  BY LenProperties DEF SavedInv, Restored
<1>2. PICK k \in (Restored + 1)..Len(saved) : o = q[k]
  BY DEF SavedFieldsOf
<1>3. savedPtr < k /\ k \in Int
  <2>1. CASE phase = "update"
    BY <1>1, <1>2, <2>1 DEF SavedFieldsOf, Scans
  <2>2. CASE phase = "copy"
    BY <1>1, <1>2, <2>2 DEF Restored
  <2> QED
    BY <2>1, <2>2
<1>4. savedPtr + 1 \in (Restored + 1)..Len(saved)
  BY <1>1, <1>2, <1>3
<1> DEFINE e == q[savedPtr + 1]
<1>5. e \in todo
  <2>1. CASE phase = "update"
    BY <1>1, <1>4, <2>1 DEF SavedFieldsOf
  <2>2. CASE phase = "copy"
    BY <1>4, <2>2 DEF SavedFieldsOf, ShapeInv
  <2> QED
    BY <2>1, <2>2
<1>6. k = savedPtr + 1
  <2> SUFFICES ASSUME savedPtr + 1 < k PROVE FALSE
    BY <1>1, <1>3
  <2>1. start[e] < start[o]
    BY <1>2, <1>4 DEF SavedFieldsOf
  <2>2. start[o] <= start[e] /\ start[o] \in Int /\ start[e] \in Int
    BY <1>5, ScansNext DEF Scans, ShapeInv
  <2> QED
    BY <2>1, <2>2
<1> QED
  BY <1>2, <1>4, <1>6

\* The scratch area has room for the first field of every object that moves.
LEMMA ScratchSuffices ==
    ASSUME SoundImage, ShapeInv, SlideInv, SavedInv, NEW q, SavedFieldsOf(q), phase = "plan",
           NEW o \in todo, o \notin Pinned
    PROVE  Len(saved) < ScratchLimit
<1> DEFINE n == Len(saved)
           M == Object \ Pinned
           p == [k \in 1..(n + 1) |-> IF k = n + 1 THEN o ELSE q[k]]
<1>1. n \in Nat /\ Restored = 0
  BY LenProperties DEF SavedInv, Restored
<1>2. \A x \in live : start[x] \in Int
  BY DEF SlideInv, OldSpaceStart
<1>3. o \in M /\ q \in [1..n -> marked \ Pinned] /\ marked \subseteq Object /\ marked \subseteq live
  BY DEF SavedFieldsOf, ShapeInv
<1>4. p \in [1..(n + 1) -> M]
  BY <1>1, <1>3
<1>5. ASSUME NEW i \in 1..(n + 1), NEW j \in 1..(n + 1), i < j PROVE p[i] # p[j]
  <2>1. i \in 1..n /\ p[i] = q[i] /\ q[i] \in grey
    BY <1>1, <1>5 DEF SavedFieldsOf
  <2>2. CASE j = n + 1
    BY <2>1, <2>2 DEF SavedFieldsOf
  <2>3. CASE j # n + 1
    <3>1. j \in 1..n /\ p[j] = q[j] /\ start[q[i]] < start[q[j]]
      BY <1>1, <1>5, <2>1, <2>3 DEF SavedFieldsOf
    <3>2. start[q[i]] \in Int
      BY <1>2, <1>3, <2>1
    <3> QED
      BY <2>1, <3>1, <3>2
  <2> QED
    BY <2>2, <2>3
<1> HIDE DEF p
<1>6. \A i, j \in 1..(n + 1) : i # j => p[i] # p[j]
  <2>1. \A i, j \in 1..(n + 1) : i < j \/ j < i \/ i = j
    BY <1>1
  <2> QED
    BY <1>5, <2>1
<1>7. IsFiniteSet(1..(n + 1)) /\ Cardinality(1..(n + 1)) = n + 1
  <2>1. 1 \in Int /\ n + 1 \in Int /\ ~(1 > n + 1) /\ (n + 1) - 1 + 1 = n + 1
    BY <1>1
  <2> QED
    BY <2>1, FS_Interval
<1>8. IsFiniteSet(M) /\ Cardinality(M) <= ScratchLimit /\ Cardinality(M) \in Nat
  BY FS_CardinalityType DEF SoundImage
<1>9. ~(Cardinality(M) < n + 1)
  BY <1>4, <1>6, <1>7, <1>8, FS_PigeonHole
<1> QED
  BY <1>1, <1>8, <1>9, HeapAssumption

-----------------------------------------------------------------------------
(* The collection, step by step *)

LEMMA StartCollects ==
    ASSUME SoundImage, ShapeInv, SlideInv, NEW c, NEW h,
           Shows(live, start, words, roots, c, h), StartCollection
    PROVE  Collecting(c, h, <<>>)'
<1>1. /\ phase = "run" /\ before' = Graph /\ UNCHANGED <<live, start, words, roots>>
      /\ grey' = {} /\ saved' = <<>> /\ toFinger' = OldSpaceStart /\ savedPtr' = 0
      /\ phase' = "plan" /\ todo' = marked' /\ marked' \subseteq live
      /\ {Decode(roots[r]) : r \in Root} \intersect Object \subseteq marked'
      /\ Closed(marked')
  BY DEF StartCollection, heapVars
<1>2. HeadersApart(live, start) /\ live \subseteq Object /\ WellFormed(live, c, h)
  BY <1>1, SlidePlaces DEF ShapeInv, Shows
<1>3. Graph = Canon(live, c, h)
  BY <1>2, ShownGraph
<1>4. /\ \A o \in live : DecodedWords(o) = [i \in 1..WordCount(o) |-> c[o][i]]
      /\ \A r \in Root : Decode(roots[r]) = h[r]
  <2>1. Graph.contents = Canon(live, c, h).contents /\ Graph.held = Canon(live, c, h).held
    BY <1>3
  <2>2. /\ [o \in live |-> DecodedWords(o)] = [o \in live |-> [i \in 1..WordCount(o) |-> c[o][i]]]
        /\ [r \in Root |-> Decode(roots[r])] = [r \in Root |-> h[r]]
    BY <2>1 DEF Graph, Canon
  <2>3. ASSUME NEW o \in live
        PROVE  DecodedWords(o) = [i \in 1..WordCount(o) |-> c[o][i]]
    <3>1. [x \in live |-> DecodedWords(x)][o] = [x \in live |-> [i \in 1..WordCount(x) |-> c[x][i]]][o]
      BY <2>2
    <3> QED
      BY <3>1
  <2>4. ASSUME NEW r \in Root PROVE Decode(roots[r]) = h[r]
    <3>1. [x \in Root |-> Decode(roots[x])][r] = [x \in Root |-> h[x]][r]
      BY <2>2
    <3> QED
      BY <3>1
  <2> QED
    BY <2>3, <2>4
<1>5. WellFormed(marked', c, h)
  <2>1. ASSUME NEW o \in marked', NEW i \in 1..WordCount(o)
        PROVE  IF i <= Slots(o, c[o][1]) THEN Refers(marked', c[o][i]) ELSE c[o][i] \in Int
    <3>1. o \in live
      BY <1>1
    <3>2. IF i <= Slots(o, c[o][1]) THEN Refers(live, c[o][i]) ELSE c[o][i] \in Int
      BY <1>2, <3>1 DEF WellFormed
    <3>3. ASSUME i <= Slots(o, c[o][1]), c[o][i] \in Object PROVE c[o][i] \in marked'
      <4>1. words[o][1] = WordFor(c[o][1], start)
        BY <3>1, <1>2, SizesArePositive DEF Shows
      <4>2. /\ PointerSlots(o, words[o][1]) = Slots(o, c[o][1])
            /\ Slots(o, c[o][1]) \in Nat
        BY <4>1, <3>1, <1>2, SlotsByContents
      <4>3. i \in 1..PointerSlots(o, words[o][1])
        BY <4>2, <3>3
      <4>4. DecodedWords(o)[i] = c[o][i]
        BY <1>4, <3>1
      <4>5. {DecodedWords(o)[j] : j \in 1..PointerSlots(o, words[o][1])} \intersect Object
               \subseteq marked'
        BY <1>1 DEF Closed
      <4> QED
        BY <4>3, <4>4, <4>5, <3>3
    <3> QED
      BY <3>2, <3>3, <1>2 DEF Refers
  <2>2. ASSUME NEW r \in Root PROVE Refers(marked', h[r])
    <3>1. Refers(live, h[r])
      BY <1>2 DEF WellFormed
    <3>2. h[r] \in Object => h[r] \in marked'
      BY <1>1, <1>4
    <3> QED
      BY <3>1, <3>2, <1>2 DEF Refers
  <2> QED
    BY <2>1, <2>2 DEF WellFormed
<1>6. Len(saved') = 0 /\ Restored' = 0
  BY <1>1 DEF Restored
<1>7. SavedFieldsOf(<<>>)'
  <2>1. <<>> \in [1..0 -> (marked \ Pinned)']
    BY SMT
  <2> QED
    BY <1>1, <1>6, <2>1 DEF SavedFieldsOf
<1>8. PlanInv'
  BY <1>1 DEF PlanInv, Planned, Reached
<1>9. WordsStandFor(c, h, <<>>)'
  <2>1. \A o : Seen(o)' = start
    BY <1>1 DEF Seen
  <2>2. \A o \in marked' : \A i \in 1..WordCount(o) : words'[o][i] = WordFor(c[o][i], Seen(o)')
    BY <1>1, <2>1 DEF Shows
  <2>3. \A r \in Root : roots'[r] = WordFor(h[r], start')
    BY <1>1 DEF Shows
  <2> QED
    BY <1>1, <1>6, <2>2, <2>3 DEF WordsStandFor
<1> QED
  BY <1>1, <1>3, <1>5, <1>7, <1>8, <1>9 DEF Collecting

LEMMA PlanStayCollects ==
    ASSUME SoundImage, ShapeInv, SlideInv, NEW c, NEW h, NEW q, Collecting(c, h, q),
           NEW o \in marked, PlanStay(o)
    PROVE  Collecting(c, h, q)'
<1>1. /\ phase = "plan" /\ Scans(o) /\ (o \in Pinned \/ toFinger = start[o])
      /\ grey' = grey \ {o} /\ toFinger' = start[o] + TotalSize(o) /\ todo' = todo \ {o}
      /\ UNCHANGED <<live, start, words, roots, phase, savedPtr, marked, saved, before>>
  BY DEF PlanStay, heapVars
<1>2. /\ o \in todo /\ o \in marked /\ \A x \in live : start[x] \in Int
      /\ \A x \in todo \ {o} : start[o] < start[x]
      /\ marked \subseteq live /\ todo \subseteq marked
  BY <1>1, ScansNext DEF ShapeInv
<1>3. grey' = grey /\ o \notin grey
  BY <1>1, <1>2 DEF Collecting, SavedFieldsOf
<1>4. Goal' = Goal /\ Restored' = Restored /\ Goal[o] = start[o]
  BY <1>1, <1>2, <1>3 DEF Goal, Restored
<1>5. SavedFieldsOf(q)'
  <2>1. SavedFieldsOf(q)
    BY DEF Collecting
  <2> QED
    BY <1>1, <1>3, <1>4, <2>1 DEF SavedFieldsOf
<1>6. PlanInv'
  <2> DEFINE T == marked \ todo
  <2>1. /\ \A x \in T, y \in todo : start[x] < start[y]
        /\ Planned(T, OldSpaceStart, start, Goal)
        /\ Reached(T, OldSpaceStart, toFinger, start, Goal)
    BY <1>1 DEF Collecting, PlanInv
  <2>2. (marked \ todo)' = T \union {o} /\ o \notin T
    BY <1>1, <1>2
  <2>3. \A x \in T \union {o} : start[x] \in Int
    BY <1>2
  <2>4. \A x \in T : start[x] < start[o]
    BY <1>2, <2>1
  <2>5. o \in Pinned \/ Goal[o] = toFinger
    BY <1>1, <1>4
  <2> HIDE DEF T
  <2>6. /\ Planned(T \union {o}, OldSpaceStart, start, Goal)
        /\ Reached(T \union {o}, OldSpaceStart, Goal[o] + TotalSize(o), start, Goal)
    BY <2>1, <2>2, <2>3, <2>4, <2>5, PlanGrows
  <2>7. \A x \in T \union {o}, y \in todo' : start[x] < start[y]
    BY <1>1, <1>2, <2>1
  <2> QED
    BY <1>1, <1>4, <2>2, <2>6, <2>7 DEF PlanInv
<1>7. WordsStandFor(c, h, q)'
  <2>1. WordsStandFor(c, h, q)
    BY DEF Collecting
  <2>2. \A x : Seen(x)' = Seen(x)
    BY <1>1 DEF Seen
  <2> QED
    BY <1>1, <1>3, <1>4, <2>1, <2>2 DEF WordsStandFor
<1> QED
  BY <1>1, <1>5, <1>6, <1>7 DEF Collecting

LEMMA PlanMoveCollects ==
    ASSUME SoundImage, ShapeInv, SlideInv, SavedInv, NEW c, NEW h, NEW q, Collecting(c, h, q),
           NEW o \in marked, PlanMove(o)
    PROVE  \E q2 : Collecting(c, h, q2)'
<1> DEFINE n == Len(saved)
<1>q. PICK q2 : q2 = [k \in 1..(n + 1) |-> IF k = n + 1 THEN o ELSE q[k]]
  OBVIOUS
<1>a. SavedFieldsOf(q) /\ PlanInv /\ WordsStandFor(c, h, q)
  BY DEF Collecting
<1>b. phase = "plan" /\ Scans(o) /\ o \notin Pinned
  BY DEF PlanMove
<1>c. /\ o \in todo /\ o \in live /\ \A x \in live : start[x] \in Int
      /\ \A x \in todo \ {o} : start[o] < start[x]
      /\ marked \subseteq live /\ todo \subseteq marked
  BY <1>b, ScansNext DEF ShapeInv
<1>d. n < ScratchLimit
  BY <1>a, <1>b, <1>c, ScratchSuffices
<1>1. /\ saved' = Append(saved, words[o][1])
      /\ words' = [words EXCEPT ![o][1] = HeaderAt(o, toFinger)]
      /\ grey' = grey \union {o} /\ toFinger' = toFinger + TotalSize(o) /\ todo' = todo \ {o}
      /\ UNCHANGED <<live, start, roots, phase, savedPtr, marked, before>>
  BY <1>d DEF PlanMove
<1>2. n \in Nat /\ savedPtr = 0 /\ Restored = 0 /\ Restored' = 0 /\ o \notin grey
  BY <1>1, <1>a, <1>b, <1>c, LenProperties DEF SavedInv, SavedFieldsOf, Restored
<1>3. /\ Len(saved') = n + 1 /\ saved'[n + 1] = words[o][1]
      /\ \A k \in 1..n : saved'[k] = saved[k]
  <2>1. PICK S : saved \in Seq(S)
    BY DEF SavedInv
  <2>2. saved \in Seq(S \union {words[o][1]})
    BY <2>1, SeqMonotonic
  <2> QED
    BY <1>1, <2>2, AppendProperties
<1>4. q2[n + 1] = o /\ \A k \in 1..n : q2[k] = q[k]
  BY <1>q, <1>2
<1>5. q2 \in [1..(n + 1) -> marked \ Pinned]
  BY <1>q, <1>2, <1>b, <1>a DEF SavedFieldsOf
<1>6. /\ words'[o][1] = HeaderAt(o, toFinger)
      /\ \A i \in 1..WordCount(o) : i # 1 => words'[o][i] = words[o][i]
      /\ \A x \in marked \ {o} : words'[x] = words[x]
  <2>1. DOMAIN words = live /\ DOMAIN words[o] = 1..WordCount(o) /\ 1 \in 1..WordCount(o)
    BY <1>c, SizesArePositive DEF ShapeInv
  <2>2. words'[o] = [words[o] EXCEPT ![1] = HeaderAt(o, toFinger)]
    BY <1>1, <1>c, <2>1
  <2>3. \A x \in marked \ {o} : words'[x] = words[x]
    BY <1>1, <1>c, <2>1
  <2> QED
    BY <2>1, <2>2, <2>3
<1>7. toFinger \in Nat /\ HeaderAt(o, toFinger) \in Int
  BY Fingers DEF HeaderAt
<1>8. Goal'[o] = toFinger /\ \A x \in marked \ {o} : Goal'[x] = Goal[x]
  <2>1. o \in grey' /\ marked' = marked /\ \A x \in marked \ {o} : x \in grey' <=> x \in grey
    BY <1>1
  <2>2. Goal'[o] = toFinger
    BY <2>1, <1>6, <1>7 DEF Goal, HeaderAt
  <2>3. \A x \in marked \ {o} : words'[x] = words[x] /\ start'[x] = start[x]
    BY <1>1, <1>6
  <2>4. \A x \in marked \ {o} : Goal'[x] = Goal[x]
    BY <2>1, <2>3 DEF Goal
  <2> QED
    BY <2>2, <2>4
<1>9. SavedFieldsOf(q2)'
  <2>1. \A k \in 1..n : q[k] \in grey
    BY <1>2, <1>a DEF SavedFieldsOf
  <2>2. grey' = {q2[k] : k \in 1..(n + 1)}
    <3>1. grey = {q[k] : k \in 1..n}
      BY <1>2, <1>a DEF SavedFieldsOf
    <3>2. 1..(n + 1) = 1..n \union {n + 1}
      BY <1>2
    <3> QED
      BY <3>1, <3>2, <1>1, <1>4
  <2>3. ASSUME NEW i \in 1..(n + 1), NEW j \in 1..(n + 1), i < j
        PROVE  start[q2[i]] < start[q2[j]]
    <3>1. i \in 1..n /\ q2[i] = q[i]
      BY <1>2, <1>4, <2>3
    <3>2. CASE j = n + 1
      <4>1. q[i] \in marked \ todo
        BY <2>1, <3>1, <1>a, <1>b DEF SavedFieldsOf, ShapeInv
      <4> QED
        BY <4>1, <3>1, <3>2, <1>a, <1>b, <1>c, <1>4 DEF PlanInv
    <3>3. CASE j # n + 1
      BY <1>2, <1>4, <1>a, <2>3, <3>1, <3>3 DEF SavedFieldsOf
    <3> QED
      BY <3>2, <3>3
  <2>4. \A x \in grey' : words'[x][1] \in Int
    <3>1. \A x \in grey : words'[x] = words[x] /\ words[x][1] \in Int
      BY <1>2, <1>6, <1>a DEF SavedFieldsOf, ShapeInv
    <3> QED
      BY <3>1, <1>1, <1>6, <1>7
  <2>5. grey' \intersect todo' = {} /\ phase' # "update"
    BY <1>1, <1>a, <1>b DEF SavedFieldsOf
  <2>6. (Restored' + 1)..Len(saved') = 1..(n + 1) /\ 1..Len(saved') = 1..(n + 1)
    BY <1>2, <1>3
  <2> QED
    BY <1>1, <1>2, <1>5, <2>2, <2>3, <2>4, <2>5, <2>6 DEF SavedFieldsOf
<1>10. PlanInv'
  <2> DEFINE T == marked \ todo
  <2>1. /\ \A x \in T, y \in todo : start[x] < start[y]
        /\ Planned(T, OldSpaceStart, start, Goal)
        /\ Reached(T, OldSpaceStart, toFinger, start, Goal)
    BY <1>a, <1>b DEF PlanInv
  <2>2. (marked \ todo)' = T \union {o} /\ o \notin T
    BY <1>1, <1>c
  <2>3. \A x \in T \union {o} : start[x] \in Int
    BY <1>c
  <2>4. \A x \in T : start[x] < start[o] /\ Goal'[x] = Goal[x]
    BY <1>8, <1>c, <2>1
  <2> HIDE DEF T
  <2>6. /\ Planned(T \union {o}, OldSpaceStart, start, Goal')
        /\ Reached(T \union {o}, OldSpaceStart, Goal'[o] + TotalSize(o), start, Goal')
    BY <2>1, <2>2, <2>3, <2>4, <1>8, PlanGrows
  <2>7. \A x \in T \union {o}, y \in todo' : start[x] < start[y]
    BY <1>1, <1>c, <2>1
  <2> QED
    BY <1>1, <1>b, <1>8, <2>2, <2>6, <2>7 DEF PlanInv
<1>11. WordsStandFor(c, h, q2)'
  <2>1. \A x : Seen(x)' = start /\ Seen(x) = start
    BY <1>1, <1>b DEF Seen
  <2>2. ASSUME NEW x \in marked, NEW i \in 1..WordCount(x), ~(i = 1 /\ x \in grey')
        PROVE  words'[x][i] = WordFor(c[x][i], start)
    <3>1. ~(i = 1 /\ x \in grey) /\ words[x][i] = WordFor(c[x][i], start)
      BY <1>1, <2>1, <2>2, <1>a DEF WordsStandFor
    <3>2. words'[x][i] = words[x][i]
      BY <2>2, <1>1, <1>6
    <3> QED
      BY <3>1, <3>2
  <2>3. ASSUME NEW k \in 1..(n + 1) PROVE saved'[k] = WordFor(c[q2[k]][1], start)
    <3>1. CASE k = n + 1
      <4>1. words[o][1] = WordFor(c[o][1], start)
        BY <1>2, <1>a, <2>1, <1>c, SizesArePositive DEF WordsStandFor, ShapeInv
      <4> QED
        BY <4>1, <3>1, <1>3, <1>4
    <3>2. CASE k # n + 1
      <4>1. k \in 1..n
        BY <3>2, <1>2
      <4>2. saved[k] = WordFor(c[q[k]][1], start)
        BY <4>1, <2>1, <1>2, <1>a DEF WordsStandFor
      <4> QED
        BY <4>1, <4>2, <1>3, <1>4
    <3> QED
      BY <3>1, <3>2
  <2>4. \A r \in Root : roots'[r] = WordFor(h[r], start')
    BY <1>1, <1>a, <1>b DEF WordsStandFor
  <2>5. (Restored' + 1)..Len(saved') = 1..(n + 1)
    BY <1>2, <1>3
  <2>6. \A x \in marked' : \A i \in 1..WordCount(x) :
           ~(i = 1 /\ x \in grey') => words'[x][i] = WordFor(c[x][i], Seen(x)')
    BY <1>1, <2>1, <2>2
  <2>7. \A k \in (Restored' + 1)..Len(saved') : saved'[k] = WordFor(c[q2[k]][1], Seen(q2[k])')
    BY <2>1, <2>3, <2>5
  <2>8. \A r \in Root : roots'[r] = WordFor(h[r], IF phase' = "copy" THEN Goal' ELSE start')
    BY <1>1, <1>b, <2>4
  <2> QED
    BY <2>6, <2>7, <2>8 DEF WordsStandFor
<1>12. Collecting(c, h, q2)'
  BY <1>1, <1>9, <1>10, <1>11 DEF Collecting
<1> QED
  BY <1>12

LEMMA EndPlanCollects ==
    ASSUME SoundImage, ShapeInv, SavedInv, NEW c, NEW h, NEW q, Collecting(c, h, q), EndPlan
    PROVE  Collecting(c, h, q)'
<1>1. /\ phase = "plan" /\ todo = {} /\ phase' = "update" /\ todo' = marked
      /\ UNCHANGED <<live, start, words, roots, toFinger, savedPtr, marked, grey, saved, before>>
  BY DEF EndPlan, heapVars
<1>2. SavedFieldsOf(q) /\ PlanInv /\ WordsStandFor(c, h, q)
  BY DEF Collecting
<1>3. Goal' = Goal /\ Restored' = 0 /\ Restored = 0
  BY <1>1 DEF Goal, Restored
<1>4. SavedFieldsOf(q)'
  <2>1. Len(saved) \in Nat
    BY LenProperties DEF SavedInv
  <2>2. \A k \in 1..Len(saved) : q[k] \in marked /\ 0 < k
    BY <1>2, <2>1 DEF SavedFieldsOf
  <2> QED
    BY <1>1, <1>2, <1>3, <2>2 DEF SavedFieldsOf
<1>5. PlanInv'
  BY <1>1, <1>2, <1>3 DEF PlanInv
<1>6. WordsStandFor(c, h, q)'
  <2>1. \A x \in marked : Seen(x) = start /\ Seen(x)' = start
    BY <1>1 DEF Seen
  <2>2. \A k \in 1..Len(saved) : q[k] \in marked
    BY <1>2 DEF SavedFieldsOf
  <2> QED
    BY <1>1, <1>2, <1>3, <2>1, <2>2 DEF WordsStandFor
<1> QED
  BY <1>1, <1>4, <1>5, <1>6 DEF Collecting

\* Redirecting the references of an object leaves its raw data alone.
LEMMA WordRedirected ==
    ASSUME SoundImage, ShapeInv, SlideInv, phase = "update", NEW c, NEW h,
           WellFormed(marked, c, h), \A x \in grey : words[x][1] \in Int,
           NEW o \in marked
    PROVE  /\ Slots(o, c[o][1]) \in Nat /\ Slots(o, c[o][1]) <= WordCount(o)
           /\ PointerSlots(o, WordFor(c[o][1], start)) = Slots(o, c[o][1])
           /\ \A i \in 1..WordCount(o) :
                 WordFor(c[o][i], Goal) =
                    IF i <= Slots(o, c[o][1]) THEN ResolveForward(WordFor(c[o][i], start))
                                              ELSE WordFor(c[o][i], start)
<1>1. HeadersApart(marked, start) /\ marked \subseteq Object
  BY SlidePlaces DEF HeadersApart, ShapeInv
<1>2. /\ Slots(o, c[o][1]) \in Nat /\ Slots(o, c[o][1]) <= WordCount(o)
      /\ PointerSlots(o, WordFor(c[o][1], start)) = Slots(o, c[o][1])
  BY <1>1, SlotsByContents
<1>3. ASSUME NEW i \in 1..WordCount(o), i <= Slots(o, c[o][1])
      PROVE  WordFor(c[o][i], Goal) = ResolveForward(WordFor(c[o][i], start))
  <2>1. Refers(marked, c[o][i])
    BY <1>3 DEF WellFormed
  <2> QED
    BY <2>1, ResolvesToGoal
<1>4. ASSUME NEW i \in 1..WordCount(o), ~(i <= Slots(o, c[o][1]))
      PROVE  WordFor(c[o][i], Goal) = WordFor(c[o][i], start)
  <2>1. c[o][i] \in Int /\ c[o][i] \notin Object
    BY <1>4 DEF WellFormed, SoundImage
  <2> QED
    BY <2>1 DEF WordFor
<1> QED
  BY <1>2, <1>3, <1>4

LEMMA UpdateStayingCollects ==
    ASSUME SoundImage, ShapeInv, SlideInv, SavedInv, NEW c, NEW h, NEW q, Collecting(c, h, q),
           NEW o \in marked, UpdateStaying(o)
    PROVE  Collecting(c, h, q)'
<1> DEFINE n == PointerSlots(o, words[o][1])
<1>1. /\ phase = "update" /\ Scans(o) /\ o \notin grey
      /\ words' = [words EXCEPT ![o] = Redirected(o, 1, n)] /\ todo' = todo \ {o}
      /\ UNCHANGED <<live, start, roots, phase, toFinger, savedPtr, marked, grey, saved, before>>
  BY DEF UpdateStaying
<1>2. SavedFieldsOf(q) /\ PlanInv /\ WordsStandFor(c, h, q) /\ WellFormed(marked, c, h)
  BY DEF Collecting
<1>3. o \in todo /\ o \in live /\ DOMAIN words = live /\ DOMAIN words[o] = 1..WordCount(o)
      /\ 1 \in 1..WordCount(o) /\ marked \subseteq live
  BY <1>1, SizesArePositive DEF Scans, ShapeInv
<1>4. /\ words'[o] = Redirected(o, 1, n)
      /\ \A x \in marked \ {o} : words'[x] = words[x]
  BY <1>1, <1>3
<1>5. Goal' = Goal /\ Restored' = 0 /\ Restored = 0
  <2>1. \A x \in marked : x \in grey => words'[x] = words[x]
    BY <1>1, <1>4
  <2> QED
    BY <1>1, <2>1 DEF Goal, Restored
<1>6. \A k \in 1..Len(saved) : q[k] \in grey /\ q[k] # o /\ q[k] \in marked
  BY <1>1, <1>2, <1>5 DEF SavedFieldsOf
<1>7. SavedFieldsOf(q)'
  <2>1. \A x \in grey : words'[x][1] \in Int
    BY <1>1, <1>2, <1>4 DEF SavedFieldsOf, ShapeInv
  <2>2. \A k \in 1..Len(saved) : q[k] \in todo' <=> savedPtr < k
    BY <1>1, <1>2, <1>6 DEF SavedFieldsOf
  <2> QED
    BY <1>1, <1>2, <1>5, <2>1, <2>2 DEF SavedFieldsOf
<1>8. PlanInv'
  BY <1>1, <1>2, <1>5 DEF PlanInv
<1>9. \A i \in 1..WordCount(o) : words[o][i] = WordFor(c[o][i], start)
  BY <1>1, <1>2, <1>3 DEF WordsStandFor, Seen
<1>10. \A i \in 1..WordCount(o) : words'[o][i] = WordFor(c[o][i], Goal)
  <2>1. /\ n = Slots(o, c[o][1]) /\ n \in Nat
        /\ \A i \in 1..WordCount(o) :
              WordFor(c[o][i], Goal) =
                 IF i <= Slots(o, c[o][1]) THEN ResolveForward(WordFor(c[o][i], start))
                                           ELSE WordFor(c[o][i], start)
    <3>1. \A x \in grey : words[x][1] \in Int
      BY <1>2 DEF SavedFieldsOf
    <3> QED
      BY <1>1, <1>2, <1>3, <1>9, <3>1, WordRedirected
  <2> HIDE DEF n
  <2>2. ASSUME NEW i \in 1..WordCount(o)
        PROVE  words'[o][i] = IF i <= n THEN ResolveForward(words[o][i]) ELSE words[o][i]
    <3>1. i \in 1..n <=> i <= n
      BY <2>1
    <3> QED
      BY <1>3, <1>4, <3>1 DEF Redirected
  <2> QED
    BY <1>9, <2>1, <2>2
<1>11. WordsStandFor(c, h, q)'
  <2>1. Seen(o)' = Goal /\ \A x \in marked \ {o} : Seen(x)' = Seen(x)
    BY <1>1, <1>5 DEF Seen
  <2>2. \A x \in marked' : \A i \in 1..WordCount(x) :
           ~(i = 1 /\ x \in grey') => words'[x][i] = WordFor(c[x][i], Seen(x)')
    BY <1>1, <1>2, <1>4, <1>10, <2>1 DEF WordsStandFor
  <2>3. \A k \in (Restored' + 1)..Len(saved') : saved'[k] = WordFor(c[q[k]][1], Seen(q[k])')
    BY <1>1, <1>2, <1>5, <1>6, <2>1 DEF WordsStandFor
  <2>4. \A r \in Root : roots'[r] = WordFor(h[r], IF phase' = "copy" THEN Goal' ELSE start')
    BY <1>1, <1>2 DEF WordsStandFor
  <2> QED
    BY <2>2, <2>3, <2>4 DEF WordsStandFor
<1> QED
  BY <1>1, <1>7, <1>8, <1>11 DEF Collecting

LEMMA UpdateMovingCollects ==
    ASSUME SoundImage, ShapeInv, SlideInv, SavedInv, NEW c, NEW h, NEW q, Collecting(c, h, q),
           NEW o \in marked, UpdateMoving(o)
    PROVE  Collecting(c, h, q)'
<1> DEFINE k0 == savedPtr + 1
           first == saved[k0]
           n == PointerSlots(o, first)
<1>1. /\ phase = "update" /\ Scans(o) /\ o \in grey
      /\ words' = [words EXCEPT ![o] = Redirected(o, 2, n)]
      /\ saved' = IF n > 0 THEN [saved EXCEPT ![k0] = ResolveForward(first)] ELSE saved
      /\ savedPtr' = k0 /\ todo' = todo \ {o}
      /\ UNCHANGED <<live, start, roots, phase, toFinger, marked, grey, before>>
  BY DEF UpdateMoving
<1>2. SavedFieldsOf(q) /\ PlanInv /\ WordsStandFor(c, h, q) /\ WellFormed(marked, c, h)
  BY DEF Collecting
<1>3. o \in todo /\ o \in live /\ DOMAIN words = live /\ DOMAIN words[o] = 1..WordCount(o)
      /\ WordCount(o) \in Nat /\ 1 \in 1..WordCount(o) /\ marked \subseteq live
  BY <1>1, SizesArePositive DEF Scans, ShapeInv
<1>4. /\ words'[o] = Redirected(o, 2, n)
      /\ \A x \in marked \ {o} : words'[x] = words[x]
  BY <1>1, <1>3
<1>5. Restored' = 0 /\ Restored = 0
  BY <1>1 DEF Restored
<1>6. k0 \in 1..Len(saved) /\ o = q[k0] /\ savedPtr \in Nat /\ Len(saved) \in Nat
  <2>1. savedPtr \in Nat /\ Len(saved) \in Nat
    BY LenProperties DEF SavedInv
  <2> QED
    BY <2>1, <1>1, <1>2, <1>5, NextSaved
<1>7. /\ DOMAIN saved' = 1..Len(saved) /\ Len(saved') = Len(saved)
      /\ \A k \in 1..Len(saved) : k # k0 => saved'[k] = saved[k]
      /\ saved'[k0] = IF n > 0 THEN ResolveForward(first) ELSE first
  <2>1. PICK S : saved \in Seq(S)
    BY DEF SavedInv
  <2>2. DOMAIN saved = 1..Len(saved)
    BY <2>1, LenProperties
  <2>3. CASE n > 0
    <3> DEFINE w == ResolveForward(first)
               U == S \union {w}
    <3>1. saved \in Seq(U) /\ w \in U
      BY <2>1, SeqMonotonic
    <3>2. saved' = [saved EXCEPT ![k0] = w]
      BY <1>1, <2>3
    <3> HIDE DEF U, w
    <3>3. Len([saved EXCEPT ![k0] = w]) = Len(saved)
      BY <3>1, <1>6, ExceptSeq
    <3>4. DOMAIN saved' = 1..Len(saved) /\ Len(saved') = Len(saved)
      BY <3>2, <3>3, <2>2
    <3>5. saved'[k0] = w /\ \A k \in 1..Len(saved) : k # k0 => saved'[k] = saved[k]
      BY <3>2, <2>2, <1>6
    <3> QED
      BY <3>4, <3>5, <2>3 DEF w
  <2>4. CASE ~(n > 0)
    BY <1>1, <2>2, <2>4
  <2> QED
    BY <2>3, <2>4
<1>8. words'[o][1] = words[o][1]
  BY <1>3, <1>4 DEF Redirected
<1>9. Goal' = Goal
  <2>1. \A x \in marked : words'[x][1] = words[x][1]
    BY <1>4, <1>8
  <2> QED
    BY <1>1, <2>1 DEF Goal
<1>10. first = WordFor(c[o][1], start)
  BY <1>1, <1>2, <1>3, <1>5, <1>6 DEF WordsStandFor, Seen
<1>11. /\ n = Slots(o, c[o][1]) /\ n \in Nat
       /\ \A i \in 1..WordCount(o) :
             WordFor(c[o][i], Goal) =
                IF i <= n THEN ResolveForward(WordFor(c[o][i], start))
                          ELSE WordFor(c[o][i], start)
  <2>1. \A x \in grey : words[x][1] \in Int
    BY <1>2 DEF SavedFieldsOf
  <2> QED
    BY <1>1, <1>2, <1>10, <2>1, WordRedirected
<1> HIDE DEF n, first
<1>12. \A i \in 1..WordCount(o) : i # 1 => words'[o][i] = WordFor(c[o][i], Goal)
  <2> SUFFICES ASSUME NEW i \in 1..WordCount(o), i # 1
               PROVE  words'[o][i] = WordFor(c[o][i], Goal)
    OBVIOUS
  <2>1. words[o][i] = WordFor(c[o][i], start)
    BY <1>1, <1>2, <1>3 DEF WordsStandFor, Seen
  <2>2. i \in 2..n <=> i <= n
    BY <1>3, <1>11
  <2>3. words'[o][i] = IF i <= n THEN ResolveForward(words[o][i]) ELSE words[o][i]
    BY <1>3, <1>4, <2>2 DEF Redirected
  <2> QED
    BY <1>11, <2>1, <2>3
<1>13. saved'[k0] = WordFor(c[o][1], Goal)
  <2>1. n > 0 <=> 1 <= n
    BY <1>11
  <2> QED
    BY <1>3, <1>7, <1>10, <1>11, <2>1
<1>14. \A k \in 1..Len(saved) : q[k] \in marked /\ (k # k0 => q[k] # o)
  <2>1. \A k \in 1..Len(saved) : q[k] \in marked
    BY <1>2 DEF SavedFieldsOf
  <2>2. ASSUME NEW k \in 1..Len(saved), k # k0 PROVE q[k] # o
    <3>1. start[o] \in Int
      BY <1>3 DEF SlideInv, OldSpaceStart
    <3>2. k < k0 \/ k0 < k
      BY <1>6, <2>2
    <3>3. start[q[k]] < start[o] \/ start[o] < start[q[k]]
      BY <1>2, <1>5, <1>6, <3>2 DEF SavedFieldsOf
    <3> QED
      BY <3>1, <3>3
  <2> QED
    BY <2>1, <2>2
<1>15. SavedFieldsOf(q)'
  <2>1. \A x \in grey : words'[x][1] \in Int
    BY <1>2, <1>4, <1>8 DEF SavedFieldsOf, ShapeInv
  <2>2. ASSUME NEW k \in 1..Len(saved) PROVE q[k] \in todo' <=> k0 < k
    <3>1. q[k] \in todo <=> savedPtr < k
      BY <1>1, <1>2 DEF SavedFieldsOf
    <3>2. k # k0 => q[k] # o
      BY <1>14
    <3> QED
      BY <1>1, <1>6, <3>1, <3>2
  <2>3. /\ q \in [1..Len(saved) -> marked \ Pinned]
        /\ grey = {q[k] : k \in 1..Len(saved)}
        /\ \A i, j \in 1..Len(saved) : i < j => start[q[i]] < start[q[j]]
    BY <1>2, <1>5 DEF SavedFieldsOf
  <2> QED
    BY <1>1, <1>5, <1>7, <2>1, <2>2, <2>3 DEF SavedFieldsOf
<1>16. PlanInv'
  BY <1>1, <1>2, <1>9 DEF PlanInv
<1>17. WordsStandFor(c, h, q)'
  <2>1. Seen(o)' = Goal /\ \A x \in marked \ {o} : Seen(x)' = Seen(x)
    BY <1>1, <1>9 DEF Seen
  <2>2. ASSUME NEW x \in marked, NEW i \in 1..WordCount(x), ~(i = 1 /\ x \in grey)
        PROVE  words'[x][i] = WordFor(c[x][i], Seen(x)')
    <3>1. CASE x = o
      BY <3>1, <2>2, <1>1, <1>12, <2>1
    <3>2. CASE x # o
      BY <3>2, <2>2, <1>2, <1>4, <2>1 DEF WordsStandFor
    <3> QED
      BY <3>1, <3>2
  <2>3. ASSUME NEW k \in 1..Len(saved) PROVE saved'[k] = WordFor(c[q[k]][1], Seen(q[k])')
    <3>1. CASE k = k0
      BY <3>1, <1>6, <1>13, <2>1
    <3>2. CASE k # k0
      <4>1. saved[k] = WordFor(c[q[k]][1], Seen(q[k]))
        BY <1>2, <1>5 DEF WordsStandFor
      <4>2. Seen(q[k])' = Seen(q[k])
        BY <1>14, <3>2, <2>1
      <4> QED
        BY <3>2, <1>7, <4>1, <4>2
    <3> QED
      BY <3>1, <3>2
  <2>4. \A x \in marked' : \A i \in 1..WordCount(x) :
           ~(i = 1 /\ x \in grey') => words'[x][i] = WordFor(c[x][i], Seen(x)')
    BY <1>1, <2>2
  <2>5. \A k \in (Restored' + 1)..Len(saved') : saved'[k] = WordFor(c[q[k]][1], Seen(q[k])')
    BY <1>5, <1>7, <2>3
  <2>6. \A r \in Root : roots'[r] = WordFor(h[r], IF phase' = "copy" THEN Goal' ELSE start')
    BY <1>1, <1>2 DEF WordsStandFor
  <2> QED
    BY <2>4, <2>5, <2>6 DEF WordsStandFor
<1> QED
  BY <1>1, <1>15, <1>16, <1>17 DEF Collecting

LEMMA UpdateRootsCollects ==
    ASSUME SoundImage, ShapeInv, SlideInv, SavedInv, NEW c, NEW h, NEW q, Collecting(c, h, q),
           UpdateRoots
    PROVE  Collecting(c, h, q)'
<1>1. /\ phase = "update" /\ todo = {} /\ roots' = [r \in Root |-> ResolveForward(roots[r])]
      /\ phase' = "copy" /\ todo' = marked /\ toFinger' = OldSpaceStart /\ savedPtr' = 0
      /\ UNCHANGED <<live, start, words, marked, grey, saved, before>>
  BY DEF UpdateRoots
<1>2. SavedFieldsOf(q) /\ PlanInv /\ WordsStandFor(c, h, q) /\ WellFormed(marked, c, h)
  BY DEF Collecting
<1>3. Goal' = Goal /\ Restored' = 0 /\ Restored = 0
  BY <1>1 DEF Goal, Restored
<1>4. SavedFieldsOf(q)'
  BY <1>1, <1>2, <1>3 DEF SavedFieldsOf
<1>5. PlanInv'
  BY <1>1, <1>2, <1>3 DEF PlanInv
<1>6. WordsStandFor(c, h, q)'
  <2>1. \A x : Seen(x)' = Goal /\ Seen(x) = Goal
    BY <1>1, <1>3 DEF Seen
  <2>2. ASSUME NEW r \in Root PROVE roots'[r] = WordFor(h[r], Goal)
    <3>1. roots[r] = WordFor(h[r], start) /\ Refers(marked, h[r])
      BY <1>1, <1>2 DEF WordsStandFor, WellFormed
    <3>2. \A x \in grey : words[x][1] \in Int
      BY <1>2 DEF SavedFieldsOf
    <3>3. ResolveForward(WordFor(h[r], start)) = WordFor(h[r], Goal)
      BY <1>1, <3>1, <3>2, ResolvesToGoal
    <3> QED
      BY <1>1, <3>1, <3>3
  <2>3. \A x \in marked' : \A i \in 1..WordCount(x) :
           ~(i = 1 /\ x \in grey') => words'[x][i] = WordFor(c[x][i], Seen(x)')
    BY <1>1, <1>2, <2>1 DEF WordsStandFor
  <2>4. \A k \in (Restored' + 1)..Len(saved') : saved'[k] = WordFor(c[q[k]][1], Seen(q[k])')
    BY <1>1, <1>2, <1>3, <2>1 DEF WordsStandFor
  <2>5. \A r \in Root : roots'[r] = WordFor(h[r], IF phase' = "copy" THEN Goal' ELSE start')
    BY <1>1, <1>3, <2>2
  <2> QED
    BY <2>3, <2>4, <2>5 DEF WordsStandFor
<1> QED
  BY <1>1, <1>4, <1>5, <1>6 DEF Collecting

LEMMA CopyPinnedCollects ==
    ASSUME SoundImage, ShapeInv, SlideInv, SavedInv, NEW c, NEW h, NEW q, Collecting(c, h, q),
           NEW o \in marked, CopyPinned(o)
    PROVE  Collecting(c, h, q)'
<1>1. /\ phase = "copy" /\ Scans(o) /\ o \in Pinned
      /\ toFinger' = start[o] + TotalSize(o) /\ todo' = todo \ {o} /\ grey' = grey \ {o}
      /\ UNCHANGED <<live, start, words, roots, phase, savedPtr, marked, saved, before>>
  BY DEF CopyPinned, heapVars
<1>2. SavedFieldsOf(q) /\ PlanInv /\ WordsStandFor(c, h, q)
  BY DEF Collecting
<1>3. o \notin grey /\ grey' = grey
  <2>1. \A k \in (Restored + 1)..Len(saved) : q[k] \notin Pinned
    <3>1. Restored \in Nat /\ Len(saved) \in Nat
      BY <1>1, LenProperties DEF Restored, SavedInv
    <3>2. \A k \in (Restored + 1)..Len(saved) : k \in 1..Len(saved)
      BY <3>1
    <3> QED
      BY <3>2, <1>2 DEF SavedFieldsOf
  <2>2. o \notin grey
    BY <1>1, <1>2, <2>1 DEF SavedFieldsOf
  <2> QED
    BY <2>2, <1>1
<1>4. Goal' = Goal /\ Goal[o] = start[o] /\ Restored' = Restored
  BY <1>1, <1>3 DEF Goal, Restored
<1>5. SavedFieldsOf(q)'
  BY <1>1, <1>2, <1>3, <1>4 DEF SavedFieldsOf
<1>6. PlanInv'
  <2>1. Planned(todo, toFinger, start, Goal)
    BY <1>1, <1>2 DEF PlanInv
  <2>2. o \in todo /\ (\A x \in todo : start[x] \in Int) /\ \A x \in todo \ {o} : start[o] < start[x]
    BY <1>1, ScansNext DEF ShapeInv
  <2>3. Planned(todo \ {o}, Goal[o] + TotalSize(o), start, Goal)
    BY <2>1, <2>2, PlanShrinks
  <2> QED
    BY <1>1, <1>4, <2>3 DEF PlanInv
<1>7. WordsStandFor(c, h, q)'
  <2>1. \A x : Seen(x)' = Goal /\ Seen(x) = Goal
    BY <1>1, <1>4 DEF Seen
  <2> QED
    BY <1>1, <1>2, <1>3, <1>4, <2>1 DEF WordsStandFor
<1> QED
  BY <1>1, <1>5, <1>6, <1>7 DEF Collecting

LEMMA CopyMobileCollects ==
    ASSUME SoundImage, ShapeInv, SlideInv, SavedInv, NEW c, NEW h, NEW q, Collecting(c, h, q),
           NEW o \in marked, CopyMobile(o)
    PROVE  Collecting(c, h, q)'
<1> DEFINE k0 == savedPtr + 1
           taken == o \in grey /\ savedPtr < Len(saved)
<1>1. /\ phase = "copy" /\ Scans(o) /\ o \notin Pinned
      /\ start' = [start EXCEPT ![o] = toFinger]
      /\ toFinger' = toFinger + TotalSize(o) /\ todo' = todo \ {o} /\ grey' = grey \ {o}
      /\ UNCHANGED <<live, roots, phase, marked, saved, before>>
      /\ taken => words' = [words EXCEPT ![o][1] = saved[k0]] /\ savedPtr' = k0
      /\ ~taken => UNCHANGED <<words, savedPtr>>
  BY DEF CopyMobile
<1>2. SavedFieldsOf(q) /\ PlanInv /\ WordsStandFor(c, h, q)
  BY DEF Collecting
<1>3. /\ o \in todo /\ o \in live /\ (\A x \in live : start[x] \in Int)
      /\ (\A x \in todo \ {o} : start[o] < start[x]) /\ todo \subseteq marked
      /\ marked \subseteq live /\ grey \subseteq todo
  BY <1>1, ScansNext DEF ShapeInv
<1>4. savedPtr \in Nat /\ Len(saved) \in Nat /\ Restored = savedPtr /\ Restored' = savedPtr'
  BY <1>1, LenProperties DEF SavedInv, Restored
<1>5. o \in grey => taken /\ k0 \in 1..Len(saved) /\ o = q[k0]
  BY <1>1, <1>2, <1>4, NextSaved
<1>6. /\ DOMAIN start = live /\ DOMAIN words = live /\ DOMAIN words[o] = 1..WordCount(o)
      /\ 1 \in 1..WordCount(o)
  BY <1>3, SizesArePositive DEF SlideInv, ShapeInv
<1>7. start'[o] = toFinger /\ \A x \in marked \ {o} : start'[x] = start[x]
  BY <1>1, <1>3, <1>6
<1>8. /\ o \notin grey => words' = words /\ savedPtr' = savedPtr /\ grey' = grey
      /\ o \in grey => /\ savedPtr' = k0 /\ words'[o] = [words[o] EXCEPT ![1] = saved[k0]]
                       /\ \A x \in marked \ {o} : words'[x] = words[x]
  BY <1>1, <1>3, <1>5, <1>6
<1> HIDE DEF taken
<1>9. /\ \A x \in marked \ {o} : words'[x] = words[x]
      /\ \A i \in 1..WordCount(o) : i # 1 => words'[o][i] = words[o][i]
      /\ words'[o][1] = IF o \in grey THEN saved[k0] ELSE words[o][1]
  BY <1>6, <1>8
<1>10. /\ Goal[o] = toFinger
       /\ Planned(todo \ {o}, Goal[o] + TotalSize(o), start, Goal)
  <2>1. Planned(todo, toFinger, start, Goal)
    BY <1>1, <1>2 DEF PlanInv
  <2>2. o \in todo /\ (\A x \in todo : start[x] \in Int) /\ \A x \in todo \ {o} : start[o] < start[x]
    BY <1>3
  <2>3. /\ o \notin Pinned => Goal[o] = toFinger
        /\ Planned(todo \ {o}, Goal[o] + TotalSize(o), start, Goal)
    BY <2>1, <2>2, PlanShrinks
  <2> QED
    BY <1>1, <2>3
<1>11. Goal' = Goal
  <2>1. ASSUME NEW x \in marked, x # o
        PROVE  (x \in grey' <=> x \in grey) /\ words'[x] = words[x] /\ start'[x] = start[x]
    BY <1>1, <1>7, <1>9, <2>1
  <2>2. o \notin grey' /\ start'[o] = Goal[o] /\ marked' = marked
    BY <1>1, <1>7, <1>10
  <2>3. Goal'[o] = Goal[o] /\ \A x \in marked : x # o => Goal'[x] = Goal[x]
    BY <2>1, <2>2 DEF Goal
  <2> QED
    BY <2>2, <2>3 DEF Goal
<1>12. \A k \in (Restored' + 1)..Len(saved) :
          /\ k \in (Restored + 1)..Len(saved) /\ k \in 1..Len(saved)
          /\ q[k] \in grey /\ q[k] \in marked /\ q[k] # o
  <2> SUFFICES ASSUME NEW k \in (Restored' + 1)..Len(saved)
               PROVE  /\ k \in (Restored + 1)..Len(saved) /\ k \in 1..Len(saved)
                      /\ q[k] \in grey /\ q[k] \in marked /\ q[k] # o
    OBVIOUS
  <2>1. savedPtr' \in {savedPtr, savedPtr + 1}
    BY <1>8
  <2>2. k \in (Restored + 1)..Len(saved) /\ k \in 1..Len(saved)
    <3>1. k \in (savedPtr' + 1)..Len(saved)
      BY <1>4
    <3>2. CASE savedPtr' = savedPtr
      BY <3>1, <3>2, <1>4
    <3>3. CASE savedPtr' = savedPtr + 1
      <4>1. k \in (savedPtr + 1 + 1)..Len(saved)
        BY <3>1, <3>3
      <4> QED
        BY <4>1, <1>4
    <3> QED
      BY <2>1, <3>2, <3>3
  <2>3. q[k] \in grey /\ q[k] \in marked
    BY <1>2, <2>2 DEF SavedFieldsOf
  <2>4. CASE o \notin grey
    BY <2>2, <2>3, <2>4
  <2>5. CASE o \in grey
    <3>1. k0 \in (Restored + 1)..Len(saved) /\ k0 < k
      BY <1>4, <1>5, <1>8, <2>2, <2>5
    <3>2. start[q[k0]] < start[q[k]] /\ start[o] \in Int /\ o = q[k0]
      BY <1>2, <1>3, <1>5, <2>2, <2>5, <3>1 DEF SavedFieldsOf
    <3> QED
      BY <2>2, <2>3, <3>2
  <2> QED
    BY <2>4, <2>5
<1>13. SavedFieldsOf(q)'
  <2>1. grey' = {q[k] : k \in (Restored' + 1)..Len(saved')}
    <3>1. grey = {q[k] : k \in (Restored + 1)..Len(saved)}
      BY <1>2 DEF SavedFieldsOf
    <3>2. CASE o \notin grey
      BY <1>1, <1>4, <1>8, <3>1, <3>2
    <3>3. CASE o \in grey
      <4>1. \A k \in (Restored + 1)..Len(saved) : k = k0 \/ k \in (Restored' + 1)..Len(saved)
        BY <1>4, <1>8, <3>3
      <4>2. \A x \in grey' : \E k \in (Restored' + 1)..Len(saved) : x = q[k]
        BY <1>1, <1>5, <3>1, <3>3, <4>1
      <4>3. \A k \in (Restored' + 1)..Len(saved) : q[k] \in grey'
        BY <1>1, <1>12
      <4> QED
        BY <1>1, <4>2, <4>3
    <3> QED
      BY <3>2, <3>3
  <2>2. \A i, j \in (Restored' + 1)..Len(saved') : i < j => start'[q[i]] < start'[q[j]]
    <3> SUFFICES ASSUME NEW i \in (Restored' + 1)..Len(saved), NEW j \in (Restored' + 1)..Len(saved),
                        i < j
                 PROVE  start'[q[i]] < start'[q[j]]
      BY <1>1
    <3>1. start[q[i]] < start[q[j]]
      BY <1>2, <1>12 DEF SavedFieldsOf
    <3> QED
      BY <3>1, <1>7, <1>12
  <2>3. \A x \in grey' : words'[x][1] \in Int
    BY <1>1, <1>2, <1>3, <1>9 DEF SavedFieldsOf
  <2> QED
    BY <1>1, <1>2, <2>1, <2>2, <2>3 DEF SavedFieldsOf
<1>14. PlanInv'
  <2>1. \A x \in todo \ {o} : start'[x] = start[x] /\ Goal'[x] = Goal[x]
    BY <1>3, <1>7, <1>11
  <2>2. Planned(todo \ {o}, Goal[o] + TotalSize(o), start', Goal')
    BY <1>10, <2>1, PlannedAgrees
  <2> QED
    BY <1>1, <1>10, <2>2 DEF PlanInv
<1>15. WordsStandFor(c, h, q)'
  <2>1. \A x : Seen(x)' = Goal /\ Seen(x) = Goal
    BY <1>1, <1>11 DEF Seen
  <2>2. o \in grey => saved[k0] = WordFor(c[o][1], Goal)
    <3>1. o \in grey => k0 \in (Restored + 1)..Len(saved)
      BY <1>4, <1>5
    <3> QED
      BY <3>1, <2>1, <1>2, <1>5 DEF WordsStandFor
  <2>3. ASSUME NEW x \in marked, NEW i \in 1..WordCount(x), ~(i = 1 /\ x \in grey')
        PROVE  words'[x][i] = WordFor(c[x][i], Goal)
    <3>1. ~(i = 1 /\ x \in grey) => words[x][i] = WordFor(c[x][i], Goal)
      BY <1>2, <2>1 DEF WordsStandFor
    <3>2. CASE x = o
      <4>1. CASE i = 1 /\ o \in grey
        BY <3>2, <4>1, <2>2, <1>9
      <4>2. CASE ~(i = 1 /\ o \in grey)
        BY <3>1, <3>2, <4>2, <1>9
      <4> QED
        BY <4>1, <4>2
    <3>3. CASE x # o
      BY <3>1, <3>3, <2>3, <1>1, <1>9
    <3> QED
      BY <3>2, <3>3
  <2>4. ASSUME NEW k \in (Restored' + 1)..Len(saved) PROVE saved[k] = WordFor(c[q[k]][1], Goal)
    BY <1>2, <1>12, <2>1 DEF WordsStandFor
  <2>5. \A x \in marked' : \A i \in 1..WordCount(x) :
           ~(i = 1 /\ x \in grey') => words'[x][i] = WordFor(c[x][i], Seen(x)')
    BY <1>1, <2>1, <2>3
  <2>6. \A k \in (Restored' + 1)..Len(saved') : saved'[k] = WordFor(c[q[k]][1], Seen(q[k])')
    BY <1>1, <2>1, <2>4
  <2>7. \A r \in Root : roots'[r] = WordFor(h[r], IF phase' = "copy" THEN Goal' ELSE start')
    BY <1>1, <1>2, <1>11 DEF WordsStandFor
  <2> QED
    BY <2>5, <2>6, <2>7 DEF WordsStandFor
<1> QED
  BY <1>1, <1>13, <1>14, <1>15 DEF Collecting

\* At the end every word is what it should be where the objects are now.
LEMMA EndCollectionShows ==
    ASSUME SoundImage, ShapeInv, SlideInv, NEW c, NEW h, NEW q, Collecting(c, h, q),
           EndCollection
    PROVE  /\ Shows(live', start', words', roots', c, h)
           /\ \A r \in Root : roots[r] \in Int
<1>1. /\ phase = "copy" /\ todo = {} /\ live' = marked
      /\ start' = [o \in marked |-> start[o]] /\ words' = [o \in marked |-> words[o]]
      /\ roots' = roots
  BY DEF EndCollection
<1>2. WordsStandFor(c, h, q) /\ WellFormed(marked, c, h)
  BY DEF Collecting
<1>3. grey = {} /\ marked \subseteq live /\ marked \subseteq Object /\ There = marked
  BY <1>1 DEF ShapeInv, There
<1>4. Goal = start' /\ \A o : Seen(o) = Goal
  BY <1>1, <1>3 DEF Goal, Seen
<1>5. \A o \in marked : /\ DOMAIN words'[o] = 1..WordCount(o)
                        /\ \A i \in 1..WordCount(o) : words'[o][i] = WordFor(c[o][i], start')
  BY <1>1, <1>2, <1>3, <1>4 DEF WordsStandFor, ShapeInv
<1>6. \A r \in Root : roots[r] = WordFor(h[r], start')
  BY <1>1, <1>2, <1>4 DEF WordsStandFor
<1>7. HeadersApart(marked, start')
  <2>1. \A o \in marked : start'[o] \in Nat /\ start'[o] >= 1
    BY <1>1, <1>3, Places DEF OldSpaceStart
  <2>2. \A x, y \in marked : x # y =>
           start'[x] + TotalSize(x) <= start'[y] \/ start'[y] + TotalSize(y) <= start'[x]
    BY <1>1, <1>3 DEF SlideInv, Apart, Ends
  <2> QED
    BY <1>3, <2>1, <2>2, HeadersAreApart
<1>8. ASSUME NEW r \in Root PROVE roots[r] \in Int
  <2>1. Refers(marked, h[r])
    BY <1>2 DEF WellFormed
  <2> QED
    BY <1>3, <1>6, <1>7, <2>1, Decoding
<1> QED
  BY <1>1, <1>2, <1>5, <1>6, <1>8 DEF Shows

-----------------------------------------------------------------------------
(* Together *)

LEMMA CollectionStep ==
    ASSUME SoundImage, ShapeInv, SlideInv, SavedInv, phase # "run", Compact,
           NEW c, NEW h, NEW q, Collecting(c, h, q)
    PROVE  IF phase' = "run"
           THEN EndCollection /\ Shows(live', start', words', roots', c, h)
           ELSE ~EndCollection /\ \E q2 : Collecting(c, h, q2)'
<1>1. CASE EndCollection
  BY <1>1, EndCollectionShows DEF EndCollection
<1>2. ASSUME NEW o \in marked, PlanStay(o) PROVE phase' # "run" /\ \E q2 : Collecting(c, h, q2)'
  BY <1>2, PlanStayCollects DEF PlanStay
<1>3. ASSUME NEW o \in marked, PlanMove(o) PROVE phase' # "run" /\ \E q2 : Collecting(c, h, q2)'
  BY <1>3, PlanMoveCollects DEF PlanMove
<1>4. ASSUME NEW o \in marked, UpdateStaying(o)
      PROVE  phase' # "run" /\ \E q2 : Collecting(c, h, q2)'
  BY <1>4, UpdateStayingCollects DEF UpdateStaying
<1>5. ASSUME NEW o \in marked, UpdateMoving(o)
      PROVE  phase' # "run" /\ \E q2 : Collecting(c, h, q2)'
  BY <1>5, UpdateMovingCollects DEF UpdateMoving
<1>6. ASSUME NEW o \in marked, CopyPinned(o)
      PROVE  phase' # "run" /\ \E q2 : Collecting(c, h, q2)'
  BY <1>6, CopyPinnedCollects DEF CopyPinned
<1>7. ASSUME NEW o \in marked, CopyMobile(o)
      PROVE  phase' # "run" /\ \E q2 : Collecting(c, h, q2)'
  BY <1>7, CopyMobileCollects DEF CopyMobile
<1>8. CASE EndPlan
  <2>1. phase' # "run" /\ Collecting(c, h, q)'
    BY <1>8, EndPlanCollects DEF EndPlan
  <2> QED
    BY <2>1, <1>8 DEF EndPlan, EndCollection
<1>9. CASE UpdateRoots
  <2>1. phase' # "run" /\ Collecting(c, h, q)'
    BY <1>9, UpdateRootsCollects DEF UpdateRoots
  <2> QED
    BY <2>1, <1>9 DEF UpdateRoots, EndCollection
<1>10. EndCollection => phase' = "run"
  BY DEF EndCollection
<1> QED
  BY <1>1, <1>2, <1>3, <1>4, <1>5, <1>6, <1>7, <1>8, <1>9, <1>10 DEF Compact

\* A step of the image, or one that begins a collection.
LEMMA RunSteps ==
    ASSUME [Next]_vars
    PROVE  \/ UNCHANGED vars \/ Compact \/ StartCollection
           \/ \E o \in Object, r \in Root : Allocate(o, r)
           \/ \E o \in live, r \in Root : \E i \in 1..SlotCount[o] : Store(o, i, r)
           \/ \E r \in Root : Drop(r)
BY DEF Next

LEMMA CompactCollects == Compact => phase # "run"
BY DEF Compact, PlanStay, PlanMove, UpdateStaying, UpdateMoving, CopyPinned, CopyMobile,
       EndPlan, UpdateRoots, EndCollection

LEMMA GraphPreserved ==
    ASSUME SoundImage, ShapeInv, SlideInv, SavedInv, GraphInv, DOMAIN roots = Root,
           [Next]_vars
    PROVE  GraphInv'
<1>1. CASE UNCHANGED vars
  <2>1. UNCHANGED <<live, start, words, roots, phase, before, marked, grey, todo, toFinger,
                    saved, savedPtr>>
    BY <1>1 DEF vars, heapVars, scanVars
  <2>2. ASSUME NEW c, NEW h, NEW q, Collecting(c, h, q) PROVE Collecting(c, h, q)'
    <3>1. Goal' = Goal /\ Restored' = Restored /\ \A x : Seen(x)' = Seen(x)
      BY <2>1 DEF Goal, Restored, Seen
    <3>2. SavedFieldsOf(q)' /\ PlanInv' /\ WordsStandFor(c, h, q)'
      BY <2>1, <2>2, <3>1 DEF Collecting, SavedFieldsOf, PlanInv, WordsStandFor
    <3> QED
      BY <2>1, <2>2, <3>2 DEF Collecting
  <2> QED
    BY <2>1, <2>2 DEF GraphInv
<1>2. CASE Compact
  <2>1. phase # "run"
    BY <1>2, CompactCollects
  <2>2. PICK c, h, q : Collecting(c, h, q)
    BY <2>1 DEF GraphInv
  <2>3. IF phase' = "run" THEN Shows(live', start', words', roots', c, h)
                          ELSE \E q2 : Collecting(c, h, q2)'
    BY <1>2, <2>1, <2>2, CollectionStep
  <2> QED
    BY <2>3 DEF GraphInv
<1> SUFFICES ASSUME ~Compact, ~UNCHANGED vars PROVE GraphInv'
  BY <1>1, <1>2
<1>3. phase = "run"
  BY RunSteps DEF StartCollection, Allocate, Store, Drop, Mutate
<1>4. PICK c, h : Shows(live, start, words, roots, c, h)
  BY <1>3 DEF GraphInv
<1>5. CASE StartCollection
  <2>1. Collecting(c, h, <<>>)' /\ phase' # "run"
    BY <1>4, <1>5, StartCollects DEF StartCollection
  <2> QED
    BY <2>1 DEF GraphInv
<1>6. ASSUME NEW o \in Object, NEW r \in Root, Allocate(o, r) PROVE GraphInv'
  <2>1. Shows(live', start', words', roots', WithNew(c, o), Holding(h, r, o))
    BY <1>4, <1>6, AllocateShows
  <2>2. phase' = "run"
    BY <1>6 DEF Allocate, Mutate, scanVars
  <2>3. \E c2, h2 : Shows(live', start', words', roots', c2, h2)
    BY <2>1
  <2> QED
    BY <2>2, <2>3 DEF GraphInv
<1>7. ASSUME NEW o \in live, NEW r \in Root, NEW i \in 1..SlotCount[o], Store(o, i, r)
      PROVE  GraphInv'
  <2>1. Shows(live', start', words', roots', WithStored(c, o, i, h[r]), h)
    BY <1>4, <1>7, StoreShows
  <2>2. phase' = "run"
    BY <1>7 DEF Store, Mutate, scanVars
  <2> QED
    BY <2>1, <2>2 DEF GraphInv
<1>8. ASSUME NEW r \in Root, Drop(r) PROVE GraphInv'
  <2>1. Shows(live', start', words', roots', c, Holding(h, r, 0))
    BY <1>4, <1>8, DropShows
  <2>2. phase' = "run"
    BY <1>8 DEF Drop, Mutate, scanVars
  <2> QED
    BY <2>1, <2>2 DEF GraphInv
<1> QED
  BY <1>5, <1>6, <1>7, <1>8, RunSteps

LEMMA RootsAreInt ==
    ASSUME SoundImage, ShapeInv, SlideInv, GraphInv, phase = "run", NEW r \in Root
    PROVE  roots[r] \in Int
<1>1. PICK c, h : Shows(live, start, words, roots, c, h)
  BY DEF GraphInv
<1>2. HeadersApart(live, start) /\ live \subseteq Object
  BY SlidePlaces DEF ShapeInv
<1> QED
  BY <1>1, <1>2, ShownGraph

LEMMA FramePreserved ==
    ASSUME SoundImage, ShapeInv, SlideInv, SavedInv, GraphInv, FrameInv, [Next]_vars
    PROVE  FrameInv'
<1> USE DEF heapVars, scanVars
<1>a. ASSUME UNCHANGED <<roots, ip>>, phase' = "run" <=> phase = "run" PROVE FrameInv'
  BY <1>a DEF FrameInv
<1>b. Frame \subseteq Root /\ IPOffset \in Nat
  BY HeapAssumption
<1>1. CASE UNCHANGED vars
  BY <1>1, <1>a DEF vars
<1>2. ASSUME NEW o \in Object, NEW r \in Root, Allocate(o, r) PROVE FrameInv'
  BY <1>2, <1>b DEF Allocate, Mutate, FrameInv
<1>3. ASSUME NEW o \in live, NEW r \in Root, NEW i \in 1..SlotCount[o], Store(o, i, r)
      PROVE  FrameInv'
  BY <1>3, <1>a DEF Store, Mutate
<1>4. ASSUME NEW r \in Root, Drop(r) PROVE FrameInv'
  BY <1>4, <1>b DEF Drop, Mutate, FrameInv
<1>5. CASE StartCollection
  <2>1. /\ phase = "run" /\ phase' = "plan" /\ roots' = roots
        /\ ip' = [f \in Frame |-> ip[f] - (roots[f] + 1)]
    BY <1>5 DEF StartCollection, PrepareForGC
  <2>2. \A f \in Frame : roots[f] \in Int /\ ip[f] = roots[f] + 1 + IPOffset
    BY <2>1, <1>b, RootsAreInt DEF FrameInv
  <2>3. \A f \in Frame : ip'[f] = IPOffset
    BY <2>1, <2>2, <1>b
  <2>4. ip' \in [Frame -> Int]
    BY <2>1, <2>3, <1>b
  <2> QED
    BY <2>1, <2>3, <2>4 DEF FrameInv
<1>6. ASSUME NEW o \in marked, PlanStay(o) PROVE FrameInv'
  BY <1>6, <1>a DEF PlanStay
<1>7. ASSUME NEW o \in marked, PlanMove(o) PROVE FrameInv'
  BY <1>7, <1>a DEF PlanMove
<1>8. ASSUME NEW o \in marked, UpdateStaying(o) PROVE FrameInv'
  BY <1>8, <1>a DEF UpdateStaying
<1>9. ASSUME NEW o \in marked, UpdateMoving(o) PROVE FrameInv'
  BY <1>9, <1>a DEF UpdateMoving
<1>10. ASSUME NEW o \in marked, CopyPinned(o) PROVE FrameInv'
  BY <1>10, <1>a DEF CopyPinned
<1>11. ASSUME NEW o \in marked, CopyMobile(o) PROVE FrameInv'
  BY <1>11, <1>a DEF CopyMobile
<1>12. CASE EndPlan
  BY <1>12, <1>a DEF EndPlan
<1>13. CASE UpdateRoots
  BY <1>13 DEF UpdateRoots, FrameInv
<1>14. CASE EndCollection
  <2>1. /\ phase = "copy" /\ phase' = "run" /\ roots' = roots
        /\ ip' = [f \in Frame |-> roots[f] + 1 + ip[f]]
    BY <1>14 DEF EndCollection, AfterGC
  <2>2. PICK c, h, q : Collecting(c, h, q)
    BY <2>1 DEF GraphInv
  <2>3. \A f \in Frame : roots[f] \in Int /\ ip[f] = IPOffset
    BY <2>1, <2>2, <1>14, <1>b, EndCollectionShows DEF FrameInv
  <2>4. \A f \in Frame : ip'[f] = roots[f] + 1 + IPOffset
    BY <2>1, <2>3
  <2>5. ip' \in [Frame -> Int]
    BY <2>1, <2>3, <1>b
  <2> QED
    BY <2>1, <2>4, <2>5 DEF FrameInv
<1> QED
  BY <1>1, <1>2, <1>3, <1>4, <1>5, <1>6, <1>7, <1>8, <1>9, <1>10, <1>11, <1>12,
     <1>13, <1>14 DEF Next, Compact

LEMMA FramesInitially == SoundImage /\ Init => FrameInv
<1> SUFFICES ASSUME SoundImage, Init PROVE FrameInv
  OBVIOUS
<1>1. IInv /\ GraphInv /\ phase = "run"
  BY IInvInitially, ShownInitially DEF GraphInv
<1>2. DOMAIN roots = Root /\ ip = [f \in Frame |-> roots[f] + 1 + IPOffset]
  BY DEF Init
<1>3. \A f \in Frame : roots[f] \in Int
  BY <1>1, HeapAssumption, RootsAreInt DEF IInv
<1> QED
  BY <1>1, <1>2, <1>3, HeapAssumption DEF FrameInv

LEMMA GraphInvHolds == ASSUME SoundImage PROVE Spec => [](IInv /\ GraphInv /\ FrameInv)
<1>1. Init => IInv /\ GraphInv /\ FrameInv
  BY IInvInitially, ShownInitially, FramesInitially DEF GraphInv
<1>2. IInv /\ GraphInv /\ FrameInv /\ [Next]_vars => (IInv /\ GraphInv /\ FrameInv)'
  BY ShapePreserved, SlidePreserved, SavedPreserved, GraphPreserved, FramePreserved
     DEF IInv, FrameInv
<1> QED
  BY <1>1, <1>2, PTL DEF Spec

\* After a collection no root and no field holds an old address, whatever was
\* marked, pinned or moved, when eden has room for the first fields.
THEOREM NoPointerIsStale == ASSUME SoundImage PROVE Spec => []NoStalePointer
<1>1. IInv /\ GraphInv => NoStalePointer
  <2> SUFFICES ASSUME IInv, GraphInv, phase = "run" PROVE NoStalePointer
    BY DEF NoStalePointer
  <2>1. PICK c, h : Shows(live, start, words, roots, c, h)
    BY DEF GraphInv
  <2>2. HeadersApart(live, start) /\ live \subseteq Object
    BY SlidePlaces DEF IInv, ShapeInv
  <2> QED
    BY <2>1, <2>2, ShownGraph DEF NoStalePointer
<1> QED
  BY <1>1, GraphInvHolds, PTL

\* A suspended frame continues at the same bytecode of its method, wherever
\* the collections have moved that.
THEOREM FramesContinue == ASSUME SoundImage PROVE Spec => []FramesGoOn
<1>1. FrameInv => FramesGoOn
  BY DEF FrameInv, FramesGoOn
<1> QED
  BY <1>1, GraphInvHolds, PTL

-----------------------------------------------------------------------------
(* Compaction implements the object graph. *)

\* The graph between collections, whatever the heap is shown to stand for.
Reading ==
    phase = "run" => \A c, h : Shows(live, start, words, roots, c, h) => Graph = Canon(live, c, h)

LEMMA ReadingHolds == SoundImage /\ IInv => Reading
<1> SUFFICES ASSUME SoundImage, IInv, phase = "run", NEW c, NEW h,
                    Shows(live, start, words, roots, c, h)
             PROVE  Graph = Canon(live, c, h)
  BY DEF Reading
<1>1. HeadersApart(live, start) /\ live \subseteq Object
  BY SlidePlaces DEF IInv, ShapeInv
<1> QED
  BY <1>1, ShownGraph

\* Outside marked objects and their references nothing is kept: that is a
\* collection of the graph.
LEMMA CollectsGraph ==
    ASSUME SoundImage, marked \subseteq live, NEW c, NEW h, WellFormed(marked, c, h),
           Image = Canon(live, c, h), Image' = Canon(marked, c, h)
    PROVE  G!Collect(marked)
<1>1. /\ Image.objects = live
      /\ Image.contents = [o \in live |-> [i \in 1..WordCount(o) |-> c[o][i]]]
      /\ Image.held = [r \in Root |-> h[r]]
  BY DEF Canon
<1>2. /\ Image'.objects = marked
      /\ Image'.contents = [o \in marked |-> [i \in 1..WordCount(o) |-> c[o][i]]]
      /\ Image'.held = [r \in Root |-> h[r]]
  BY DEF Canon
<1>3. /\ \A o \in marked : \A i \in 1..WordCount(o) : c[o][i] \in Object => c[o][i] \in marked
      /\ \A r \in Root : h[r] \in Object => h[r] \in marked
  BY NoneOutside
<1>4. {Image.held[r] : r \in Root} \intersect Object \subseteq marked
  BY <1>1, <1>3
<1>5. \A o \in marked : G!RefersTo(o) \subseteq marked
  BY <1>1, <1>3 DEF G!RefersTo
<1>6. Image'.contents = [o \in marked |-> Image.contents[o]]
  BY <1>1, <1>2
<1> QED
  BY <1>1, <1>2, <1>4, <1>5, <1>6 DEF G!Collect

LEMMA GraphStep ==
    ASSUME SoundImage, IInv, GraphInv, FrameInv, Reading, Reading', [Next]_vars
    PROVE  [G!Next]_(G!vars)
<1> USE DEF IInv
<1>s. Image' = Image => UNCHANGED G!vars
  BY DEF G!vars
<1>1. CASE UNCHANGED vars
  <2>1. Graph' = Graph
    BY <1>1 DEF vars, heapVars, Graph, DecodedWords, Decode, ObjectsAt, Header
  <2>2. Image' = Image
    BY <1>1, <2>1 DEF vars, scanVars, Image
  <2> QED
    BY <2>2, <1>s
<1>2. CASE Compact
  <2>1. phase # "run"
    BY <1>2, CompactCollects
  <2>2. PICK c, h, q : Collecting(c, h, q)
    BY <2>1 DEF GraphInv
  <2>3. IF phase' = "run" THEN EndCollection /\ Shows(live', start', words', roots', c, h)
                          ELSE ~EndCollection
    BY <1>2, <2>1, <2>2, CollectionStep
  <2>4. CASE phase' = "run"
    <3>1. live' = marked /\ marked \subseteq live
      BY <2>3, <2>4 DEF EndCollection, ShapeInv
    <3>2. Image = Canon(live, c, h)
      BY <2>1, <2>2 DEF Image, Collecting
    <3>3. Image' = Canon(marked, c, h)
      BY <2>3, <2>4, <3>1 DEF Image, Reading
    <3>4. G!Collect(marked)
      BY <2>2, <3>1, <3>2, <3>3, CollectsGraph DEF Collecting
    <3> QED
      BY <3>1, <3>2, <3>4 DEF G!Next, Canon
  <2>5. CASE phase' # "run"
    <3>1. before' = before
      BY <1>2, <2>3, <2>5 DEF Compact, PlanStay, PlanMove, UpdateStaying, UpdateMoving,
         CopyPinned, CopyMobile, EndPlan, UpdateRoots
    <3> QED
      BY <2>1, <2>5, <3>1, <1>s DEF Image
  <2> QED
    BY <2>4, <2>5
<1> SUFFICES ASSUME ~Compact, ~UNCHANGED vars PROVE [G!Next]_(G!vars)
  BY <1>1, <1>2
<1>3. phase = "run"
  BY RunSteps DEF StartCollection, Allocate, Store, Drop, Mutate
<1>4. PICK c, h : Shows(live, start, words, roots, c, h)
  BY <1>3 DEF GraphInv
<1>5. Image = Canon(live, c, h)
  BY <1>3, <1>4 DEF Image, Reading
<1>6. /\ Image.objects = live
      /\ Image.contents = [o \in live |-> [i \in 1..WordCount(o) |-> c[o][i]]]
      /\ Image.held = [r \in Root |-> h[r]]
  BY <1>5 DEF Canon
<1>7. CASE StartCollection
  <2>1. Image' = Image
    BY <1>3, <1>7 DEF StartCollection, Image
  <2> QED
    BY <2>1, <1>s
<1>8. ASSUME NEW o \in Object, NEW r \in Root, Allocate(o, r) PROVE G!Next
  <2> DEFINE c2 == WithNew(c, o)
             h2 == Holding(h, r, o)
             Row(x) == [i \in 1..WordCount(x) |-> c2[x][i]]
  <2>1. /\ o \notin live /\ live' = live \union {o} /\ phase' = "run"
    BY <1>8 DEF Allocate, Mutate, scanVars
  <2>2. Shows(live', start', words', roots', c2, h2)
    BY <1>4, <1>8, AllocateShows DEF FrameInv
  <2>3. Image' = Canon(live', c2, h2)
    BY <2>1, <2>2 DEF Image, Reading
  <2>4. /\ Image'.objects = live \union {o}
        /\ Image'.contents = [x \in live \union {o} |-> Row(x)]
        /\ Image'.held = [x \in Root |-> h2[x]]
    BY <2>1, <2>3 DEF Canon
  <2>5. Image'.contents = [x \in Image'.objects |-> IF x = o THEN Blank(o) ELSE Image.contents[x]]
    <3>1. Row(o) = Blank(o)
      BY DEF WithNew, Blank
    <3>2. \A x \in live : x # o /\ Row(x) = Image.contents[x]
      <4>1. \A x \in live : x # o /\ c2[x] = c[x]
        BY <2>1 DEF WithNew
      <4>2. \A x \in live : Image.contents[x] = [i \in 1..WordCount(x) |-> c[x][i]]
        BY <1>6
      <4> HIDE DEF c2
      <4> QED
        BY <4>1, <4>2
    <3> HIDE DEF Row
    <3> QED
      BY <2>1, <2>4, <3>1, <3>2
  <2>6. Image'.held = [Image.held EXCEPT ![r] = o]
    BY <1>6, <2>4 DEF Holding
  <2>7. G!Allocate(o, r)
    BY <1>6, <2>1, <2>4, <2>5, <2>6 DEF G!Allocate
  <2> QED
    BY <2>7 DEF G!Next
<1>9. ASSUME NEW o \in live, NEW r \in Root, NEW i \in 1..SlotCount[o], Store(o, i, r)
      PROVE  G!Next
  <2> DEFINE c2 == WithStored(c, o, i, h[r])
             Row(x) == [j \in 1..WordCount(x) |-> c2[x][j]]
  <2>1. live' = live /\ phase' = "run"
    BY <1>9 DEF Store, Mutate, scanVars
  <2>2. Shows(live', start', words', roots', c2, h) /\ i \in 1..WordCount(o)
    BY <1>4, <1>9, StoreShows
  <2>3. Image' = Canon(live, c2, h)
    BY <2>1, <2>2 DEF Image, Reading
  <2>4. /\ Image'.objects = live
        /\ Image'.contents = [x \in live |-> Row(x)]
        /\ Image'.held = [x \in Root |-> h[x]]
    BY <2>3 DEF Canon
  <2>5. Image'.contents = [Image.contents EXCEPT ![o][i] = h[r]]
    <3>1. /\ DOMAIN Image.contents = live
          /\ \A x \in live : Image.contents[x] = [j \in 1..WordCount(x) |-> c[x][j]]
      BY <1>6
    <3>2. ASSUME NEW x \in live, x # o PROVE Row(x) = Image.contents[x]
      <4>1. \A j \in 1..WordCount(x) : c2[x][j] = c[x][j]
        BY <3>2 DEF WithStored
      <4> HIDE DEF c2
      <4> QED
        BY <3>1, <4>1
    <3>3. Row(o) = [Image.contents[o] EXCEPT ![i] = h[r]]
      <4>1. \A j \in 1..WordCount(o) : c2[o][j] = IF j = i THEN h[r] ELSE c[o][j]
        BY DEF WithStored
      <4> HIDE DEF c2
      <4>2. Image.contents[o] = [j \in 1..WordCount(o) |-> c[o][j]]
        BY <3>1
      <4>3. [Image.contents[o] EXCEPT ![i] = h[r]] =
               [j \in 1..WordCount(o) |-> IF j = i THEN h[r] ELSE c[o][j]]
        BY <4>2, <2>2
      <4> QED
        BY <4>1, <4>3
    <3> HIDE DEF Row
    <3>4. [Image.contents EXCEPT ![o][i] = h[r]] =
             [x \in live |-> IF x = o THEN [Image.contents[o] EXCEPT ![i] = h[r]]
                                     ELSE Image.contents[x]]
      BY <3>1
    <3> QED
      BY <2>4, <3>2, <3>3, <3>4
  <2>6. o \in Image.objects /\ i \in DOMAIN Image.contents[o] /\ Image.held[r] = h[r]
    BY <1>6, <2>2
  <2>7. G!Store(o, i, r)
    BY <1>6, <2>4, <2>5, <2>6 DEF G!Store
  <2> QED
    BY <2>6, <2>7 DEF G!Next
<1>10. ASSUME NEW r \in Root, Drop(r) PROVE G!Next
  <2>1. live' = live /\ phase' = "run"
    BY <1>10 DEF Drop, Mutate, scanVars
  <2>2. Shows(live', start', words', roots', c, Holding(h, r, 0))
    BY <1>4, <1>10, DropShows DEF FrameInv
  <2>3. Image' = Canon(live, c, Holding(h, r, 0))
    BY <2>1, <2>2 DEF Image, Reading
  <2>4. /\ Image'.objects = Image.objects /\ Image'.contents = Image.contents
        /\ Image'.held = [Image.held EXCEPT ![r] = 0]
    BY <1>6, <2>3 DEF Canon, Holding
  <2>5. G!Drop(r)
    BY <2>4 DEF G!Drop
  <2> QED
    BY <2>5 DEF G!Next
<1> QED
  BY <1>7, <1>8, <1>9, <1>10, RunSteps

\* Any number of collections, with any objects pinned, dead or moved, removes
\* from the object graph only what nothing kept refers to, and changes nothing
\* else: the abstract specification of the collector.
THEOREM CompactionKeepsGraph == ASSUME SoundImage PROVE Spec => CollectionKeepsGraph
<1>1. IInv => Reading
  BY ReadingHolds
<1>2. IInv /\ GraphInv /\ FrameInv /\ Reading /\ Reading' /\ [Next]_vars => [G!Next]_(G!vars)
  BY GraphStep
<1> QED
  BY <1>1, <1>2, GraphInvHolds, PTL DEF Spec, CollectionKeepsGraph, G!Spec

=============================================================================
