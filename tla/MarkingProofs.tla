--------------------------- MODULE MarkingProofs ---------------------------
(***************************************************************************)
(* What a collection marks, and what survives it, for every heap, every set*)
(* of roots and any number of collections.  The argument is tri-colour:    *)
(* until a phase has visited all of its list, whatever a marked object     *)
(* must keep is marked or among the references still to be marked.         *)
(***************************************************************************)
EXTENDS Marking, TLAPS

Seen == marked \union reached

\* Bounds and emptiness that the types rest on: each collection raises at
\* most one finalization signal, and the lists hold what they are named for.
BookInv ==
    /\ Held \subseteq roots
    /\ signals <= gcs
    /\ pending = TRUE \/ phase # "run" => signals < gcs
    /\ phase = "run" => marked = {}
    /\ phase \in {"run", "sweep"} => reached = {}
    /\ phase # "run" => /\ \A o \in ephemeronList : format[o] = "ephemeron"
                        /\ \A o \in weakList : format[o] = "weak"

TypeInv == MarkingTypeOK /\ BookInv

\* Nothing is marked that a closed set could do without.
SoundInv ==
    phase = "mark" => \A S \in SUBSET Object : Closed(S) => Seen \subseteq S

\* What an ephemeron with the mark bit may still have to wait for.
EphemeronCovered(o) ==
    \/ ScanPointerFields(o) \subseteq Seen
    \/ phase \in {"mark", "fire"} /\ o \in ephemeronList
    \/ phase \in {"keepEphemerons", "keepWeaks", "sweep"} /\ Contents(o) \subseteq Seen
    \/ phase # "mark" /\ late # {}

WeakCovered(o) ==
    /\ o \in weakList
    /\ FixedFields(o) \subseteq Seen
    /\ phase \in {"keepWeaks", "sweep"} => Contents(o) \subseteq Seen \/ late # {}

\* The roots are seen, and what marked objects keep.
CoverInv ==
    phase # "run" =>
        /\ roots \union mourners \subseteq Seen
        /\ \A o \in marked :
              /\ format[o] = "plain" => ScanPointerFields(o) \subseteq Seen
              /\ format[o] = "ephemeron" => EphemeronCovered(o)
              /\ format[o] = "weak" => WeakCovered(o)

\* No reference out of the live objects, unless one was put on a list late.
LiveInv ==
    /\ classTable \subseteq live
    /\ late = {} => /\ roots \union mourners \union Seen \subseteq live
                    /\ \A o \in live : Contents(o) \subseteq live

ClassInv ==
    /\ \A o \in Object : format[o] \in {"plain", FormatOf[o]}
    /\ \A o \in live : ClassOf[o] \in classTable

-----------------------------------------------------------------------------
(* Types *)

LEMMA TypesInitially == Init => TypeInv
<1> SUFFICES ASSUME Init PROVE TypeInv
  OBVIOUS
<1>1. classTable \subseteq Object
  BY ObjectAssumption DEF Init
<1>2. roots \subseteq Object /\ Held \subseteq roots
  BY ObjectAssumption DEF Init
<1>3. slots \in [Object -> [Slot -> Object \union {Nil}]]
  BY ObjectAssumption DEF Init
<1>4. signals \in 0..MaxGCs /\ gcs \in 0..MaxGCs
  BY ObjectAssumption DEF Init
<1>5. MarkingTypeOK
  <2>1. weakList \union ephemeronList \subseteq Object /\ phase = "run"
    BY DEF Init
  <2> QED
    BY <1>1, <1>2, <1>3, <1>4, <2>1, ObjectAssumption DEF Init, MarkingTypeOK
<1>6. BookInv
  BY <1>2 DEF Init, BookInv
<1> QED
  BY <1>5, <1>6 DEF TypeInv

LEMMA ContentsAreObjects ==
    ASSUME MarkingTypeOK, NEW o \in Object
    PROVE  Contents(o) \subseteq Object /\ FixedFields(o) \subseteq Contents(o)
BY ObjectAssumption DEF MarkingTypeOK, Contents, FixedFields

LEMMA ScanIsObjects ==
    ASSUME MarkingTypeOK, NEW o \in Object
    PROVE  ScanPointerFields(o) \subseteq Object /\ Contents(o) \subseteq ScanPointerFields(o)
BY ContentsAreObjects, ObjectAssumption DEF ScanPointerFields, MarkingTypeOK

LEMMA TypesPreserved ==
    ASSUME TypeInv, [Next]_vars
    PROVE  TypeInv'
<1> USE DEF heapVars, lists, finalizationVars, TypeInv, MarkingTypeOK, BookInv
<1>1. CASE StartMarking
  BY <1>1, ObjectAssumption DEF StartMarking
<1>2. ASSUME NEW o \in Object, MarkAlreadyMarked(o) PROVE TypeInv'
  BY <1>2, ObjectAssumption DEF MarkAlreadyMarked
<1>3. ASSUME NEW o \in Object, MarkStrong(o) PROVE TypeInv'
  BY <1>3, ObjectAssumption, ScanIsObjects DEF MarkStrong
<1>4. ASSUME NEW o \in Object, MarkWeak(o) PROVE TypeInv'
  BY <1>4, ObjectAssumption, ContentsAreObjects DEF MarkWeak
<1>5. ASSUME NEW o \in Object, MarkActiveEphemeron(o) PROVE TypeInv'
  BY <1>5, ObjectAssumption DEF MarkActiveEphemeron
<1>6. ASSUME NEW o \in Object, MarkInactiveEphemeron(o) PROVE TypeInv'
  BY <1>6, ObjectAssumption, ScanIsObjects DEF MarkInactiveEphemeron
<1>7. ASSUME NEW o \in Object, FireEphemeron(o) PROVE TypeInv'
  BY <1>7, ObjectAssumption, ScanIsObjects DEF FireEphemeron
<1>8. CASE BeginFiring
  BY <1>8, ObjectAssumption DEF BeginFiring
<1>9. CASE ProcessWeaklings
  BY <1>9, ObjectAssumption DEF ProcessWeaklings, NilDead
<1>10. CASE KeepEphemerons
  BY <1>10, ObjectAssumption, ContentsAreObjects DEF KeepEphemerons
<1>11. CASE KeepWeaks
  BY <1>11, ObjectAssumption, ContentsAreObjects DEF KeepWeaks
<1>12. CASE EndKeeping
  BY <1>12, ObjectAssumption DEF EndKeeping
<1>13. CASE Sweep
  BY <1>13, ObjectAssumption DEF Sweep
<1>14. ASSUME NEW o \in Object, Drop(o) PROVE TypeInv'
  BY <1>14, ObjectAssumption DEF Drop
<1>15. CASE SignalFinalizationIfNeeded
  <2>1. pending = TRUE
    BY <1>15, Zenon DEF SignalFinalizationIfNeeded, MarkingTypeOK
  <2>2. signals < gcs
    BY <2>1 DEF BookInv
  <2>3. BookInv'
    BY <1>15, <2>2 DEF SignalFinalizationIfNeeded
  <2>4. signals' \in 0..MaxGCs
    BY <1>15, <2>2, ObjectAssumption DEF SignalFinalizationIfNeeded
  <2>5. MarkingTypeOK'
    BY <1>15, <2>4 DEF SignalFinalizationIfNeeded
  <2> QED
    BY <2>3, <2>5
<1>16. CASE PrimitiveFetchNextMourner
  BY <1>16, ObjectAssumption DEF PrimitiveFetchNextMourner
<1>17. CASE UNCHANGED vars
  BY <1>17, ObjectAssumption DEF vars
<1>18. QED
  BY <1>1, <1>2, <1>3, <1>4, <1>5, <1>6, <1>7, <1>8, <1>9, <1>10, <1>11, <1>12,
     <1>13, <1>14, <1>15, <1>16, <1>17
     DEF Next, Collect, MarkAndTrace

-----------------------------------------------------------------------------
(* What is marked *)

LEMMA SoundPreserved ==
    ASSUME TypeInv, SoundInv, [Next]_vars
    PROVE  SoundInv'
<1> USE DEF heapVars, lists, finalizationVars, TypeInv, MarkingTypeOK,
            BookInv, SoundInv, Closed, Seen, ScanPointerFields, Contents,
            FixedFields
<1>1. CASE StartMarking
  BY <1>1 DEF StartMarking
<1>2. ASSUME NEW o \in Object, MarkAlreadyMarked(o) PROVE SoundInv'
  BY <1>2 DEF MarkAlreadyMarked
<1>3. ASSUME NEW o \in Object, MarkStrong(o) PROVE SoundInv'
  BY <1>3, ScanIsObjects DEF MarkStrong, KeyAlive
<1>4. ASSUME NEW o \in Object, MarkWeak(o) PROVE SoundInv'
  BY <1>4, ContentsAreObjects DEF MarkWeak
<1>5. ASSUME NEW o \in Object, MarkActiveEphemeron(o) PROVE SoundInv'
  BY <1>5 DEF MarkActiveEphemeron
<1>6. ASSUME NEW o \in Object, MarkInactiveEphemeron(o) PROVE SoundInv'
  BY <1>6, ScanIsObjects DEF MarkInactiveEphemeron, KeyAlive
<1>7. ASSUME NEW o \in Object, FireEphemeron(o) PROVE SoundInv'
  BY <1>7 DEF FireEphemeron
<1>8. CASE BeginFiring
  BY <1>8 DEF BeginFiring
<1>9. CASE ProcessWeaklings
  BY <1>9 DEF ProcessWeaklings
<1>10. CASE KeepEphemerons
  BY <1>10 DEF KeepEphemerons
<1>11. CASE KeepWeaks
  BY <1>11 DEF KeepWeaks
<1>12. CASE EndKeeping
  BY <1>12 DEF EndKeeping
<1>13. CASE Sweep
  BY <1>13 DEF Sweep
<1>14. ASSUME NEW o \in Object, Drop(o) PROVE SoundInv'
  BY <1>14 DEF Drop
<1>15. CASE SignalFinalizationIfNeeded
  BY <1>15 DEF SignalFinalizationIfNeeded
<1>16. CASE PrimitiveFetchNextMourner
  BY <1>16 DEF PrimitiveFetchNextMourner
<1>17. CASE UNCHANGED vars
  BY <1>17 DEF vars
<1>18. QED
  BY <1>1, <1>2, <1>3, <1>4, <1>5, <1>6, <1>7, <1>8, <1>9, <1>10, <1>11, <1>12,
     <1>13, <1>14, <1>15, <1>16, <1>17
     DEF Next, Collect, MarkAndTrace

LEMMA CoverPreserved ==
    ASSUME TypeInv, TypeInv', CoverInv, [Next]_vars
    PROVE  CoverInv'
<1> USE DEF heapVars, lists, finalizationVars, TypeInv, MarkingTypeOK,
            BookInv, CoverInv, EphemeronCovered, WeakCovered, Seen,
            ScanPointerFields, Contents, FixedFields
<1>1. CASE StartMarking
  BY <1>1 DEF StartMarking
<1>2. ASSUME NEW o \in Object, MarkAlreadyMarked(o) PROVE CoverInv'
  BY <1>2 DEF MarkAlreadyMarked
<1>3. ASSUME NEW o \in Object, MarkStrong(o) PROVE CoverInv'
  BY <1>3 DEF MarkStrong
<1>4. ASSUME NEW o \in Object, MarkWeak(o) PROVE CoverInv'
  <2>1. Seen \subseteq Seen' /\ marked' = marked \union {o} /\ reached \subseteq marked' \union reached'
    BY <1>4 DEF MarkWeak
  <2>2. format[o] = "weak" /\ WeakCovered(o)'
    <3>1. o \in reached /\ phase' = phase /\ phase # "sweep"
      BY <1>4 DEF MarkWeak
    <3>2. phase = "keepWeaks" => o \in late'
      BY <1>4 DEF MarkWeak
    <3>3. o \in weakList' /\ FixedFields(o)' \subseteq Seen'
      BY <1>4 DEF MarkWeak
    <3>4. format[o] = "weak"
      BY <1>4 DEF MarkWeak
    <3> QED
      BY <3>1, <3>2, <3>3, <3>4
  <2>3. ASSUME NEW x \in marked
        PROVE  /\ format[x] = "plain" => ScanPointerFields(x)' \subseteq Seen'
               /\ format[x] = "ephemeron" => EphemeronCovered(x)'
               /\ format[x] = "weak" => WeakCovered(x)'
    BY <1>4, <2>1 DEF MarkWeak
  <2> QED
    BY <1>4, <2>1, <2>2, <2>3 DEF MarkWeak
<1>5. ASSUME NEW o \in Object, MarkActiveEphemeron(o) PROVE CoverInv'
  <2>1. Seen' = Seen /\ marked' = marked \union {o}
    BY <1>5 DEF MarkActiveEphemeron
  <2>2. format[o] = "ephemeron" /\ EphemeronCovered(o)'
    <3>1. format[o] = "ephemeron" /\ phase' = phase
      BY <1>5 DEF MarkActiveEphemeron
    <3>2. IF phase = "mark" THEN o \in ephemeronList' ELSE o \in late'
      BY <1>5 DEF MarkActiveEphemeron
    <3> QED
      BY <3>1, <3>2
  <2>3. ASSUME NEW x \in marked
        PROVE  /\ format[x] = "plain" => ScanPointerFields(x)' \subseteq Seen'
               /\ format[x] = "ephemeron" => EphemeronCovered(x)'
               /\ format[x] = "weak" => WeakCovered(x)'
    BY <1>5, <2>1 DEF MarkActiveEphemeron
  <2> QED
    BY <1>5, <2>1, <2>2, <2>3 DEF MarkActiveEphemeron
<1>6. ASSUME NEW o \in Object, MarkInactiveEphemeron(o) PROVE CoverInv'
  BY <1>6 DEF MarkInactiveEphemeron
<1>7. ASSUME NEW o \in Object, FireEphemeron(o) PROVE CoverInv'
  BY <1>7 DEF FireEphemeron
<1>8. CASE BeginFiring
  BY <1>8 DEF BeginFiring
<1>9. CASE ProcessWeaklings
  <2>1. Seen' = Seen /\ marked' = marked /\ format' = format /\ weakList' = weakList
    BY <1>9 DEF ProcessWeaklings
  <2>2. \A x \in Object : \A s \in Slot :
           /\ slots'[x][s] \in {slots[x][s], Nil}
           /\ s \in FixedSlots => slots'[x][s] = slots[x][s]
           /\ x \in weakList => slots'[x][s] \in marked \union {Nil} \/ s \in FixedSlots
    BY <1>9, ObjectAssumption DEF ProcessWeaklings, NilDead
  <2>3. (roots \union mourners)' \subseteq Seen'
    BY <1>9 DEF ProcessWeaklings
  <2>4. ASSUME NEW x \in marked
        PROVE  /\ format[x] = "plain" => ScanPointerFields(x)' \subseteq Seen'
               /\ format[x] = "ephemeron" => EphemeronCovered(x)'
               /\ format[x] = "weak" => WeakCovered(x)'
    <3>1. phase = "fire" /\ phase' = "sweep" /\ ephemeronList = {} /\ late' = late
          /\ classTable' = classTable
      BY <1>9 DEF ProcessWeaklings
    <3>2. /\ Contents(x)' \subseteq Contents(x)
          /\ FixedFields(x)' = FixedFields(x)
          /\ x \in weakList => Contents(x)' \subseteq marked \union FixedFields(x)
      BY <2>2, ObjectAssumption
    <3>3. ScanPointerFields(x)' \subseteq ScanPointerFields(x)
      BY <3>1, <3>2 DEF ScanPointerFields
    <3>4. format[x] = "weak" => WeakCovered(x)'
      BY <2>1, <3>1, <3>2
    <3> QED
      BY <2>1, <3>1, <3>3, <3>4
  <2> QED
    BY <2>1, <2>3, <2>4
<1>10. CASE KeepEphemerons
  BY <1>10 DEF KeepEphemerons
<1>11. CASE KeepWeaks
  BY <1>11 DEF KeepWeaks
<1>12. CASE EndKeeping
  BY <1>12 DEF EndKeeping
<1>13. CASE Sweep
  BY <1>13 DEF Sweep
<1>14. ASSUME NEW o \in Object, Drop(o) PROVE CoverInv'
  BY <1>14 DEF Drop
<1>15. CASE SignalFinalizationIfNeeded
  BY <1>15 DEF SignalFinalizationIfNeeded
<1>16. CASE PrimitiveFetchNextMourner
  BY <1>16 DEF PrimitiveFetchNextMourner
<1>17. CASE UNCHANGED vars
  BY <1>17 DEF vars
<1>18. QED
  BY <1>1, <1>2, <1>3, <1>4, <1>5, <1>6, <1>7, <1>8, <1>9, <1>10, <1>11, <1>12,
     <1>13, <1>14, <1>15, <1>16, <1>17
     DEF Next, Collect, MarkAndTrace

-----------------------------------------------------------------------------
(* What survives *)

LEMMA LivePreserved ==
    ASSUME TypeInv, CoverInv, LiveInv, [Next]_vars
    PROVE  LiveInv'
<1> USE DEF heapVars, lists, finalizationVars, TypeInv, MarkingTypeOK,
            BookInv, LiveInv, CoverInv, EphemeronCovered, WeakCovered, Seen,
            ScanPointerFields, Contents, FixedFields
<1>1. CASE StartMarking
  BY <1>1 DEF StartMarking
<1>2. ASSUME NEW o \in Object, MarkAlreadyMarked(o) PROVE LiveInv'
  BY <1>2 DEF MarkAlreadyMarked
<1>3. ASSUME NEW o \in Object, MarkStrong(o) PROVE LiveInv'
  BY <1>3 DEF MarkStrong
<1>4. ASSUME NEW o \in Object, MarkWeak(o) PROVE LiveInv'
  <2>1. late' = {} => late = {}
    BY <1>4 DEF MarkWeak
  <2>2. late = {} => o \in live /\ FixedFields(o) \subseteq live
    BY <1>4, ContentsAreObjects DEF MarkWeak
  <2>3. Seen' = Seen \union FixedFields(o)
    BY <1>4 DEF MarkWeak
  <2>4. UNCHANGED <<live, slots, roots, classTable, mourners>>
    BY <1>4 DEF MarkWeak
  <2>5. late' = {} => Seen' \subseteq live
    BY <2>1, <2>2, <2>3 DEF LiveInv
  <2>6. late' = {} => (roots \union mourners)' \subseteq live
    BY <2>1, <2>4 DEF LiveInv
  <2>7. late' = {} => \A x \in live : Contents(x)' \subseteq live
    BY <2>1, <2>4 DEF LiveInv
  <2> QED
    BY <2>4, <2>5, <2>6, <2>7
<1>5. ASSUME NEW o \in Object, MarkActiveEphemeron(o) PROVE LiveInv'
  BY <1>5 DEF MarkActiveEphemeron
<1>6. ASSUME NEW o \in Object, MarkInactiveEphemeron(o) PROVE LiveInv'
  BY <1>6 DEF MarkInactiveEphemeron
<1>7. ASSUME NEW o \in Object, FireEphemeron(o) PROVE LiveInv'
  BY <1>7 DEF FireEphemeron
<1>8. CASE BeginFiring
  BY <1>8 DEF BeginFiring
<1>9. CASE ProcessWeaklings
  BY <1>9 DEF ProcessWeaklings, NilDead
<1>10. CASE KeepEphemerons
  BY <1>10 DEF KeepEphemerons
<1>11. CASE KeepWeaks
  BY <1>11 DEF KeepWeaks
<1>12. CASE EndKeeping
  BY <1>12 DEF EndKeeping
<1>13. CASE Sweep
  BY <1>13 DEF Sweep
<1>14. ASSUME NEW o \in Object, Drop(o) PROVE LiveInv'
  BY <1>14 DEF Drop
<1>15. CASE SignalFinalizationIfNeeded
  BY <1>15 DEF SignalFinalizationIfNeeded
<1>16. CASE PrimitiveFetchNextMourner
  BY <1>16 DEF PrimitiveFetchNextMourner
<1>17. CASE UNCHANGED vars
  BY <1>17 DEF vars
<1>18. QED
  BY <1>1, <1>2, <1>3, <1>4, <1>5, <1>6, <1>7, <1>8, <1>9, <1>10, <1>11, <1>12,
     <1>13, <1>14, <1>15, <1>16, <1>17
     DEF Next, Collect, MarkAndTrace

LEMMA ClassPreserved ==
    ASSUME TypeInv, ClassesHeld, CoverInv, ClassInv, [Next]_vars
    PROVE  ClassInv'
<1> USE DEF heapVars, lists, finalizationVars, TypeInv, MarkingTypeOK,
            BookInv, ClassInv, CoverInv, ClassesHeld, Seen, ScanPointerFields
<1>1. CASE StartMarking
  BY <1>1 DEF StartMarking
<1>2. ASSUME NEW o \in Object, MarkAlreadyMarked(o) PROVE ClassInv'
  BY <1>2 DEF MarkAlreadyMarked
<1>3. ASSUME NEW o \in Object, MarkStrong(o) PROVE ClassInv'
  BY <1>3 DEF MarkStrong
<1>4. ASSUME NEW o \in Object, MarkWeak(o) PROVE ClassInv'
  BY <1>4 DEF MarkWeak
<1>5. ASSUME NEW o \in Object, MarkActiveEphemeron(o) PROVE ClassInv'
  BY <1>5 DEF MarkActiveEphemeron
<1>6. ASSUME NEW o \in Object, MarkInactiveEphemeron(o) PROVE ClassInv'
  BY <1>6 DEF MarkInactiveEphemeron
<1>7. ASSUME NEW o \in Object, FireEphemeron(o) PROVE ClassInv'
  BY <1>7 DEF FireEphemeron
<1>8. CASE BeginFiring
  BY <1>8 DEF BeginFiring
<1>9. CASE ProcessWeaklings
  BY <1>9 DEF ProcessWeaklings
<1>10. CASE KeepEphemerons
  BY <1>10 DEF KeepEphemerons
<1>11. CASE KeepWeaks
  BY <1>11 DEF KeepWeaks
<1>12. CASE EndKeeping
  BY <1>12 DEF EndKeeping
<1>13. CASE Sweep
  BY <1>13 DEF Sweep
<1>14. ASSUME NEW o \in Object, Drop(o) PROVE ClassInv'
  BY <1>14 DEF Drop
<1>15. CASE SignalFinalizationIfNeeded
  BY <1>15 DEF SignalFinalizationIfNeeded
<1>16. CASE PrimitiveFetchNextMourner
  BY <1>16 DEF PrimitiveFetchNextMourner
<1>17. CASE UNCHANGED vars
  BY <1>17 DEF vars
<1>18. QED
  BY <1>1, <1>2, <1>3, <1>4, <1>5, <1>6, <1>7, <1>8, <1>9, <1>10, <1>11, <1>12,
     <1>13, <1>14, <1>15, <1>16, <1>17
     DEF Next, Collect, MarkAndTrace

-----------------------------------------------------------------------------
(* Theorems *)

\* The collector's sets hold objects, the lists of weak objects and ephemerons
\* only marked ones, and no collection raises more than one signal.
THEOREM MarkingTypeCorrect == Spec => []MarkingTypeOK
<1>1. Init => TypeInv
  BY TypesInitially
<1>2. TypeInv /\ [Next]_vars => TypeInv'
  BY TypesPreserved
<1>3. TypeInv => MarkingTypeOK
  BY DEF TypeInv
<1> QED
  BY <1>1, <1>2, <1>3, PTL DEF Spec

LEMMA AlwaysTypeInv == Spec => []TypeInv
<1>1. Init => TypeInv
  BY TypesInitially
<1>2. TypeInv /\ [Next]_vars => TypeInv'
  BY TypesPreserved
<1> QED
  BY <1>1, <1>2, PTL DEF Spec

LEMMA AlwaysCovered == Spec => []CoverInv
<1>1. Init => CoverInv
  BY DEF Init, CoverInv
<1>2. TypeInv /\ TypeInv' /\ CoverInv /\ [Next]_vars => CoverInv'
  BY CoverPreserved
<1> QED
  BY <1>1, <1>2, AlwaysTypeInv, PTL DEF Spec

\* When the references are exhausted and no listed ephemeron's key is marked,
\* the marked set is itself closed, so it is the least closed set.
LEMMA ExhaustedIsExact ==
    ASSUME TypeInv, SoundInv, CoverInv
    PROVE  MarksExactlyReachable
<1> SUFFICES ASSUME phase = "mark", reached = {}, \A o \in ephemeronList : ~KeyAlive(o)
             PROVE  marked = Reachable
  BY DEF MarksExactlyReachable
<1>1. Seen = marked /\ marked \subseteq Object
  BY DEF Seen, TypeInv, MarkingTypeOK
<1>2. Closed(marked)
  BY <1>1 DEF Closed, CoverInv, EphemeronCovered, WeakCovered, KeyAlive
<1>3. marked \subseteq Reachable
  BY <1>1 DEF SoundInv, Reachable
<1>4. Reachable \subseteq marked
  BY <1>1, <1>2 DEF Reachable
<1> QED
  BY <1>3, <1>4

\* markPhase marks exactly what is reachable before it fires ephemerons, in
\* every heap and whatever the order of its mark stack.
THEOREM MarkingIsExact == Spec => []MarksExactlyReachable
<1>1. Init => SoundInv
  BY DEF Init, SoundInv
<1>2. TypeInv /\ SoundInv /\ [Next]_vars => SoundInv'
  BY SoundPreserved
<1>3. TypeInv /\ SoundInv /\ CoverInv => MarksExactlyReachable
  BY ExhaustedIsExact
<1> QED
  BY <1>1, <1>2, <1>3, AlwaysTypeInv, AlwaysCovered, PTL DEF Spec

\* As long as no weak object or ephemeron was put on a list late, what a
\* survivor refers to survives: the late lists are the only way to lose it.
THEOREM SurvivorsKeepTheirSlots == Spec => [](late = {} => NoDanglingSlot)
<1>1. Init => LiveInv
  <2> SUFFICES ASSUME Init PROVE LiveInv
    OBVIOUS
  <2>1. live = Object /\ classTable \subseteq Object /\ roots \subseteq Object
    BY ObjectAssumption DEF Init
  <2>2. mourners = {} /\ Seen = {}
    BY DEF Init, Seen
  <2>3. \A o \in live : Contents(o) \subseteq live
    BY <2>1, ObjectAssumption DEF Init, Contents
  <2> QED
    BY <2>1, <2>2, <2>3 DEF LiveInv
<1>2. TypeInv /\ CoverInv /\ LiveInv /\ [Next]_vars => LiveInv'
  BY LivePreserved
<1>3. LiveInv => (late = {} => NoDanglingSlot)
  BY DEF LiveInv, NoDanglingSlot
<1> QED
  BY <1>1, <1>2, <1>3, AlwaysTypeInv, AlwaysCovered, PTL DEF Spec

LEMMA AlwaysClassTableLive == Spec => [](classTable \subseteq live)
<1>1. Init => classTable \subseteq live
  BY ObjectAssumption DEF Init
<1>2. classTable \subseteq live /\ [Next]_vars => (classTable \subseteq live)'
  BY DEF Next, Collect, MarkAndTrace, vars, heapVars, StartMarking, MarkAlreadyMarked,
     MarkStrong, MarkWeak, MarkActiveEphemeron, MarkInactiveEphemeron, FireEphemeron,
     BeginFiring, ProcessWeaklings, KeepEphemerons, KeepWeaks, EndKeeping, Sweep, Drop,
     SignalFinalizationIfNeeded, PrimitiveFetchNextMourner
<1> QED
  BY <1>1, <1>2, PTL DEF Spec

\* If the image itself holds on to the classes of weak objects and ephemerons,
\* the class of every survivor survives and keeps its entry, late lists or not.
THEOREM ClassesOfSurvivorsStay == ASSUME ClassesHeld PROVE Spec => []ClassesStay
<1>1. Init => ClassInv
  BY ObjectAssumption DEF Init, ClassInv
<1>2. TypeInv /\ CoverInv /\ ClassInv /\ [Next]_vars => ClassInv'
  BY ClassPreserved, ClassesHeld
<1>3. ClassInv /\ classTable \subseteq live => ClassesStay
  BY DEF ClassInv, ClassesStay
<1> QED
  BY <1>1, <1>2, <1>3, AlwaysTypeInv, AlwaysCovered, AlwaysClassTableLive, PTL DEF Spec

=============================================================================
