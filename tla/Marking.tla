------------------------------ MODULE Marking ------------------------------
(***************************************************************************)
(* The mark phase of ObjectMemory::fullGC, with weak objects, ephemerons   *)
(* and a class table that holds classes weakly, and the way what has died  *)
(* reaches the image's finalization process.  fullGC is called with        *)
(* skipEphemerons when it is the allocator that asks for it.  Compaction   *)
(* is here only the disappearance of what is not marked.                   *)
(***************************************************************************)
EXTENDS Naturals

CONSTANTS
    Object, Nil,   \* heap objects; Nil also stands for immediate values
    Slot,          \* slots of an object; classes are objects too
    KeySlot,       \* the slot that holds an ephemeron's key
    FixedSlots,    \* the slots of a weak object that are strong
    ClassOf,       \* the class of an object, by the index in its header
    FormatOf,      \* "plain", "weak" or "ephemeron" when created
    Graphs,        \* the contents the heap may start with
    Held,          \* objects the image keeps referenced for ever
    MaxGCs         \* bound on collections

ASSUME ObjectAssumption ==
    /\ Nil \notin Object
    /\ KeySlot \in Slot /\ FixedSlots \subseteq Slot
    /\ ClassOf \in [Object -> Object]
    /\ FormatOf \in [Object -> {"plain", "weak", "ephemeron"}]
    /\ Graphs \subseteq [Object -> [Slot -> Object \union {Nil}]]
    /\ Held \subseteq Object
    /\ MaxGCs \in Nat

VARIABLES
    live,          \* the objects in old space
    slots, format, \* their contents
    roots,         \* special objects and the roots of the interpreter
    classTable,    \* the classes with an entry in classTable_
    phase, skip,   \* where fullGC is; its parameter skipEphemerons
    marked,        \* the objects with the mark bit
    reached,       \* references still to be handed to markAndTrace
    weakList, ephemeronList,
    late,          \* history: objects put on a list nobody reads any more
    mourners,      \* mournQueue_
    pending,       \* pendingFinalizationSignals_ # 0
    signals,       \* image: excess signals of TheFinalizationSemaphore
    finalizer,     \* image: the finalization process "waits" or is "awake"
    gcs            \* how many collections have begun

heapVars == <<live, slots, format, roots, classTable>>
lists == <<weakList, ephemeronList, late>>
finalizationVars == <<mourners, pending, signals, finalizer>>
vars == <<heapVars, phase, skip, marked, reached, lists, finalizationVars, gcs>>

Init ==
    /\ live = Object
    /\ slots \in Graphs
    /\ format = FormatOf
    /\ classTable = {ClassOf[o] : o \in Object}
    /\ \E S \in SUBSET (Object \ classTable) : roots = Held \union S
    /\ phase = "run" /\ skip = FALSE
    /\ marked = {} /\ reached = {}
    /\ weakList = {} /\ ephemeronList = {} /\ late = {}
    /\ mourners = {} /\ pending = FALSE /\ signals = 0 /\ finalizer = "waits"
    /\ gcs = 0

-----------------------------------------------------------------------------
(* Marking: the order of the mark stack is left open. *)

Contents(o) == {slots[o][s] : s \in Slot} \ {Nil}

FaultyScanIgnoresClass(o) == Contents(o)

\* scanPointerFields: all the slots, and the class by way of the class table
ScanPointerFields(o) == Contents(o) \union ({ClassOf[o]} \intersect classTable)

FixedFields(o) == {slots[o][s] : s \in FixedSlots} \ {Nil}

KeyAlive(o) == slots[o][KeySlot] \in marked \union {Nil}

FaultyStartKeepsWeakList ==
    /\ phase = "run" /\ gcs < MaxGCs
    /\ gcs' = gcs + 1
    /\ skip' \in BOOLEAN
    /\ phase' = "mark"
    /\ marked' = {} /\ ephemeronList' = {}
    /\ reached' = roots \union mourners
    /\ UNCHANGED <<heapVars, weakList, late, finalizationVars>>

\* markPhase, called with cleared marks and lists
StartMarking ==
    /\ phase = "run" /\ gcs < MaxGCs
    /\ gcs' = gcs + 1
    /\ skip' \in BOOLEAN
    /\ phase' = "mark"
    /\ marked' = {} /\ weakList' = {} /\ ephemeronList' = {}
    /\ reached' = roots \union mourners
    /\ UNCHANGED <<heapVars, late, finalizationVars>>

MarkAlreadyMarked(o) ==
    /\ o \in reached \intersect marked
    /\ reached' = reached \ {o}
    /\ UNCHANGED <<heapVars, phase, skip, marked, lists, finalizationVars, gcs>>

MarkStrong(o) ==
    /\ o \in reached \ marked
    /\ \/ format[o] = "plain"
       \/ format[o] = "ephemeron" /\ KeyAlive(o)
    /\ marked' = marked \union {o}
    /\ reached' = (reached \ {o}) \union ScanPointerFields(o)
    /\ UNCHANGED <<heapVars, phase, skip, lists, finalizationVars, gcs>>

\* An object put on a list while or after markPhase walks through that list
\* is not seen any more.
MarkWeak(o) ==
    /\ o \in reached \ marked
    /\ format[o] = "weak"
    /\ marked' = marked \union {o}
    /\ reached' = (reached \ {o}) \union FixedFields(o)
    /\ weakList' = weakList \union {o}
    /\ late' = IF phase = "keepWeaks" THEN late \union {o} ELSE late
    /\ UNCHANGED <<heapVars, phase, skip, ephemeronList, finalizationVars, gcs>>

MarkActiveEphemeron(o) ==
    /\ o \in reached \ marked
    /\ format[o] = "ephemeron" /\ ~KeyAlive(o)
    /\ marked' = marked \union {o}
    /\ reached' = reached \ {o}
    /\ IF phase = "mark"
       THEN ephemeronList' = ephemeronList \union {o} /\ UNCHANGED late
       ELSE late' = late \union {o} /\ UNCHANGED ephemeronList
    /\ UNCHANGED <<heapVars, phase, skip, weakList, finalizationVars, gcs>>

MarkAndTrace(o) ==
    \/ MarkAlreadyMarked(o) \/ MarkStrong(o)
    \/ MarkWeak(o) \/ MarkActiveEphemeron(o)

-----------------------------------------------------------------------------
(* Ephemerons and weak objects *)

FaultyInactiveNotScanned(o) ==
    /\ phase = "mark" /\ ~skip /\ reached = {}
    /\ o \in ephemeronList /\ KeyAlive(o)
    /\ ephemeronList' = ephemeronList \ {o}
    /\ reached' = {}
    /\ UNCHANGED <<heapVars, phase, skip, marked, weakList, late, finalizationVars, gcs>>

\* markInactiveEphemerons, repeated until it finds none
MarkInactiveEphemeron(o) ==
    /\ phase = "mark" /\ ~skip /\ reached = {}
    /\ o \in ephemeronList /\ KeyAlive(o)
    /\ ephemeronList' = ephemeronList \ {o}
    /\ reached' = ScanPointerFields(o)
    /\ UNCHANGED <<heapVars, phase, skip, marked, weakList, late, finalizationVars, gcs>>

BeginFiring ==
    /\ phase = "mark" /\ ~skip /\ reached = {}
    /\ \A o \in ephemeronList : ~KeyAlive(o)
    /\ phase' = "fire"
    /\ UNCHANGED <<heapVars, skip, marked, reached, lists, finalizationVars, gcs>>

FaultyFireUnsignalled(o) ==
    /\ phase = "fire" /\ reached = {}
    /\ o \in ephemeronList
    /\ ephemeronList' = ephemeronList \ {o}
    /\ format' = [format EXCEPT ![o] = "plain"]
    /\ mourners' = mourners \union {o} /\ UNCHANGED pending
    /\ reached' = ScanPointerFields(o)
    /\ UNCHANGED <<live, slots, roots, classTable, phase, skip, marked, weakList, late,
                   signals, finalizer, gcs>>

\* fireAllEphemerons: fired, it is an ordinary object.
FireEphemeron(o) ==
    /\ phase = "fire" /\ reached = {}
    /\ o \in ephemeronList
    /\ ephemeronList' = ephemeronList \ {o}
    /\ format' = [format EXCEPT ![o] = "plain"]
    /\ mourners' = mourners \union {o} /\ pending' = TRUE
    /\ reached' = ScanPointerFields(o)
    /\ UNCHANGED <<live, slots, roots, classTable, phase, skip, marked, weakList, late,
                   signals, finalizer, gcs>>

NilDead(o) ==
    [s \in Slot |-> IF s \in FixedSlots \/ slots[o][s] \in marked THEN slots[o][s] ELSE Nil]

ProcessWeaklings ==
    LET nilled == {o \in weakList : NilDead(o) # slots[o]}
    IN  /\ phase = "fire" /\ reached = {} /\ ephemeronList = {}
        /\ slots' = [o \in Object |-> IF o \in weakList THEN NilDead(o) ELSE slots[o]]
        /\ mourners' = mourners \union nilled
        /\ pending' = (pending \/ nilled # {})
        /\ phase' = "sweep"
        /\ UNCHANGED <<live, format, roots, classTable, skip, marked, reached, lists,
                       signals, finalizer, gcs>>

\* With skipEphemerons nothing fires and nothing is nilled: what the listed
\* objects refer to is marked, but not their classes.
KeepEphemerons ==
    /\ phase = "mark" /\ skip /\ reached = {}
    /\ phase' = "keepEphemerons"
    /\ reached' = UNION {Contents(o) : o \in ephemeronList}
    /\ UNCHANGED <<heapVars, skip, marked, lists, finalizationVars, gcs>>

FaultyKeepNoWeaks ==
    /\ phase = "keepEphemerons" /\ reached = {}
    /\ phase' = "keepWeaks"
    /\ UNCHANGED <<heapVars, skip, marked, reached, lists, finalizationVars, gcs>>

KeepWeaks ==
    /\ phase = "keepEphemerons" /\ reached = {}
    /\ phase' = "keepWeaks"
    /\ reached' = UNION {Contents(o) : o \in weakList}
    /\ UNCHANGED <<heapVars, skip, marked, lists, finalizationVars, gcs>>

EndKeeping ==
    /\ phase = "keepWeaks" /\ reached = {}
    /\ phase' = "sweep"
    /\ UNCHANGED <<heapVars, skip, marked, reached, lists, finalizationVars, gcs>>

\* sweepClassTable, and compaction
Sweep ==
    /\ phase = "sweep"
    /\ classTable' = classTable \intersect marked
    /\ live' = live \intersect marked
    /\ marked' = {}
    /\ phase' = "run"
    /\ UNCHANGED <<slots, format, roots, skip, reached, lists, finalizationVars, gcs>>

Collect ==
    \/ StartMarking
    \/ \E o \in Object : MarkAndTrace(o) \/ MarkInactiveEphemeron(o) \/ FireEphemeron(o)
    \/ BeginFiring \/ ProcessWeaklings
    \/ KeepEphemerons \/ KeepWeaks \/ EndKeeping
    \/ Sweep

-----------------------------------------------------------------------------
(* The image, between collections *)

Drop(o) ==
    /\ phase = "run"
    /\ o \in roots \ Held
    /\ roots' = roots \ {o}
    /\ UNCHANGED <<live, slots, format, classTable, phase, skip, marked, reached, lists,
                   finalizationVars, gcs>>

SignalFinalizationIfNeeded ==
    /\ phase = "run" /\ pending
    /\ pending' = FALSE
    /\ IF finalizer = "waits" THEN finalizer' = "awake" /\ UNCHANGED signals
       ELSE signals' = signals + 1 /\ UNCHANGED finalizer
    /\ UNCHANGED <<heapVars, phase, skip, marked, reached, lists, mourners, gcs>>

\* The finalization process takes mourners until there are none, then waits.
PrimitiveFetchNextMourner ==
    /\ phase = "run" /\ finalizer = "awake"
    /\ \/ \E o \in mourners : /\ mourners' = mourners \ {o}
                              /\ roots' = roots \union {o}
                              /\ UNCHANGED <<signals, finalizer>>
       \/ /\ mourners = {}
          /\ IF signals > 0 THEN signals' = signals - 1 /\ UNCHANGED finalizer
             ELSE finalizer' = "waits" /\ UNCHANGED signals
          /\ UNCHANGED <<mourners, roots>>
    /\ UNCHANGED <<live, slots, format, classTable, phase, skip, marked, reached, lists,
                   pending, gcs>>

Next ==
    \/ Collect
    \/ \E o \in Object : Drop(o)
    \/ SignalFinalizationIfNeeded
    \/ PrimitiveFetchNextMourner

Spec == Init /\ [][Next]_vars

\* A collection runs to its end; the interpreter looks for pending signals
\* between bytecodes; the finalization process gets the processor.
FairSpec ==
    /\ Spec
    /\ WF_vars(phase # "run" /\ Collect)
    /\ WF_vars(SignalFinalizationIfNeeded)
    /\ WF_vars(PrimitiveFetchNextMourner)

-----------------------------------------------------------------------------
(* Properties *)

\* The collector's sets hold objects, and its phases are those of fullGC.
MarkingTypeOK ==
    /\ live \subseteq Object /\ roots \subseteq Object /\ classTable \subseteq Object
    /\ slots \in [Object -> [Slot -> Object \union {Nil}]]
    /\ format \in [Object -> {"plain", "weak", "ephemeron"}]
    /\ phase \in {"run", "mark", "fire", "keepEphemerons", "keepWeaks", "sweep"}
    /\ skip \in BOOLEAN
    /\ marked \subseteq Object /\ reached \subseteq Object
    /\ weakList \union ephemeronList \subseteq (IF phase = "run" THEN Object ELSE marked)
    /\ late \subseteq Object
    /\ mourners \subseteq Object /\ pending \in BOOLEAN
    /\ signals \in 0..MaxGCs /\ finalizer \in {"waits", "awake"}
    /\ gcs \in 0..MaxGCs

\* A set of objects that contains the roots and what its members keep alive:
\* all slots and the class for an ordinary object, and for an ephemeron whose
\* key is in the set; the fixed slots for a weak object.
Closed(S) ==
    /\ roots \union mourners \subseteq S
    /\ \A o \in S :
          /\ format[o] = "plain" => ScanPointerFields(o) \subseteq S
          /\ format[o] = "ephemeron" /\ slots[o][KeySlot] \in S \union {Nil} =>
                ScanPointerFields(o) \subseteq S
          /\ format[o] = "weak" => FixedFields(o) \subseteq S

Reachable == {o \in Object : \A S \in SUBSET Object : Closed(S) => o \in S}

\* When the ephemerons are about to fire, exactly the reachable objects are
\* marked, whatever the order in which markAndTrace met objects and keys: an
\* ephemeron fires only if its key is garbage, and then it does.
MarksExactlyReachable ==
    phase = "mark" /\ reached = {} /\ (\A o \in ephemeronList : ~KeyAlive(o)) =>
        marked = Reachable

\* What a surviving object, a root or the mourn queue refers to survives too.
\* (Of active ephemerons: "Fields are traced later by markInactiveEphemerons (if
\* key becomes reachable) or fireAllEphemerons (if key remains unreachable).")
NoDanglingSlot ==
    phase = "run" =>
        /\ roots \union mourners \subseteq live
        /\ \A o \in live : Contents(o) \subseteq live

\* The classes of weak objects and ephemerons are not traced from them.
ClassesHeld == \A o \in Object : FormatOf[o] # "plain" => ClassOf[o] \in Held

\* The classes of surviving objects survive and keep their entries: "keep
\* metaclasses (and any class only reachable via classIndex) alive while
\* instances exist".
ClassesStay ==
    phase = "run" => \A o \in live : ClassOf[o] \in classTable \intersect live

\* Whoever is queued for finalization gets to the image: a signal that comes
\* while the finalization process is at work is not lost, nor is one for
\* several collections.
MournersAreServed == \A o \in Object : o \in mourners ~> o \notin mourners

=============================================================================
