# Verification of the iospharo VM

TLA+ models of the virtual machine in `src/src/vm` and `src/src/platform`, a
Pharo Smalltalk VM in C++ for iOS and macOS: what its process scheduler, its
garbage collector, its sockets and its signalling between threads do, what they
promise, TLC runs that check small instances, and TLAPS proofs that hold for
every instance.  Paths below are
relative to `src/src/vm/` unless they start with another directory.

`PROJECT.json` lists components, runs, mutants (for every property checked, a
plausible mistake in the code that the property reveals), the lines that each
definition models, findings, hazards and theorems.

## 1. The system

One *interpreter thread* executes bytecodes of one Smalltalk process at a time.
Processes are green threads: the VM switches between them only at certain
points (a primitive, or a check between bytecodes).  Around it run other system
threads: the heartbeat, the UI thread of the app, the socket threads, the audio
callbacks.  They reach the interpreter through atomics only: a ring of pending
semaphore signals, and flags such as `forceYield_`.

| Component | State | Operations | What is hard | What makes it correct |
|---|---|---|---|---|
| Process scheduler (`Interpreter.cpp` 7763-8756, 1929-2045; process primitives in `Primitives.cpp`) | ready queues, wait lists, active process, suspended contexts, semaphore counts, section owners, aging and grace | signal, wait, suspend, resume, yield, relinquish, enter, test-and-set, exit; preemption check, forced yields; four kinds of termination | every switch is written out by hand at each site; lists are linked through the processes themselves; the active process must be on none | lists are chains; nobody is lost or runs twice; no lost wakeup; mutual exclusion; highest priority runs; no starvation |
| External signals (`Interpreter.cpp` 2345-2389) | a ring of 64 indices, head, tail | `signalExternalSemaphore` (any thread), `processPendingSignals` (interpreter) | lock-free; several callers; the drain works on a snapshot | FIFO, loss only when full, everything arrives |
| Heartbeat (`Interpreter.cpp` 2266-2342) | timers, flags | forces a yield every 2 ms, back-stop input signal | runs concurrently with everything | yields recur |
| Delay timer (`Interpreter.cpp` 2101-2176) | two deadlines, one semaphore | arm (ms, usec), check | signals coalesce; recovery by retry; one slot for two primitives | an armed timer fires once, not early |
| FFI callbacks (`Interpreter.cpp` 2405-2569, `FFI.cpp`) | callback stack, saved registers | enter, nested loop, return, time out | re-enters the interpreter in mid-bytecode; switches processes in between | returns are LIFO; nobody is lost |
| Interpreter, sends, unwinding (`Interpreter.cpp` 3729-7700) | frames, contexts, stack | send, return, non-local return, `cannotReturn:` | frames are turned into heap contexts on every switch | a return goes to the right sender; unwind blocks run once |
| Method cache (`Interpreter.cpp` 5727-5873) | cache lines | look up, fill, flush | stale entries after a method changes | a hit equals a lookup |
| Object memory (`ObjectMemory.cpp`) | old space, class table, mark stack, lists of weak objects and ephemerons, mourner queue, saved first fields, raw instruction pointers of frames | allocate, store, mark, fire, nil, sweep, plan, redirect, slide, signal finalization | order of marking; classes held weakly; a full scratch area; pinned objects; three scans that must agree | what is reachable survives and nothing dangles; the image sees the graph it had; every mourner is served |
| Image loader and writer | segments, tags | load, save | pointers change representation | load after save is the identity |
| Input events (`src/src/platform/EventQueue.cpp`) | bounded queue | push (UI), pop, signal | two consumers; a full queue | no event is lost while there is room, none reordered |
| Sockets (`plugins/SocketPlugin.cpp`) | a structure per socket, active list, deletion queue, session ID | create, connect, listen, accept, send, receive, close, abort, destroy (VM thread); the I/O thread's select loop; shutdown | two threads write the structures without a lock; wakeups are computed from state that changes meanwhile; deferred deletion | no use after free; no shared descriptor; whoever waits is woken |
| App life cycle (`src/src/platform/PlatformBridge.cpp`) | VM thread, global pointers | init, run, stop, destroy | UI thread against VM thread | nothing is used after it is destroyed |
| JIT, rendering, sound, MIDI, proxy | | | | not modelled (reasons in `PROJECT.json`) |

How they interact: primitives and between-bytecode checks call the scheduler's
helpers directly; `processPendingSignals`, the timer and finalization call
`synchronousSignal`; other threads call `signalExternalSemaphore`; a callback
runs a nested `step()` loop; `transferTo` calls into the interpreter to turn
frames into contexts.  `interpret` and the allocation primitives call
`fullGC` between bytecodes, which asks the interpreter for its roots and has it
give up and take back its raw pointers; what a collection has found dead
reaches the image through `synchronousSignal`.  The I/O thread of the sockets
is one of the callers of `signalExternalSemaphore`, by way of the plugin proxy.

## 2. Modules

| Module | Stands for |
|---|---|
| `ProcessLists` | the object slots of lists and processes (`heap`) and the helpers on them: `addLastLinkToList`, `removeFirstLinkOfList`, `removeProcessFromList`, `putToSleep`, `wakeHighestPriority`, `transferTo`, as functions from heaps to heaps; link-by-link invariants |
| `ProcessScheduler` | the actions: one for each primitive and check; properties |
| `ProcessQueues` | what a scheduler promises, with FIFO sequences and no pointers |
| `ProcessSchedulerRefinement` | the refinement mapping from the first to the latter |
| `ProcessListsProofs`, `ProcessSchedulerProofs` | lemmas and theorems |
| `ExternalSignals` | the ring, each access to an atomic a step |
| `SignalQueue` | what the ring promises: a bounded FIFO queue that drops when full |
| `ExternalSignalsProofs` | the ring's theorems, the refinement among them |
| `FFICallbacks` | C code that calls back into the image: EXTENDS `ProcessScheduler`, whose actions run inside the nested loop |
| `FFICallbacksProofs` | the scheduler's helpers with suspended callers beside the lists; lemmas and theorems on callbacks |
| `DelayTimer` | the timer primitives, the interpreter's poll of the timer and its recovery, with the image's delay scheduler as environment |
| `DelayTimerProofs` | arithmetic of a wrapping clock; no delay is stranded, no timer early |
| `Marking` | the mark phase, weak objects, ephemerons, the class table's sweep, mourners and the finalization process |
| `MarkingProofs` | its lemmas and theorems |
| `Compaction` | the compacting phase down to words and addresses: plan, redirect, slide, and the frames' instruction pointers |
| `CompactionProofs` | where compaction puts objects, and that references follow them: lemmas and theorems |
| `ObjectGraph` | what the image may rely on: objects, identity, contents; `Compaction` implements it |
| `Sockets` | the primitives on TCP sockets, the I/O monitor thread in steps between its accesses to shared state, shutdown and relaunch |
| `SocketsProofs` | who owns descriptors and structures: lemmas and theorems |
| `MCProcessScheduler`, `MCExternalSignals`, `MCFFICallbacks`, `MCDelayTimer`, `MCMarking`, `MCCompaction`, `MCSockets` | small instances for TLC |

Definitions named `Faulty...` are the mistakes that `PROJECT.json` lists as
mutants; no specification uses them.

### State and code: the scheduler

`heap.firstLink`, `lastLink`, `nextLink`, `myList` and `active` are object
slots of the same names.  `heap.savedContext` is the set of processes whose
`suspendedContext` slot is not nil; contexts themselves have no other property
here.  A ready queue is named by its priority.  `excessSignals` and `owner` are
slot 2 of a Semaphore and of a CriticalSection.  `inGrace` and `agingProcess`
are the statics of `handleForceYield`.  `entered`, `parked` and `terminations`
are history: they say who is inside a section, who has been taken off the
processor on purpose, and bound the terminations; no action of the code
depends on them except that the image exits only a section it entered.

An action is one call that the interpreter thread completes before the next
bytecode, so it is atomic; what interleaves is the Smalltalk processes, and
every process may call any primitive at any time it is active.  The two clock
tests of `handleForceYield` are nondeterministic (`expired`, `aged`).

`RemoveProcessFromList` finds the predecessor as "the process whose nextLink is
p" where the code walks from `firstLink`; `LinksOK`, proved for every step,
makes them the same.  `removeFirstLinkOfList` on an empty list changes nothing.

### State and code: the ring

`slot`, `head`, `tail` are `pendingSignals_`, `pendingSignalHead_` and
`pendingSignalTail_`; `myHead`, `myIndex` the locals of a caller, `cur` and
`end` those of `processPendingSignals`.  Accesses are sequentially consistent.
While calls do not overlap that is what the code's acquire and release pairs
give on the machines it is built for, where a store shows to all threads at
once: a slot is written before the head that publishes it, and the tail is
stored after the slots have been read.  When calls overlap the real memory order
allows more than the model, which already loses signals then.

Several threads call `signalExternalSemaphore`, and nothing keeps their calls
apart, so the model does not either.  `raced` remembers that a caller has
advanced the head while another held the value of the head it had loaded: from
then on a slot may be overwritten and the head move back.  `NoSilentLoss`,
`RingIsQueue` and `SignalsArrive` say what holds until then, with calls that
overlap and do not race (one finds the ring full, say) included.  An
`ExternalObjectsArray` that is nil is the same as one in which no index is
registered.

### State and code: callbacks

`contexts` is `callbackContextStack_` up to `callbackDepth_`, `callout` the
special object SuspendedProcessInCallout, `pending` is
`pendingCallbackReturn_`.  `loops` is the C stack: one record for each nested
loop of `enterInterpreterFromCallback` that has not returned, with the callback
it was entered for, the calling process and, once it has found one, the answer
it takes (its local `ctx`; the steps it then still runs are the model's steps
between `BeginCooldown` and `ReturnToC`).  The calling process is linked to the
one suspended before it through `nextLink`, as in the code.  `JumpTo` is the
`siglongjmp`: it removes the target's loop and all inside it.

`serving` and `woken` belong to the image's handler processes, which are not in
the repository: a handler waits on the semaphore, reads the next callback, may
call out again, and answers.  Handlers answer in LIFO order.

The code takes three things for granted that nothing enforces, and a callback is
made in `Disorder` when one of them fails: another process calls out than the
handler at work on the innermost callback (`CallsOverlap`), the waiting handler
outranks the caller (`HandlerOutranksCaller`), or the callback stack has no room
(`StackIsFull`).  All of these are behaviours of the module and of the run; the
history variable `disorderly` remembers that one has happened, and the
properties, except the type invariant, hold until then (divergences 5, 7 and 9
below are what comes after).

`SwitchProcess` has the scheduling that can come between: suspend, resume,
yield, preemption and the forced yield of `step()`.

### State and code: the delay timer

`semaphoreSet` is `timerSemaphore_` not being nil, `nextUsec` and `nextMs` the
two deadlines, `wasArmed`, `lastSignal` and `deferred` the fields of similar
names.  The several clocks of the code are one, `now`, in ticks; a tick is what
the comparisons can tell apart, and `now % Wrap` is the millisecond clock.
`Fire` is what both branches of `checkTimerSemaphore` do.  `armedFor` is history:
the time the timer was armed for, 0 once it has fired, so that firing again
without being armed again shows.  The image's delay
scheduler is external: it sleeps on one semaphore that the timer, the recovery
and processes that begin or cancel a delay signal; awake, it looks at the clock,
and in a later step arms the timer for the first delay left, with one primitive
or the other throughout.  It begins no delay of half the range (six days) or
more and arms no time that is a multiple of 2^30 ms (`ClockAssumption`; see the
hazards).

### State and code: marking

`slots` and `format` are an object's pointer slots and its format field (firing
an ephemeron changes it to plain); the class is not a slot but an index into
`classTable`, as in the code.  `marked` is the mark bit, `reached` the
references still to be handed to `markAndTrace`: the mark stack, and the rest
of the slots being scanned.  Its order is left open, so the model covers every
order of roots, slots and stack.  One action is one call of `markAndTrace` on
an object, with the branch by format; `phase` is where `markPhase` is:
"mark" (roots and the fixpoint of `markInactiveEphemerons`), "fire", or, when
the allocator asked for the collection (`skip` is `skipEphemerons`),
"keepEphemerons" and "keepWeaks".  An object put on a list that has been walked
already is in `late`, a history variable; the code's `push_back` to the vector
it iterates over is undefined behaviour, of which the model takes the mildest
outcome, that the loop does not see it.  `Sweep` is `sweepClassTable` and, for
compaction, that what is not marked is gone.

`mourners` is the mourn queue, `pending` its counter as far as anyone tests
it.  The finalization process is the image's: it fetches mourners until there
are none and waits again.  The image loses references (`Drop`) but makes no
new ones: that only starts another heap of `Graphs`.

### State and code: compaction

A word is an integer: 0 stands for nil, a positive one for the address of a
header, and one that is not positive for a SmallInteger; a method's first word
is minus its number of literals.  `start` is where an object's memory begins:
at its overflow word, if it has one, whereas references lead to the header
(`Header`).  `saved` is the scratch area in eden, `savedPtr` the pointer that
each of the later scans advances past it, `todo` the marked objects the scanner
has not come to (`Scans` takes the lowest), `ip` the frames' instruction
pointers, offsets while a collection is under way.  `Layouts` says what old
space may start with: where bump allocation has put each object, and where it
has got to.  `StartCollection` takes any
set of objects for marked that is closed and has the roots in it: which one,
`Marking` says.  Allocation, stores and roots that are dropped are the image
between collections.  The refinement maps addresses back to identities
(`Graph`): while a collection is under way the mapped state is the graph at its
start, so the step that ends it is `ObjectGraph`'s `Collect`.

### State and code: sockets

`fd` to `eofDetected` are the fields of `PrivateSocket`; a structure is a
number that is never given out again, so that a use after `delete` shows
(`deleted`), while descriptors are given out lowest first and do come back.
`handle` is the session ID in the image's handle.  The VM thread's primitives
are actions, except `primitiveSocketDestroy`, which takes the lock half way
(`UnlistDestroyed`).  The I/O thread is cut between the accesses whose order
against the VM thread can matter, and at system calls: `io` says where it is,
`snapshot`, `todo`, `current`, `readfds`, `writefds` and `result` are its locals.
One step may read `fd` once where the code reads it several times (122 to 133;
154 and 156).  That comes to the same: a descriptor that is given up is -1 for
good, which `FD_SET` and `FD_ISSET` ignore on Darwin, it is exchanged only in a
state for which neither branch is taken, and the sets belong to the thread.
Not in the model is a descriptor closed, and given to another socket, between
its load and the `getsockopt` or `recv` it is passed to: what is claimed of use
after release is claimed of structures, not of descriptor numbers.  `select`
is one step that returns what is ready; with nothing ready, or a closed
descriptor in the set, the loop starts over, so the wake pipe makes no
difference but speed.  `link`, `data` and `full` are what the kernel knows of a
descriptor, and `Network` is the peer.  The image calls a primitive in any state
in which the primitive does something, and waits on a semaphore after a
transfer of nothing or while a connection is being made (`waits`, `signalled`).
`DeleteInterpreter`, `StopIoThread` and `Relaunch` are `vm_destroy` and the next
launch; the 200 ms of `socketPluginShutdown` are assumed to be enough for the
thread to stop.

## 3. Runs

| Run | Instance | Shows |
|---|---|---|
| `scheduler` | idle (priority 1), two workers (2), one above (3), one semaphore, one section; fair | ten safety properties of every primitive and check in every order; inversions end, no starvation |
| `scheduler_terminations` | the same, up to two terminations | refinement of `ProcessQueues` while the VM kills processes: lists whole, nobody else lost |
| `signals` | heartbeat and interpreter both signal, ring of 3, five calls, two indices; fair | FIFO, loss only when full, arrival, until two calls race |
| `callbacks` | idle, a caller below, one as high as and one above four handlers; four callbacks, a stack of three | until a callback is made in disorder: returns go back to their own frame and process, callers' chain = C stack, nobody lost, no callback served twice |
| `delays` | eight ticks round a wrap at 8, four target times, both primitives, headless or not; fair | timer armed whenever the scheduler sleeps, fires neither early nor twice for one arming; every delay ends |
| `marking` | two ephemerons, a weak object, a plain one, its class and a metaclass; 64 graphs, two collections of either kind; fair | exactly the reachable are marked; no slot or class dangles; mourners are served |
| `marking_late_ephemerons` | the same, the image holds on to less | finding 1 |
| `compaction` | a method, two pointer objects, a pinned byte object and one with an overflow header, twenty words; two collections, two mutations | no overlap at any moment, no stale pointer, frames go on, refinement of `ObjectGraph` |
| `compaction_scratch` | the same with room for one saved field | finding 2 |
| `sockets` | two structures, two descriptors, four primitive calls, one relaunch; fair | structures not used after they are deleted, descriptors not shared; connections answered, readers woken |
| `sockets_lost_writer` | one socket, seven calls | finding 3 |
| `sockets_no_interpreter` | one socket, three calls, one relaunch | finding 4 |

*Bounds.*  Four processes: two of equal priority exercise round robin and
two-element lists; one above gives preemption, one below aging.  Three
processes can be on one list, so first, middle and last links differ.  More
priorities add no branch of the code: each site compares with the active
priority only, and scans for the highest or lowest.  `MaxExcessSignals` of 1 or
2 is enough to count down past one.  `MaxTerminations` of 2 lets the second
termination meet what the first left.  `MaxCalls` of 5 takes two
callers round a ring of three slots, with both of its places full on the way and
the head where it started; a batch that is being delivered overlaps with all of
it.  Four handlers and four callbacks let callbacks nest three deep over a stack
of three (`MaxCallbackDepth`), return and nest again, and the fourth meet the
full stack with a handler still free to answer it.  The three callers are below,
as high as and above the handlers, so that the woken handler waits, takes turns
or outranks.  The handlers are alike (`HandlerSymmetry`; the properties are
invariants, and nothing names one handler).  `Wrap` of 8 has both halves of the
range and the wrap itself between the targets, one target is exactly one before
it; `MaxSignals` of 2 lets signals coalesce.

The graphs of `marking` let each ephemeron be the other's key or value, hang on
the weak object, or be cyclic by itself; `MaxGCs` of 2 lets a collection meet
what the last one fired, nilled and queued.  In `compaction` the layouts put the
pinned object before, between and behind mobile ones, and a freed object before
a method, so that each object stays, moves or dies in some behaviour;
`ScratchLimit` of 5 is all objects, and `MaxMutations` of 2 allows an object to
be allocated into the space a collection has freed and be stored.  In `sockets`
`MaxCalls` of 4 is connect, transfer, close or destroy and one more socket that
gets the descriptor; `MaxData` of 1 tells an empty buffer from one with data,
`MaxSessions` of 2 is one relaunch.  Two sockets are what one round of the I/O
thread can mix up.

*Environment.*  `ResumeFrom` and `SuspendFrom` say what the image does:
`Process>>resume` is sent to a suspended process (or to the active one, which
the VM must refuse: its context slot is nil), and nobody is suspended off the
wait list of a critical section.  `primitiveResume` itself checks neither; the
hazards list says so.  The idle process runs a relinquish loop: it never waits,
suspends itself, enters a section or is terminated.

In `marking` the image holds the objects of `Held` for ever, among them the
class of every weak object and ephemeron (`ClassesHeld`): such classes are named
in an image.  In `sockets` the network rests while the VM is taken down.

*Deadlock.*  Scheduler and socket runs check it.  The callbacks' run does not:
after a callback made in disorder everyone but the idle process may wait for a C
call that can no longer return, and the idle process calls nothing there.  `CHECK_DEADLOCK FALSE` is
given to the ring's run, in which every call has been made and delivered at the
end, to `delays`, whose clock stops, and to the collector's runs, which end when
`MaxGCs` collections are over.

*Fairness.*  `HandleForceYield(TRUE, FALSE)`, weak: the heartbeat thread sets
`forceYield_` every 2 ms and `interpret` tests it at its periodic check, a grace
period is 100 or 500 ms, so forced yields with grace expired recur whenever some
process runs.  That one of them also finds the running process not yet aged
costs nothing: aging takes 500 ms on one process, and where there is a
process to switch to the yield happens before that.  `step()`, with
its shorter yield, runs only inside callbacks, where nothing is
claimed of liveness.  Nothing is assumed of the processes themselves.  For the ring:
the interpreter polls it between bytecodes (`WF(Drain)`) and no caller stops in
the middle of a function that does not block; no fairness of calls.  The
interpreter as a caller is in one of the two functions at a time.  For the
timer: the interpreter polls it (`CheckTimerSemaphore`, `DeferredSignal`), the
delay scheduler runs when it is signalled, since it has the highest priority of
the image, and time passes; nobody has to begin or cancel a delay.  `Tick` does
not let a delay be overdue by half the range: the poll is every thousand
bytecodes, half the range six days.

For finalization: a collection that has begun ends, the interpreter signals
after it and polls (`signalFinalizationIfNeeded`), and the finalization process
runs, being above the user processes.  For sockets: the I/O thread is scheduled
(`WF(IoMonitorLoop)`) and a process whose semaphore is signalled goes on
(`Wake`); nothing of the network, which need never answer: each property starts
from an answer that is there.

*Properties not obvious from their names.*  `InversionsAreDeliberate`: from a
state in which no ready process outranks the running one, every step leads to
such a state, except those that start or keep grace and a relinquish.
`NoLostProcess`: off every list and not running only by suspension or
termination.  `OwnerIsInside`: handover leaves the woken process in the owner
slot although it does not yet run.  `ChainIsCStack`: the list of suspended
callers in the image's heap and the native stack, kept by different code, agree
at every moment.  `NoStrandedDelay`: the timer's state is right *whenever* the
scheduler sleeps, whoever signalled it last and however late it armed.
`MarksExactlyReachable`: `Reachable` is the least set closed under strong
references and ephemerons with live keys, defined without any order, and the
fixpoint the code reaches by its order is that set.  `CollectionKeepsGraph`:
identity and contents, raw data included, are the same before and after.
`NoUseAfterFree`: neither the I/O thread's snapshot nor a handle that
`socketFromOop` accepts leads to a deleted structure.

## 4. Findings

1. `fireAllEphemerons` walks the list of active ephemerons and marks from the
   fields of each (`ObjectMemory.cpp:2309`).  An active ephemeron that this
   marking meets for the first time is pushed onto the list under the loop, which
   does not come to it, and the list is cleared (2328).  `markAndTrace` says of
   such an ephemeron that its fields are traced later by `markInactiveEphemerons`
   or `fireAllEphemerons` (2167): they are not.  It survives, and its key and
   values are freed.  TLC's trace is an ordinary collection of this kind.  The
   loops of a collection with `skipEphemerons` (2504, 2516) do the same to an
   ephemeron, or a weak object, that they come to late, on other graphs.
2. When eden cannot hold the saved first fields, planning stops with "need
   another pass" (`ObjectMemory.cpp:2601`), and `fullGC` makes none.
3. `writeSignaled` is set after the signal and can overwrite the reset of a send
   that failed with EAGAIN meanwhile (`plugins/SocketPlugin.cpp:214`): the
   writer is never woken.
4. `vm_destroy` deletes the interpreter before it stops the thread that signals
   through it (`src/src/platform/PlatformBridge.cpp:561`).

Each has a run that finds it.  The following come out of the same modules when a
restriction of the runs or a condition of a property is lifted, and have none;
they are hazards with a note:

1. `primitiveWait`, with nobody runnable, removes the first waiter instead of
   the process that fails (`Primitives.cpp:3562`): `Idle = Nil` in
   `ProcessScheduler`.  The theorems assume an idle process and so exclude it.
2. `tryReschedule` leaves `suspendedContext` of the process it runs set
   (`Interpreter.cpp:8670`), against the comment at 7822: `ActiveHasNoContext`
   with a termination.
3. The stuck-process timeout clears `suspendedContext`, and `transferTo` saves
   it again (`Interpreter.cpp:2660`): see `StuckProcessTimeout`.
4. Two callers of `signalExternalSemaphore` at once lose a signal
   (`Interpreter.cpp:2345`), which `docs/programmers-overview.md` counts among
   the resolved issues: `NoSilentLoss` without the condition `~raced`.
5. A callback handler that outranks the calling process is switched to by the
   signal and at once replaced by another, and is lost (`Interpreter.cpp:2440`):
   `NoProcessLost` without `HandlerOutranksCaller` in `Disorder`.
6. The time-out of a nested loop loses the process it runs
   (`Interpreter.cpp:2480`), while the return path has the cure and says why.
7. The pending answer of one callback is taken by the nested loop of another
   (`Interpreter.cpp:2498`): `ReturnsToOwner` without `CallsOverlap` in
   `Disorder`.
8. A weak object does not keep its class (`ObjectMemory.cpp:2171`): without
   `ClassesHeld`.
9. A callback made when the callback stack is full is not recorded, and its nested
   loop runs all the same (`Interpreter.cpp:2427`), so the next answer pops
   another's context: `ReturnsToOwner` without `StackIsFull` in `Disorder`.

Two more surprises contradict no document and are only hazards:
`primitiveEnterCriticalSection` lets the caller in when nobody is runnable
(`Primitives.cpp:757`), and the forced yield of `step()` ignores grace
(`Interpreter.cpp:2823`).

## 5. Proofs

`ProcessSchedulerProofs` proves, for any sets of processes, semaphores and
sections, any number of priorities, and any bounds:

| Theorem | Property |
|---|---|
| `TypeCorrect` | `TypeOK` |
| `ListsStayLinked` | `LinksOK` and acyclicity |
| `ListsAreChains` | `WellFormedLists` |
| `ListsImplementQueues` | `FifoScheduling`, the refinement of `ProcessQueues` |
| `RunningContextIsInRegisters` | `ActiveHasNoContext`, as long as `terminations` is 0 |
| `ActiveIsOffLists` | `ActiveOffLists` |
| `NobodyIsLost` | `NoLostProcess` |
| `ListedCanRun` | `ListedHaveContext` |
| `NoWakeupIsLost` | `NoLostWakeup` |
| `SectionsExclude` | `MutualExclusion` |
| `OwnersAreInside` | `OwnerIsInside` |
| `NoAccidentalInversion` | `InversionsAreDeliberate`, an action property |

`FFICallbacksProofs` proves, for any sets of processes and handlers, any
priorities of theirs, any number of callbacks and any depth of nesting, of the
whole specification (the properties but the first speak of the time until a
callback is made in disorder):

| Theorem | Property |
|---|---|
| `CallbackTypesCorrect` | `CallbackTypeOK` |
| `CallbacksLoseNoProcess` | `NoProcessLost`, given an idle process |
| `ChainStaysCStack` | `ChainIsCStack`, given an idle process |
| `AnswersReachTheirLoop` | `ReturnsToOwner`, given an idle process |
| `HandlersServeOnce` | `ServedOnce`, given an idle process |

`MarkingProofs` proves, for any heap, any classes and formats, any roots and any
number of collections:

| Theorem | Property |
|---|---|
| `MarkingTypeCorrect` | `MarkingTypeOK` |
| `MarkingIsExact` | `MarksExactlyReachable` |
| `SurvivorsKeepTheirSlots` | `NoDanglingSlot`, as long as `late` is empty |
| `ClassesOfSurvivorsStay` | `ClassesStay`, given `ClassesHeld` |

`ExternalSignalsProofs` proves, for any capacity, indices, number of calls and
set of callers (the last two properties speak of the time until two calls race):

| Theorem | Property |
|---|---|
| `RingTypeCorrect` | `TypeOK` |
| `NothingPublishedIsLost` | `NoSilentLoss` |
| `RingImplementsQueue` | `RingIsQueue`, the refinement of `SignalQueue` |

`CompactionProofs` proves, for any heap laid out without overlap, any pinned
objects and any marked set, and the first two also for any scratch area:

| Theorem | Property |
|---|---|
| `CompactionTypeCorrect` | `CompactionTypeOK` |
| `ObjectsStayApart` | `NoOverlap` |
| `NoPointerIsStale` | `NoStalePointer`, given `SoundImage` |
| `FramesContinue` | `FramesGoOn`, given `SoundImage` |
| `CompactionKeepsGraph` | `CollectionKeepsGraph`, the refinement of `ObjectGraph`, given `SoundImage` |

`SocketsProofs` proves, for any number of sockets, descriptors, calls and
relaunches:

| Theorem | Property |
|---|---|
| `DescriptorsAreOwned` | `SocketsTypeOK` |
| `DeletedIsNotUsed` | `NoUseAfterFree` |

`DelayTimerProofs` proves, for any range and wrap of the clocks and any delays:

| Theorem | Property |
|---|---|
| `TimerTypeCorrect` | `TypeOK` |
| `NoDelayIsStranded` | `NoStrandedDelay` |
| `TimerIsNotEarly` | `TimerNotEarly`, an action property |

### The scheduler

*Assumptions.*  Those of `ProcessLists` and `ProcessScheduler` on constants,
and `OrdinaryImage`: there is an idle process; the image resumes only what is off
every list, the running process too where the VM terminates nobody; it does not
suspend a waiter of a critical section.

*The inductive invariant* `IInv` is the conjunction of `TypeOK`; `LinksOK`
(each list's ends agree and are on it; an unlisted process has no link; links
stay on a list, are not shared, and only the last is nil; all but the first are
linked) with `Acyclic`; `ActiveOffLists`; that listed and parked processes are
told apart (`ParkedExactly`); `ListedHaveContext`; that waiters see no excess
signals; and that a section's entered processes are its owner and its waiters
(`SectionsAreOwned`).  None of the properties is inductive alone: removing the
head of a queue gives a process with a context only because listed processes
have one; the list it leaves stays whole only because no other list shares its
links; and the wait primitives succeed only because an idle process that is not
running is *listed*, hence some ready queue is not empty.  `Acyclic` is stated
with a rank on processes, not with a walk, because recursion is out of the
prover's reach.

The argument has three layers: lemmas that each list helper preserves
`LinksOK` and `Acyclic` and what it does to `myList` (`ProcessListsProofs`);
lemmas on switches composed of them; one lemma per action of
`ProcessScheduler`, collected in `NextKeepsIInv`.

`NoAccidentalInversion` adds one invariant, that ready processes are in the
queues of their own priorities (`OwnQueues`), and says "nobody outranks the
running process" of processes, not of queues (`Tops`; `TopsMeansHighest` joins
the two).  Whoever leaves for a list or for nothing hands over to the head of the
highest queue, so whatever held before, nobody outranks that one
(`HighestHeadTops`); the others switch to a head of at least the running
priority, or to a process they have just made ready if it outranks
(`PreemptingTops`, `ResumingTops`).

`ListsAreChains` joins the slots to the walk `LinksOf`.  Ranks rise along the
walk, so it meets nobody twice; there are finitely many processes
(`ProcAssumption`), so it ends; and of the processes of the list that it does not
meet, the one of lowest rank would be linked from one that it does
(`LinksAreChain`).  Conversely a sequence that is a chain is what the walk
shows (`ChainIsLinks`).  With these, each list helper is an operation on
sequences: `AddLastLinkToList` is `Append`, `RemoveFirstLinkOfList` is `Tail`,
`RemoveProcessFromList` is `RemoveAt`, and other queues stay.
`ListsImplementQueues` maps the heap to `QueuesOf(heap)`; under `IInv` each
action is one of the abstract steps (or stutters): a termination and a suspend
of the running process are `Drop`, a forced yield with grace is `Rotate` or
`RotateAndPreempt`, an exit `HandOver`, and so on.

`RunningContextIsInRegisters` needs no `IInv` and nothing of the image: `transferTo`
saves one context and takes one away, nothing else writes the slot, and
`tryReschedule`, which does not take it away, runs only in a termination
(`ContextsInOrder`).

### Callbacks

*Assumptions.*  `CallbackAssumption` (types) is all that `CallbackTypesCorrect`
needs; the others need an idle process.  They assume nothing of priorities,
of who calls out when, or of how many handlers there are: the properties
themselves stop at the first callback made in `Disorder`, and every state before
it, with any callback then possible, is covered.  Each of the three conditions of
`Disorder` is needed: with any one left out TLC finds properties violated in the
instance of the run `callbacks`, `NoProcessLost` and `ChainIsCStack` without
`HandlerOutranksCaller`, all four without either of the others.

`OrderInv` is `TypeInv`, always, and `CallbackInv` as long as `~disorderly`.
Since `disorderly` is never reset (`HistoryGrows`), a step that leads to an
orderly state began in one.

*The inductive invariant* `CallbackInv` has five parts.  `TypeInv` types the
state and bounds the signals by the callbacks issued.  `PlacesInv` says that
the callers are beside the lists with their contexts saved (`Beside`), that the idle
process is runnable, that whoever neither runs nor is on a list is suspended or
a caller, and that only handlers wait for callbacks.  `ChainInv` adds
to `ChainIsCStack` that each caller is on the C stack once.  `AnswerInv` says that
callbacks nest, that only the innermost one may be answered, in one of two
places (`Done`), and that the callback stack is the C stack less one that is
answered.  `HandlerInv` says which one of three it is for the innermost callback:
its signal is still to be taken, one handler is at work on it (`AtWork`), or it is
done; and that the callers of the outer ones are handlers that called out from
them.  So whoever may call out is the one handler at work, or nobody is
(`EntryFindsPeace`).

A caller is on no list, yet its `nextLink` is in use, so the scheduler's
`OffListUnlinked` is false of it.  `Unchained` is the heap without these links:
every helper, and every switch made of helpers, does in the heap with them what
it does in the heap without, and leaves them as they are (`Mirrors`, and the
lemmas ending in `Aside`).  So the lemmas of `ProcessListsProofs` apply, and
`Moves`, `Enters` and `Returns` say who has moved.  `PushCallout` and `PopCallout`
are where the set of callers changes.

### The collector

*Assumptions.*  `ObjectAssumption` (types only); `ClassesHeld` for the last
theorem.  `SurvivorsKeepTheirSlots` has the condition `late = {}`, which is
finding 1 in both kinds of collection: the theorem says there is no other way to
lose a reference.

*Invariants.*  `TypeInv` types the state.  `SoundInv`: while marking, what is
marked or reached belongs to every closed set, hence is `Reachable`.
`CoverInv` is the tri-colour invariant: what a marked object refers to strongly
is marked or reached, unless the object is still on a list, and every object of
those lists is marked; with nothing left in `reached` and no live key on the
list, the marked set is closed, so it contains `Reachable`; the two together
give `MarkingIsExact`.  `LiveInv` carries closedness from the end of
marking over `Sweep` to the next collection, with nilled slots and mourners;
`ClassInv` does the same for classes, where only plain objects and ephemerons
that were scanned have traced theirs, so `ClassesHeld` has to cover the rest.

### Compaction

*Assumptions.*  `HeapAssumption` (types, and that a graph gives each object as
many words as it has) and `LayoutAssumption`: at the start objects lie within
old space, below `free`, and apart.

*Invariant.*  `SlideInv` says that objects that count are apart and end at or
below `free`, that `toFinger` is at or before each object still to be scanned,
both when planning and when sliding, and that those already placed end at or
before it.  An object that moves goes from `toFinger` on, and the one the
scanner is at starts there or later, so its new extent ends where its old one
did, or before; all objects to come are beyond that (`ScansInOrder`), all
placed ones before `toFinger`.  This needs nothing of the first scan: sliding is
safe also when planning has stopped half way (finding 2), and what that breaks
is references, not extents.  While sliding, dead objects no longer count
(`There`).

*References* need more.  `SoundImage` says what the code relies on without a
test: a class index that resolves for every object, and eden with a word for each
object that may move; without the second `NoStalePointer` is false, which is
finding 2.  `ImageAssumption` says that the image starts with references to
objects it holds.  The invariant `GraphInv` says, between collections, that the
words of old space show a graph (`Shows`): each word stands for what the graph
has there, a reference standing for the header of its object.  During one it
says that the graph taken at the start is still there (`Collecting`), through
three facts.  `Goal` is where an object goes, read from its first word once that
has been replaced.  `PlanInv`: the planning scan met every mobile object with
its finger at the goal, and the sliding scan, which starts from the same place
and adds the same sizes, meets it there again (`PlanShrinks`).
`SavedFieldsOf`: the saved fields belong to the objects of `grey` in the order of
the scan, so the pointer of a later scan is at an object's own field when it
comes to it (`NextSaved`).  Then each word not saved, and each saved one, stands
for the contents at the start, by old addresses before its object has been
updated and by goals after (`WordsStandFor`).  That eden does not overflow is a
pigeonhole on the mobile objects (`ScratchSuffices`).  At the end goals are
addresses, so the words show the graph less the unmarked objects
(`EndCollectionShows`), which is `ObjectGraph`'s `Collect`; `FramesContinue` is
the same for roots that are methods.  Headers are apart because objects are,
so a word stands for one object at most (`HeadersAreApart`, `Decoding`), and
the graph that words show is the only one (`ShownGraph`).

### The ring

No assumption besides types, and any number of callers.  *Invariant.*  `CallerInv`: between its accesses the caller's copy of
head is still right and the room it found is still there, since only the drain
moves the tail, and only away from it, and a caller that moved the head under
another's copy would have set `raced`.  `BatchInv`: the drain's `cur` and `end`
lie, in this order, between tail and head.  `NoSilentLoss` itself: what is
accepted and not delivered is what lies from tail to head.  These three hold
as long as `~raced` (`IInv`), the types always.  Reasoning is done on
`Distance` and `Between`, with lemmas that remove the modulus once; the
refinement maps the queue to the entries from `cur` to `head`.

### Sockets

No assumption besides types.  *Invariant.*  `ListInv`: each structure created is
in the active list, the deletion queue or deleted, and in only one of them.
`HandleInv`: a handle that the primitives accept leads to the active list, which
is why a session ID and a lock half way through `primitiveSocketDestroy` are
enough.  `RoundInv`: the I/O thread's snapshot holds nothing deleted, because
only that thread deletes while it runs, and only when it holds no snapshot.
`DescriptorInv`: descriptors in use are open and belong to one structure.

### The delay timer

*Assumption.*  `ClockAssumption`: the wrap of the millisecond clock is at least
4, and the constants are in range.  *Invariant.*  `ArmedInv`: a timer that is
armed holds the time it was armed for in the slot of the primitive this image
uses, and the other slot is empty.  `SleepInv`: whatever changes the delays of a
scheduler that sleeps also signals it, so with no signal on its way the timer is
armed for the first of them.  `RangeInv`: no delay lies half the range or more
ahead, which passing time only improves.  `TimerIsNotEarly` needs the last: for a
time ahead by less than half the range the difference of the remainders is the
range less that distance, more than half of it, which the code takes for "not
elapsed" (`AheadIsNotElapsed`); without the bound a wrapped clock is early.  The
solver has no theory of a symbolic modulus, so uniqueness of remainders is proved
from division with remainder.

*Only model-checked:* that scratch space which is too small makes pointers stale
(finding 2); and liveness, the timer's too, which the prover does not reach.

## 6. What is left out

Of the scheduler: the explicit process argument of primitives 186 and 187; the
low-space semaphore; priorities that change, or that are not integers in range
(`safeProcessPriority` returns -1 for them); the per-process non-local-return
registers that `transferTo` saves; the stack effect of a failing
`primitiveSuspend`; `bootstrapStartup`, which tries to start an image's default
process before the VM stops (a stop here); `wakeLowerPriorityProcess`, which
nothing calls.

Of callbacks: registration, argument conversion and the calls themselves
(`FFI.cpp`); critical sections and other
semaphores inside a callback (the scheduler's own runs have them); termination
of a process that is in a callout.

Of the timer: an image that uses both primitives, a scheduler that misses a
signal or dies, and so what recovery is for.

Of callbacks also the time-out of a nested loop: it leaves an entry and possibly
an answer behind that no invariant of the module survives.

Of the object memory: free lists, permanent and new space, become, pinning and
growing, the low-space signal, the class table's write back to the heap for a
snapshot, and the synchronisation of context temporaries in `prepareForGC`.  An
interior pointer (which `markAndTrace` guards against) is no state of the model.

Of sockets: UDP, options, addresses, the resolver, sockets that are not made by
this process, and failures of `fcntl` and of allocation.  Handles in an image
file saved by another process would be accepted if the session IDs agree; the
model has one process.

The interpreter proper (sends, returns, unwinding, the method cache), the image
file, the JIT and the input queue are not modelled: the first need contexts and
stacks, of which the modules above have only what scheduling and collection see.
By lines, most of the repository is vendored or generated code
(`ios/cointerp-cpp.c`, `plugins/B2DPlugin.c`, the JIT stencils) and primitives
that compute a value and change no state another step reads.

## 7. Plan

1. `Unwinding`: non-local return over contexts, `cannotReturn:`, and the
   register table that `transferTo` keeps; with it the failures of
   `executeFromContext`.
2. `MethodCache` against lookup, over classes that change.
3. `InputEvents`: event queue, two consumers, the ring and the back-stop signal.
4. Free lists and become on top of `Compaction`; the ring composed with
   `Sockets`' signals.
5. `DelayTimer` with a scheduler that misses a signal: whether recovery reaches
   it after an arm and a cancel (`Interpreter.cpp:2126`).
6. Proofs: that callbacks refine a stack of C calls.
