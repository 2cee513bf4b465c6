------------------------------ MODULE Scheduler ------------------------------
(***************************************************************************)
(* The process scheduler of the interpreter (primitives.c): the linked     *)
(* lists of Process objects that hang off the ProcessorScheduler and off   *)
(* the semaphores, the list of asynchronously posted signals, the delayed  *)
(* process switch through the registers newProcess and newProcessWaiting,  *)
(* and the primitives signal, wait, resume and suspend.                    *)
(*                                                                         *)
(* The interpreter is one thread.  It repeats INTERP_Cycle (interpreter.c):*)
(* checkProcessSwitch, then one bytecode.  Between two cycles main.c may   *)
(* handle events, which post signals.  The variable phase says where the   *)
(* interpreter stands:                                                     *)
(*    frame     between two cycles                                         *)
(*    drain     inside checkProcessSwitch, delivering posted signals       *)
(*    bytecode  about to execute a bytecode                                *)
(***************************************************************************)
EXTENDS Naturals, Sequences

CONSTANTS
  Process, Semaphore, Levels, Context, Nil, Priority, Owner, Background,
  MaxSmallInteger, ListSize

ReadyList == 1 .. Levels
List == Semaphore \union ReadyList

(***************************************************************************)
(* Priorities index the array of ready lists.  Lists, processes and nil    *)
(* are different objects.  The image keeps a background process at the     *)
(* lowest priority, [[true] whileTrue: []] (ProcessorScheduler class       *)
(* hiddenBackgroundProcess): it never waits and is never suspended.        *)
(***************************************************************************)
ASSUME ConstantsAssumption ==
  /\ Levels \in Nat
  /\ MaxSmallInteger \in Nat
  /\ ListSize \in Nat
  /\ Semaphore \intersect ReadyList = {}
  /\ Nil \notin Process
  /\ Nil \notin List
  /\ Priority \in [Process -> ReadyList]
  /\ Owner \in [Context -> Process]
  /\ Background \in Process
  /\ \A p \in Process : Priority[Background] <= Priority[p]

VARIABLES
  links,             \* the list fields of Process, LinkedList and Semaphore objects
  activeProcessField,\* the field activeProcess of the ProcessorScheduler
  newProcess,        \* R_sch.newProcess
  newProcessWaiting, \* R_sch.newProcessWaiting
  semaphoreList,     \* R_sch.semaphoreList[0 .. semaphoreIndex]
  excessSignals,     \* the field excessSignals of each Semaphore
  suspendedContext,  \* the field suspendedContext of each Process
  activeContext,     \* R_ctx.activeContext
  phase

vars == <<links, activeProcessField, newProcess, newProcessWaiting, semaphoreList,
          excessSignals, suspendedContext, activeContext, phase>>

-----------------------------------------------------------------------------
(***************************************************************************)
(* Linked lists.  k stands for the fields first, last (of each list), next *)
(* and myList (of each process).  Its component queue is auxiliary: the    *)
(* processes in the order the list operations were applied.  No operation  *)
(* reads it; ListsWellFormed relates it to the pointers.                   *)
(***************************************************************************)
NoLinks ==
  [first  |-> [l \in List |-> Nil],
   last   |-> [l \in List |-> Nil],
   next   |-> [p \in Process |-> Nil],
   myList |-> [p \in Process |-> Nil],
   queue  |-> [l \in List |-> <<>>]]

isEmptyList(k, l) == k.first[l] = Nil

(* The link field of p is reset when p leaves a list.                      *)
linksKeptOn(k, p) == k.next
linksWithout(k, p) == [k.next EXCEPT ![p] = Nil]

removeFirstLinkOfList(k, l) ==
  LET p == k.first[l]
      only == k.last[l] = p
  IN  [first  |-> [k.first EXCEPT ![l] = IF only THEN Nil ELSE k.next[p]],
       last   |-> [k.last EXCEPT ![l] = IF only THEN Nil ELSE @],
       next   |-> linksWithout(k, p),
       myList |-> k.myList,
       queue  |-> [k.queue EXCEPT ![l] = Tail(@)]]

addLastLink_toList(k, p, l) ==
  [first  |-> IF isEmptyList(k, l) THEN [k.first EXCEPT ![l] = p] ELSE k.first,
   last   |-> [k.last EXCEPT ![l] = p],
   next   |-> IF isEmptyList(k, l) THEN k.next ELSE [k.next EXCEPT ![k.last[l]] = p],
   myList |-> [k.myList EXCEPT ![p] = l],
   queue  |-> [k.queue EXCEPT ![l] = Append(@, p)]]

-----------------------------------------------------------------------------
(* The process that runs, or will run at the next switch.                  *)
activeProcess == IF newProcessWaiting THEN newProcess ELSE activeProcessField

sleep(k, p) == addLastLink_toList(k, p, Priority[p])

transferTo(p) == newProcessWaiting' = TRUE /\ newProcess' = p

(* Resuming p preempts what will run, which a pending switch may change.    *)
preemptsOfField(p) == Priority[p] > Priority[activeProcessField]
preemptsEqual(p) == Priority[p] >= Priority[activeProcess]
preempts(p) == Priority[p] > Priority[activeProcess]

preemptedOfField(k) == sleep(k, activeProcessField)
preempted(k) == sleep(k, activeProcess)

resume(k, p) ==
  \/ preempts(p) /\ links' = preempted(k) /\ transferTo(p)
  \/ /\ ~preempts(p)
     /\ links' = sleep(k, p)
     /\ UNCHANGED <<newProcess, newProcessWaiting>>

(* The highest priority whose ready list is not empty.                     *)
wakeHighestPriority(k) ==
  CHOOSE l \in ReadyList :
    /\ ~isEmptyList(k, l)
    /\ \A m \in ReadyList : m > l => isEmptyList(k, m)

(* The assertion priority > 0 of wakeHighestPriority holds for the lists k.*)
ProcessToWake(k) == \E l \in ReadyList : ~isEmptyList(k, l)

suspendActive(k) ==
  LET l == wakeHighestPriority(k)
  IN  links' = removeFirstLinkOfList(k, l) /\ transferTo(k.first[l])

(***************************************************************************)
(* A signal with nobody waiting is counted.  A count that would leave the  *)
(* SmallInteger range is not stored (Interp_StoreInteger).                 *)
(***************************************************************************)
oneMoreUnchecked(n) == n + 1
oneMore(n) == IF n < MaxSmallInteger THEN n + 1 ELSE n

synchronousSignal(s) ==
  \/ /\ isEmptyList(links, s)
     /\ excessSignals' = [excessSignals EXCEPT ![s] = oneMore(@)]
     /\ UNCHANGED <<links, newProcess, newProcessWaiting>>
  \/ /\ ~isEmptyList(links, s)
     /\ resume(removeFirstLinkOfList(links, s), links.first[s])
     /\ UNCHANGED excessSignals

(* Beyond its capacity the code aborts: ListSize bounds the model.         *)
asynchronousSignal(s) ==
  /\ Len(semaphoreList) < ListSize
  /\ semaphoreList' = Append(semaphoreList, s)

-----------------------------------------------------------------------------
(* Events, the timer and the standard input post signals between cycles.   *)
FrameEvent(s) ==
  /\ phase = "frame"
  /\ asynchronousSignal(s)
  /\ UNCHANGED <<links, activeProcessField, newProcess, newProcessWaiting,
                 excessSignals, suspendedContext, activeContext, phase>>

(* checkProcessSwitch begins: memWarn may post the low space semaphore s.  *)
memWarn(s) ==
  /\ phase = "frame"
  /\ phase' = "drain"
  /\ asynchronousSignal(s) \/ UNCHANGED semaphoreList
  /\ UNCHANGED <<links, activeProcessField, newProcess, newProcessWaiting,
                 excessSignals, suspendedContext, activeContext>>

(* One turn of the while loop of checkProcessSwitch: the last entry first. *)
drainTopOnly == semaphoreList' = <<>>
drainTop == semaphoreList' = SubSeq(semaphoreList, 1, Len(semaphoreList) - 1)

drainSemaphoreList ==
  /\ phase = "drain"
  /\ semaphoreList # <<>>
  /\ synchronousSignal(semaphoreList[Len(semaphoreList)])
  /\ drainTop
  /\ UNCHANGED <<activeProcessField, suspendedContext, activeContext, phase>>

(***************************************************************************)
(* The old process's context is stored before the new one's is read: they  *)
(* may be the same process.                                                *)
(***************************************************************************)
contextToRunReadFirst == suspendedContext[newProcess]
contextToRun == suspendedContext'[newProcess]

(* The rest of checkProcessSwitch, with all signals delivered.             *)
checkProcessSwitch ==
  /\ phase = "drain"
  /\ semaphoreList = <<>>
  /\ phase' = "bytecode"
  /\ \/ /\ newProcessWaiting
        /\ suspendedContext' = [suspendedContext EXCEPT ![activeProcessField] = activeContext]
        /\ activeContext' = contextToRun
        /\ activeProcessField' = newProcess
        /\ newProcessWaiting' = FALSE
        /\ newProcess' = Nil
     \/ /\ ~newProcessWaiting
        /\ UNCHANGED <<activeProcessField, newProcess, newProcessWaiting,
                       suspendedContext, activeContext>>
  /\ UNCHANGED <<links, semaphoreList, excessSignals>>

-----------------------------------------------------------------------------
(* The bytecodes.  Each executes one primitive, or sends or returns.       *)
endBytecode ==
  /\ phase = "bytecode"
  /\ phase' = "frame"
  /\ UNCHANGED <<activeProcessField, suspendedContext>>

primitiveSignal(s) ==
  /\ endBytecode
  /\ synchronousSignal(s)
  /\ UNCHANGED <<semaphoreList, activeContext>>

hasExcessBeyondOne(s) == excessSignals[s] > 1
hasExcess(s) == excessSignals[s] > 0

primitiveWait(s) ==
  /\ endBytecode
  /\ \/ /\ hasExcess(s)
        /\ excessSignals' = [excessSignals EXCEPT ![s] = @ - 1]
        /\ UNCHANGED <<links, newProcess, newProcessWaiting>>
     \/ /\ ~hasExcess(s)
        /\ suspendActive(addLastLink_toList(links, activeProcess, s))
        /\ UNCHANGED excessSignals
  /\ UNCHANGED <<semaphoreList, activeContext>>

primitiveResume(p) ==
  /\ endBytecode
  /\ resume(links, p)
  /\ UNCHANGED <<semaphoreList, excessSignals, activeContext>>

(* It fails unless the receiver p is the active process.                   *)
primitiveSuspend(p) ==
  /\ endBytecode
  /\ \/ p = activeProcess /\ suspendActive(links)
     \/ p # activeProcess /\ UNCHANGED <<links, newProcess, newProcessWaiting>>
  /\ UNCHANGED <<semaphoreList, excessSignals, activeContext>>

(* A tick that already counts as due posts its semaphore at once.          *)
primitiveSignalAtTick(s) ==
  /\ endBytecode
  /\ asynchronousSignal(s)
  /\ UNCHANGED <<links, newProcess, newProcessWaiting, excessSignals, activeContext>>

(***************************************************************************)
(* Any other bytecode: a send makes a new context of the same process      *)
(* active, a return an earlier one.                                        *)
(***************************************************************************)
newActiveContext(c) ==
  /\ endBytecode
  /\ Owner[c] = Owner[activeContext]
  /\ activeContext' = c
  /\ UNCHANGED <<links, newProcess, newProcessWaiting, semaphoreList, excessSignals>>

-----------------------------------------------------------------------------
(***************************************************************************)
(* An image as loaded: INTERP_Init makes the suspended context of the      *)
(* active process the active context (firstContext).  The background       *)
(* process is ready; the others are suspended or not yet started.          *)
(***************************************************************************)
firstContext ==
  /\ activeContext = suspendedContext[activeProcessField]
  /\ newProcessWaiting = FALSE
  /\ newProcess = Nil

Init ==
  /\ activeProcessField \in Process
  /\ links = IF activeProcessField = Background THEN NoLinks
             ELSE sleep(NoLinks, Background)
  /\ semaphoreList = <<>>
  /\ excessSignals = [s \in Semaphore |-> 0]
  /\ suspendedContext \in [Process -> Context]
  /\ \A p \in Process : Owner[suspendedContext[p]] = p
  /\ firstContext
  /\ phase = "frame"

(* The processes that stand in list l, in order.                           *)
InList(p, l) == \E i \in 1 .. Len(links.queue[l]) : links.queue[l][i] = p
Queued(p) == \E l \in List : InList(p, l)
Suspended(p) == p # activeProcess /\ ~Queued(p)

(* What may block is not the background process.                           *)
Bytecode ==
  \/ \E s \in Semaphore : primitiveSignal(s) \/ primitiveSignalAtTick(s)
  \/ activeProcess # Background /\ \E s \in Semaphore : primitiveWait(s)
  \/ activeProcess # Background /\ \E p \in Process : primitiveSuspend(p)
  \/ \E c \in Context : newActiveContext(c)

(* The image resumes only processes that stand in no list.                 *)
ResumeSuspended == \E p \in Process : Suspended(p) /\ primitiveResume(p)

(* INTERP_Cycle without primitiveResume.                                   *)
Cycle ==
  \/ \E s \in Semaphore : memWarn(s)
  \/ drainSemaphoreList
  \/ checkProcessSwitch
  \/ Bytecode

Next == Cycle \/ ResumeSuspended \/ \E s \in Semaphore : FrameEvent(s)

Spec == Init /\ [][Next]_vars

(***************************************************************************)
(* The loop __Run of main.c never stops executing cycles (until the window *)
(* is closed): the steps of checkProcessSwitch are weakly fair.            *)
(***************************************************************************)
Fairness ==
  /\ WF_vars(\E s \in Semaphore : memWarn(s))
  /\ WF_vars(drainSemaphoreList)
  /\ WF_vars(checkProcessSwitch)

FairSpec == Spec /\ Fairness

-----------------------------------------------------------------------------
TypeOK ==
  /\ links \in [first : [List -> Process \union {Nil}],
                last  : [List -> Process \union {Nil}],
                next  : [Process -> Process \union {Nil}],
                myList: [Process -> List \union {Nil}],
                queue : [List -> Seq(Process)]]
  /\ activeProcessField \in Process
  /\ newProcess \in Process \union {Nil}
  /\ newProcessWaiting = (newProcess # Nil)
  /\ newProcessWaiting \in BOOLEAN
  /\ semaphoreList \in Seq(Semaphore)
  /\ Len(semaphoreList) <= ListSize
  /\ excessSignals \in [Semaphore -> 0 .. MaxSmallInteger]
  /\ suspendedContext \in [Process -> Context]
  /\ activeContext \in Context
  /\ phase \in {"frame", "drain", "bytecode"}

(***************************************************************************)
(* The lists k are sound: following next from first visits exactly the     *)
(* processes that were added and not yet removed, in that order, and ends  *)
(* at last; no process is reached twice, in one list or in two; a process  *)
(* in no list has no next; myList of a queued process is its list.  A      *)
(* break here loses processes for ever or makes a list circular.           *)
(***************************************************************************)
EndsRight(k) ==
  \A l \in List :
    /\ k.queue[l] = <<>> => k.first[l] = Nil /\ k.last[l] = Nil
    /\ k.queue[l] # <<>> => /\ k.first[l] = k.queue[l][1]
                            /\ k.last[l] = k.queue[l][Len(k.queue[l])]

NextRight(k) ==
  \A l \in List : \A i \in 1 .. Len(k.queue[l]) :
    k.next[k.queue[l][i]] = IF i < Len(k.queue[l]) THEN k.queue[l][i + 1] ELSE Nil

NoProcessTwice(k) ==
  \A l, m \in List : \A i \in 1 .. Len(k.queue[l]), j \in 1 .. Len(k.queue[m]) :
    k.queue[l][i] = k.queue[m][j] => l = m /\ i = j

LooseEndsNil(k) ==
  \A p \in Process :
    (\A l \in List : \A i \in 1 .. Len(k.queue[l]) : k.queue[l][i] # p)
      => k.next[p] = Nil

MyListRight(k) ==
  \A l \in List : \A i \in 1 .. Len(k.queue[l]) : k.myList[k.queue[l][i]] = l

WellFormed(k) ==
  EndsRight(k) /\ NextRight(k) /\ NoProcessTwice(k) /\ LooseEndsNil(k) /\ MyListRight(k)

(***************************************************************************)
(* The process that runs (or is about to) stands in no list: it cannot be  *)
(* woken a second time.                                                    *)
(***************************************************************************)
ActiveInNoList == ~Queued(activeProcess)

(***************************************************************************)
(* The lists are sound at all times and hold only processes that wait.     *)
(***************************************************************************)
ListsWellFormed == WellFormed(links) /\ ActiveInNoList

(***************************************************************************)
(* No ready process has a higher priority than the one that runs, even     *)
(* while several signals are delivered before one switch.                  *)
(***************************************************************************)
HighestPriorityRuns ==
  /\ \A l \in ReadyList : \A i \in 1 .. Len(links.queue[l]) :
       Priority[links.queue[l][i]] = l
  /\ \A l \in ReadyList : links.queue[l] # <<>> => l <= Priority[activeProcess]

(***************************************************************************)
(* The assertion priority > 0 of wakeHighestPriority never fails: when a   *)
(* process other than the background process may block there is a process  *)
(* to wake, because the background process is never lost.                  *)
(***************************************************************************)
SomeProcessToWake ==
  phase = "bytecode" /\ activeProcess # Background => ProcessToWake(links)

(***************************************************************************)
(* A semaphore that holds untaken signals has nobody waiting.              *)
(***************************************************************************)
NobodyWaitsForAHeldSignal ==
  \A s \in Semaphore : excessSignals[s] > 0 => links.queue[s] = <<>>

(***************************************************************************)
(* The linked lists, the delayed switch and the registers implement the    *)
(* scheduling policy.  A process goes on where it stopped, although its    *)
(* context is stored some signals after it stopped being the active one.   *)
(***************************************************************************)
at == [p \in Process |-> IF p = activeProcessField THEN activeContext
                         ELSE suspendedContext[p]]

Policy == INSTANCE SchedulingPolicy
            WITH running <- activeProcess, queue <- links.queue,
                 excess <- excessSignals, posted <- semaphoreList

ImplementsPolicy == Policy!Spec

(***************************************************************************)
(* Only a bytecode moves a process from one context to another: delivering *)
(* signals and switching processes leave each at the context it was at,    *)
(* also when the switch is from a process to itself.                       *)
(***************************************************************************)
GoesOnWhereItStopped == [][phase # "bytecode" => UNCHANGED at]_vars

(***************************************************************************)
(* A signal posted to a semaphore releases the process that waits first.   *)
(***************************************************************************)
PostedSignalReleases ==
  \A s \in Semaphore, p \in Process :
    /\ \E i \in 1 .. Len(semaphoreList) : semaphoreList[i] = s
    /\ links.queue[s] # <<>> /\ Head(links.queue[s]) = p
    ~> ~InList(p, s)
=============================================================================
