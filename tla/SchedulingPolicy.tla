--------------------------- MODULE SchedulingPolicy ---------------------------
(***************************************************************************)
(* What the process scheduler of the virtual machine promises to the       *)
(* Smalltalk image, free of linked lists, of the delayed process switch    *)
(* and of the interpreter's registers.                                     *)
(*                                                                         *)
(* One process runs.  The others stand in first-in first-out queues, one   *)
(* per priority (ready to run) and one per semaphore (waiting), or in no   *)
(* queue (suspended).  A process that becomes ready preempts the running   *)
(* one only if its priority is higher.  Each process is at some context,   *)
(* and only the running process moves to another one.                      *)
(***************************************************************************)
EXTENDS Naturals, Sequences

CONSTANTS
  Process,           \* the Process objects of the image
  Semaphore,         \* the Semaphore objects of the image
  Levels,            \* number of priorities
  Context,           \* the contexts processes run in
  Nil,               \* the object nil
  Priority,          \* the priority of each process
  Owner,             \* the process each context belongs to
  Background,        \* the image's background process, which never blocks
  MaxSmallInteger,   \* excess signals are counted up to this number
  ListSize           \* capacity of the list of posted signals

VARIABLES
  running,           \* the process that runs
  queue,             \* the queue of each semaphore and of each priority
  excess,            \* signals of each semaphore that no process has taken
  posted,            \* signals posted by events and not yet delivered
  at                 \* the context each process is at

vars == <<running, queue, excess, posted, at>>

ReadyList == 1 .. Levels
List == Semaphore \union ReadyList

Enqueue(q, p, l) == [q EXCEPT ![l] = Append(@, p)]
Dequeue(q, l) == [q EXCEPT ![l] = Tail(@)]
Queued(p) == \E l \in List : \E i \in 1 .. Len(queue[l]) : queue[l][i] = p
Suspended(p) == p # running /\ ~Queued(p)

Init ==
  /\ running \in Process
  /\ queue = [l \in List |-> IF l = Priority[Background] /\ running # Background
                             THEN <<Background>> ELSE <<>>]
  /\ excess = [s \in Semaphore |-> 0]
  /\ posted = <<>>
  /\ at \in [Process -> Context]
  /\ \A p \in Process : Owner[at[p]] = p

(***************************************************************************)
(* Process p becomes ready when the queues are q.                          *)
(***************************************************************************)
Awaken(q, p) ==
  \/ /\ Priority[p] > Priority[running]
     /\ queue' = Enqueue(q, running, Priority[running])
     /\ running' = p
  \/ /\ Priority[p] <= Priority[running]
     /\ queue' = Enqueue(q, p, Priority[p])
     /\ UNCHANGED running

(***************************************************************************)
(* The running process stops and the queues become q: the process that has *)
(* been ready longest at the highest priority runs.                        *)
(***************************************************************************)
GiveUp(q) ==
  \E l \in ReadyList :
    /\ q[l] # <<>>
    /\ \A m \in ReadyList : m > l => q[m] = <<>>
    /\ running' = Head(q[l])
    /\ queue' = Dequeue(q, l)

SignalEffect(s) ==
  \/ /\ queue[s] = <<>>
     /\ excess' = [excess EXCEPT ![s] = IF @ < MaxSmallInteger THEN @ + 1 ELSE @]
     /\ UNCHANGED <<running, queue>>
  \/ /\ queue[s] # <<>>
     /\ Awaken(Dequeue(queue, s), Head(queue[s]))
     /\ UNCHANGED excess

-----------------------------------------------------------------------------
(* An event, a timer or the memory watch posts a signal.                   *)
Post(s) ==
  /\ Len(posted) < ListSize
  /\ posted' = Append(posted, s)
  /\ UNCHANGED <<running, queue, excess, at>>

(* The signal posted last is delivered.                                    *)
Deliver ==
  /\ posted # <<>>
  /\ SignalEffect(posted[Len(posted)])
  /\ posted' = SubSeq(posted, 1, Len(posted) - 1)
  /\ UNCHANGED at

Signal(s) == SignalEffect(s) /\ UNCHANGED <<posted, at>>

Wait(s) ==
  /\ \/ /\ excess[s] > 0
        /\ excess' = [excess EXCEPT ![s] = @ - 1]
        /\ UNCHANGED <<running, queue>>
     \/ /\ excess[s] = 0
        /\ GiveUp(Enqueue(queue, running, s))
        /\ UNCHANGED excess
  /\ UNCHANGED <<posted, at>>

Resume(p) ==
  /\ Suspended(p)
  /\ Awaken(queue, p)
  /\ UNCHANGED <<excess, posted, at>>

Suspend == GiveUp(queue) /\ UNCHANGED <<excess, posted, at>>

(* The running process sends a message or returns from one.                *)
Run(c) ==
  /\ Owner[c] = running
  /\ at' = [at EXCEPT ![running] = c]
  /\ UNCHANGED <<running, queue, excess, posted>>

Next ==
  \/ \E s \in Semaphore : Post(s) \/ Signal(s) \/ Wait(s)
  \/ Deliver
  \/ \E p \in Process : Resume(p)
  \/ Suspend
  \/ \E c \in Context : Run(c)

Spec == Init /\ [][Next]_vars
=============================================================================
