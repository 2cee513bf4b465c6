----------------------------- MODULE MCScheduler -----------------------------
(***************************************************************************)
(* Small instance of Scheduler: the background process, two processes of   *)
(* one priority and one of a higher priority; two semaphores; one context  *)
(* per process, and a second one for p1.                                   *)
(***************************************************************************)
EXTENDS Scheduler

CONSTANTS idle, p1, p2, hi

MCProcess == {idle, p1, p2, hi}
MCPriority == [p \in MCProcess |-> CASE p = idle -> 1 [] p = hi -> 3 [] OTHER -> 2]
MCContext == (MCProcess \X {0}) \union {<<p1, 1>>}
MCOwner == [c \in MCContext |-> c[1]]
=============================================================================
