------------------------------- MODULE WorkQueue -------------------------------
(***************************************************************************)
(* What a pool of threads promises to the one thread that posts tasks to   *)
(* it and closes it: the tasks are begun in the order in which they were   *)
(* posted, each once, by so many threads at a time, and when close returns *)
(* every task posted has been finished.                                    *)
(***************************************************************************)
EXTENDS Integers, FiniteSets

CONSTANTS
  NumTasks,    (* the tasks are 1 .. NumTasks       *)
  NumThreads   (* tasks that may run at a time      *)

VARIABLES
  posted,   (* number of tasks posted               *)
  begun,    (* number of tasks a thread has begun   *)
  finished, (* the tasks that are finished          *)
  closed    (* close has returned                   *)

vars == <<posted, begun, finished, closed>>

Init == posted = 0 /\ begun = 0 /\ finished = {} /\ closed = FALSE

Running == (1 .. begun) \ finished

Post == /\ ~closed /\ posted < NumTasks
        /\ posted' = posted + 1
        /\ UNCHANGED <<begun, finished, closed>>

Begin == /\ begun < posted
         /\ begun' = begun + 1
         /\ Cardinality(Running') <= NumThreads
         /\ UNCHANGED <<posted, finished, closed>>

Finish == \E t \in Running : /\ finished' = finished \cup {t}
                             /\ UNCHANGED <<posted, begun, closed>>

Close == /\ ~closed
         /\ finished = 1 .. posted
         /\ closed' = TRUE
         /\ UNCHANGED <<posted, begun, finished>>

Next == Post \/ Begin \/ Finish \/ Close

Spec == Init /\ [][Next]_vars
================================================================================
