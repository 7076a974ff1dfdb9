------------------------------- MODULE Channel ------------------------------
(***************************************************************************)
(* What the mpsc channel promises: a bounded queue of messages and a line  *)
(* of senders that found it full.  A sender never passes another one, and  *)
(* a receive lets the first of the line in.  A message is named by its     *)
(* sender.                                                                 *)
(***************************************************************************)
EXTENDS FutexOps

CONSTANTS Senders, Cap

VARIABLES items,    \* the messages accepted and not yet received, in order
          waiting   \* the senders in line

vars == <<items, waiting>>

Init == items = <<>> /\ waiting = <<>>

Accept(s) == /\ Len(items) < Cap
             /\ waiting = <<>>
             /\ items' = Append(items, s)
             /\ UNCHANGED waiting

Queue(s) == /\ Len(items) = Cap
            /\ s \notin ToSet(waiting)
            /\ waiting' = Append(waiting, s)
            /\ UNCHANGED items

Receive == /\ items # <<>>
           /\ items' = Tail(items) \o SubSeq(waiting, 1, Min({1, Len(waiting)}))
           /\ waiting' = SubSeq(waiting, 2, Len(waiting))

Abandon(s) == /\ s \in ToSet(waiting)
              /\ waiting' = Without(waiting, s)
              /\ UNCHANGED items

Next == Receive \/ \E s \in Senders : Accept(s) \/ Queue(s) \/ Abandon(s)

Spec == Init /\ [][Next]_vars
=============================================================================
