------------------------------ MODULE FairLock ------------------------------
(***************************************************************************)
(* What the fair mutex promises: a lock with an owner and a line.  A task  *)
(* takes the lock only when nobody owns it (and then nobody is in line);   *)
(* otherwise it joins the end of the line, and an owner that lets go hands *)
(* the lock to the task at the front.  A task may leave the line.          *)
(***************************************************************************)
EXTENDS FutexOps

CONSTANT Tasks

VARIABLES owner,    \* the task that owns the lock, or Null
          line      \* the tasks waiting for it, the oldest first

vars == <<owner, line>>

Init == /\ owner = Null
        /\ line = <<>>

(* Nobody barges: a free lock has an empty line. *)
Take(t) == /\ owner = Null
           /\ line = <<>>
           /\ owner' = t
           /\ UNCHANGED line

Join(t) == /\ owner # Null
           /\ t \notin ToSet(line) \union {owner}
           /\ line' = Append(line, t)
           /\ UNCHANGED owner

HandOff == /\ owner # Null
           /\ line # <<>>
           /\ owner' = Head(line)
           /\ line' = Tail(line)

Release == /\ owner # Null
           /\ line = <<>>
           /\ owner' = Null
           /\ UNCHANGED line

Abandon(t) == /\ t \in ToSet(line)
              /\ line' = Without(line, t)
              /\ UNCHANGED owner

Next == \/ HandOff
        \/ Release
        \/ \E t \in Tasks : Take(t) \/ Join(t) \/ Abandon(t)

Spec == Init /\ [][Next]_vars
=============================================================================
