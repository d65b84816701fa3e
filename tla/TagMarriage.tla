----------------------------- MODULE TagMarriage -----------------------------
(***************************************************************************)
(* What the registry promises about NFC tags, seen from the tags: each tag *)
(* is free or held by one lock.  Binding a tag is the only way to gain it; *)
(* a lock that takes another tag frees the one it had; a tag that is held  *)
(* changes hands only where MayMove says so.                               *)
(***************************************************************************)
CONSTANTS Locks, Tags, NoLock, MayMove

VARIABLE holder   \* the lock each tag is bound to

Init == holder = [t \in Tags |-> NoLock]

\* The one operation: afterwards l holds t, and only t.
Marry(t, l) ==
  /\ holder[t] \in {NoLock, l} \/ MayMove
  /\ holder' = [s \in Tags |-> IF s = t THEN l
                               ELSE IF holder[s] = l THEN NoLock
                               ELSE holder[s]]

Next == \E t \in Tags, l \in Locks : Marry(t, l)

Spec == Init /\ [][Next]_holder
==============================================================================
