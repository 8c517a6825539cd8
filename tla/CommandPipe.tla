---------------------------- MODULE CommandPipe ----------------------------
(***************************************************************************)
(* What the control channel promises for an item (a command, a blob        *)
(* request, a voice packet) handed to Mumble.execute_command or to         *)
(* ControlStack.enqueue_audio: the item reaches the server at most once,   *)
(* and it is lost only where the transport is down or the item is of a     *)
(* kind the channel may lose (voice).  Order is not promised.              *)
(* ControlStack is shown to implement this specification.                  *)
(***************************************************************************)
CONSTANTS Items,    \* everything that can be handed to the channel
          Lossy     \* the items that may be lost while the transport is up

VARIABLES fate,     \* fate[i]: where item i is in its life
          up        \* the transport can carry bytes to the server

vars == <<fate, up>>

Fates == {"new", "pending", "delivered", "dropped"}

Init == /\ fate = [i \in Items |-> "new"]
        /\ up = FALSE

Submit(i) == /\ fate[i] = "new"
             /\ fate' = [fate EXCEPT ![i] = "pending"]
             /\ UNCHANGED up

Deliver(i) == /\ up
              /\ fate[i] = "pending"
              /\ fate' = [fate EXCEPT ![i] = "delivered"]
              /\ UNCHANGED up

Drop(i) == /\ ~up \/ i \in Lossy
           /\ fate[i] = "pending"
           /\ fate' = [fate EXCEPT ![i] = "dropped"]
           /\ UNCHANGED up

Transport == /\ up' \in BOOLEAN
             /\ UNCHANGED fate

Next == \/ Transport
        \/ \E i \in Items : Submit(i) \/ Deliver(i) \/ Drop(i)

Spec == Init /\ [][Next]_vars
=============================================================================
