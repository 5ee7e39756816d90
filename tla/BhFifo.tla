------------------------------- MODULE BhFifo -------------------------------
(***************************************************************************)
(* What the bottom-half queue of kernel/drivers/irq.c promises: the work   *)
(* that interrupt handlers offer is taken in the order it was accepted,    *)
(* each piece once, and an offer is refused only when Room pieces wait.    *)
(***************************************************************************)
EXTENDS Naturals, Sequences

CONSTANTS Work, Room, None

VARIABLES
  queue,    \* the accepted work, oldest first
  offer,    \* the work an interrupt handler is about to queue, or None
  running   \* the work taken out and being run, or None

vars == <<queue, offer, running>>

Init == queue = <<>> /\ offer = None /\ running = None

Offer(w) == offer = None /\ offer' = w /\ UNCHANGED <<queue, running>>

Accept ==
  /\ offer # None
  /\ queue' = IF Len(queue) < Room THEN Append(queue, offer) ELSE queue
  /\ offer' = None
  /\ UNCHANGED running

Take ==
  /\ running = None /\ queue # <<>>
  /\ running' = Head(queue)
  /\ queue' = Tail(queue)
  /\ UNCHANGED offer

Finish == running # None /\ running' = None /\ UNCHANGED <<queue, offer>>

Next == (\E w \in Work : Offer(w)) \/ Accept \/ Take \/ Finish

Spec == Init /\ [][Next]_vars
=============================================================================
