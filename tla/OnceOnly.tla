------------------------------ MODULE OnceOnly ------------------------------
(***************************************************************************)
(* What an idempotency record promises, without saying how: an operation   *)
(* takes effect once, and again only after the record of it was forgotten  *)
(* (it expired, or a failure was written over it).  The detailed modules   *)
(* that keep such records are shown to implement this one.                 *)
(***************************************************************************)
EXTENDS Naturals

CONSTANT Ops

VARIABLES
  done,       \* how often an operation has taken effect
  forgotten   \* operations whose record was lost at some time

OnceInit ==
  /\ done = [o \in Ops |-> 0]
  /\ forgotten = {}

Do(o) ==
  /\ done[o] = 0 \/ o \in forgotten
  /\ done' = [done EXCEPT ![o] = @ + 1]
  /\ UNCHANGED forgotten

Forget(o) ==
  /\ forgotten' = forgotten \cup {o}
  /\ UNCHANGED done

OnceNext == \E o \in Ops : Do(o) \/ Forget(o)

OnceSpec == OnceInit /\ [][OnceNext]_<<done, forgotten>>
=============================================================================
