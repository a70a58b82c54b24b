---------------------------- MODULE MediaObject ----------------------------
(***************************************************************************)
(* What the media component promises about one uploaded image, with no     *)
(* rows, leases or calls: the image is reserved, then either retained or   *)
(* retired, and what was retired ends up deleted.  Its private sealed      *)
(* object is erased only after that retirement, which is final; while the  *)
(* image is retained the object is there.                                  *)
(***************************************************************************)
VARIABLES
    phase,  \* reserved, retained, retiring or gone
    held    \* the store holds the sealed object

vars == <<phase, held>>

Init == \/ phase = "reserved" /\ held = FALSE
        \/ phase = "retained" /\ held = TRUE

\* A late writer may store the object in any phase.
Write == held' = TRUE /\ UNCHANGED phase

\* Only an image whose object is there is retained.
Retain == /\ phase = "reserved" /\ held
          /\ phase' = "retained" /\ UNCHANGED held

Retire == /\ phase \in {"reserved", "retained"}
          /\ phase' = "retiring" /\ UNCHANGED held

Erase == /\ phase \in {"retiring", "gone"}
         /\ held' = FALSE /\ UNCHANGED phase

Delete == phase = "retiring" /\ phase' = "gone" /\ UNCHANGED held

\* A writer that finds the image gone has its object deleted again.
Reopen == phase = "gone" /\ phase' = "retiring" /\ UNCHANGED held

Next == Write \/ Retain \/ Retire \/ Erase \/ Delete \/ Reopen

\* Retiring images are deleted.
Spec == Init /\ [][Next]_vars /\ WF_vars(Delete)
=============================================================================
