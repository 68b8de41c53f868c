----------------------------- MODULE JobRegistry -----------------------------
(***************************************************************************)
(* What registering jobs in a datastore promises, whatever the number of   *)
(* processes doing it and however they interleave:                         *)
(*                                                                         *)
(*   - the library of flowcharts only grows, and a digest enters it once;  *)
(*   - the register of jobs only grows, a job id enters it once, and a job *)
(*     enters it with a flowchart that is in the library.                  *)
(*                                                                         *)
(* The library is the committed part of the table "flowcharts" of          *)
(* seamm_datastore/database/models.py, the register that of "jobs".        *)
(***************************************************************************)

CONSTANT Null       \* the digest of a flowchart whose file states none

VARIABLES library,  \* the flowcharts: records [id, digest]
          register  \* the jobs: records [job, flowchart]

vars == <<library, register>>

\* A job that is there at first is there once, with a flowchart.
Init ==
    /\ \A d, e \in register : d.job = e.job => d = e
    /\ \A e \in register : \E g \in library : g.id = e.flowchart

\* Flowchart f is not in the library, nor is another one with its digest.
Unpublished(f) ==
    \A g \in library : g.id # f.id /\ (f.digest # Null => g.digest # f.digest)

\* No job of that id has entered, and its flowchart is there.
Enterable(e) ==
    /\ \A d \in register : d.job # e.job
    /\ \E g \in library : g.id = e.flowchart

Publish(f) ==
    /\ Unpublished(f)
    /\ library' = library \cup {f}

Enter(e) ==
    /\ Enterable(e)
    /\ register' = register \cup {e}

\* A flowchart is published first (its registration may yet fail), its job enters later.
Next ==
    \/ \E f \in library' \ library : Publish(f) /\ UNCHANGED register
    \/ \E e \in register' \ register : Enter(e) /\ UNCHANGED library

Spec == Init /\ [][Next]_vars

=============================================================================
