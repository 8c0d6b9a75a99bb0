------------------------------ MODULE BlobStore ------------------------------
(***************************************************************************)
(* The blob store (knowledge/blob.ts), one key: writers that write a file  *)
(* of their own, sync it and link it to the place that the hash of the     *)
(* bytes names, readers that compare the hash, and a process that dies     *)
(* between any two calls of the file system.  The disk may spoil the file. *)
(***************************************************************************)
EXTENDS Integers, FiniteSets

CONSTANTS
  Writers, Readers,
  MaxSpoils,    \* bound on how often the disk spoils the file
  MaxFaults     \* bound on the calls that fail and the writers that die

BlobAssumption == MaxSpoils \in Nat /\ MaxFaults \in Nat

VARIABLES
  place,      \* what is at the destination: nothing, or a file whole or spoiled
  temporary,  \* what each writer has written
  pc,         \* where each writer is
  good,       \* whether the place was whole at some moment of its call
  answer,     \* what each reader got
  spoils, faults

vars == <<place, temporary, pc, good, answer, spoils, faults>>

Contents == {"none", "part", "whole", "spoiled"}

TypeOK ==
  /\ place \in Contents
  /\ temporary \in [Writers -> {"none", "part", "whole"}]
  /\ pc \in [Writers -> {"idle", "write", "link", "check", "unlink", "failing",
                       "done", "failed", "dead"}]
  /\ good \in [Writers -> BOOLEAN]
  /\ answer \in [Readers -> {"none", "bytes", "error"}]
  /\ spoils \in 0..MaxSpoils /\ faults \in 0..MaxFaults

Init ==
  /\ place = "none"
  /\ temporary = [w \in Writers |-> "none"] /\ pc = [w \in Writers |-> "idle"]
  /\ good = [w \in Writers |-> FALSE] /\ answer = [r \in Readers |-> "none"]
  /\ spoils = 0 /\ faults = 0

-----------------------------------------------------------------------------

Fails == faults < MaxFaults /\ faults' = faults + 1
Succeeds == UNCHANGED faults
To(w, step) == pc' = [pc EXCEPT ![w] = step]
Holds(w, content) == temporary' = [temporary EXCEPT ![w] = content]
\* Every writer under way takes note of what is at the place now.
Witness == good' = [w \in Writers |-> good[w] \/ place' = "whole"]

\* put opens its own file, which nobody else has.
Open(w) ==
  /\ pc[w] = "idle"
  /\ \/ To(w, "write") /\ Holds(w, "part") /\ Succeeds
     \/ To(w, "failed") /\ Fails /\ UNCHANGED temporary
  /\ good' = [good EXCEPT ![w] = place = "whole"]
  /\ UNCHANGED <<place, answer, spoils>>

\* The bytes are written and synced, or a part of them.
Write(w) ==
  /\ pc[w] = "write"
  /\ \/ To(w, "link") /\ Holds(w, "whole") /\ Succeeds
     \/ To(w, "failing") /\ Fails /\ UNCHANGED temporary
  /\ UNCHANGED <<place, good, answer, spoils>>

ReadyToLink(w) == pc[w] = "link"

\* A slip: what is there already is taken to be good.
NoCheck == "unlink"

\* What is there already is read and compared.
OnExist == "check"

\* link puts the file at its place, unless there is one.
Link(w) ==
  /\ ReadyToLink(w)
  /\ \/ place = "none" /\ place' = temporary[w] /\ To(w, "unlink") /\ Succeeds
     \/ place # "none" /\ To(w, OnExist) /\ UNCHANGED place /\ Succeeds
     \/ To(w, "failing") /\ UNCHANGED place /\ Fails
  /\ Witness
  /\ UNCHANGED <<temporary, answer, spoils>>

Check(w) ==
  /\ pc[w] = "check"
  /\ To(w, IF place = "whole" THEN "unlink" ELSE "failing")
  /\ UNCHANGED <<place, temporary, good, answer, spoils, faults>>

Cleans(w) == pc[w] \in {"unlink", "failing"}

\* At last the writer's own file is unlinked; an error of that is ignored.
Unlink(w) ==
  /\ pc[w] \in {"unlink", "failing"}
  /\ To(w, IF pc[w] = "unlink" THEN "done" ELSE "failed")
  /\ \/ Cleans(w) /\ Holds(w, "none") /\ Succeeds
     \/ Cleans(w) /\ UNCHANGED temporary /\ Fails
     \/ ~Cleans(w) /\ UNCHANGED temporary /\ Succeeds
  /\ UNCHANGED <<place, good, answer, spoils>>

Die(w) ==
  /\ pc[w] \in {"write", "link", "check", "unlink", "failing"} /\ Fails
  /\ To(w, "dead")
  /\ UNCHANGED <<place, temporary, good, answer, spoils>>

\* read compares the hash of what it finds.
Read(r) ==
  /\ answer' = [answer EXCEPT ![r] = IF place = "whole" THEN "bytes"
                                     ELSE IF place = "none" THEN "none" ELSE "error"]
  /\ UNCHANGED <<place, temporary, pc, good, spoils, faults>>

Spoil ==
  /\ place = "whole" /\ spoils < MaxSpoils /\ spoils' = spoils + 1
  /\ place' = "spoiled"
  /\ UNCHANGED <<temporary, pc, good, answer, faults>>

Next ==
  \/ \E w \in Writers : Open(w) \/ Write(w) \/ Link(w) \/ Check(w) \/ Unlink(w) \/ Die(w)
  \/ \E r \in Readers : Read(r)
  \/ Spoil

Spec == Init /\ [][Next]_vars

-----------------------------------------------------------------------------
(***************************************************************************)
(* Properties                                                              *)
(***************************************************************************)

\* A reader finds the whole content or none, whichever writers are at work or died: only
\* the disk can make a read fail.
OnlyTheDiskSpoils == \A r \in Readers : answer[r] = "error" => spoils > 0

\* The writers whose file nobody will remove.
LeftBehind == {w \in Writers : temporary[w] # "none" /\ pc[w] \in {"done", "failed", "dead"}}

\* Such files are left only by a death or a failed unlink.
LeftByFaults == Cardinality(LeftBehind) <= faults

\* put returns only if the content was at its place at some moment of the call, though
\* another writer was faster or what it found there is spoiled; what writers leave behind,
\* whole or in part, is no more than the deaths and failures, and never at that place.
PutWasThere ==
  /\ \A w \in Writers : pc[w] = "done" => good[w]
  /\ OnlyTheDiskSpoils /\ LeftByFaults
=============================================================================
