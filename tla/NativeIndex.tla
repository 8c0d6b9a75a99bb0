----------------------------- MODULE NativeIndex -----------------------------
(***************************************************************************)
(* Indexing the text of one revision in the RAG service (knowledge/        *)
(* nativeIndex.ts) with the loop of publish around it: look for a file of  *)
(* the revision's name, verify it, or embed the text under a new id, check *)
(* the vectors and save the file.  Workers may overlap (one that lost its  *)
(* lease goes on), die between any two steps, and miss the answer of what  *)
(* took effect; the service may lose its vectors.                          *)
(***************************************************************************)
EXTENDS Integers, FiniteSets

CONSTANTS
  Workers,
  MaxIds,       \* bound on the ids that are drawn
  MaxFaults,    \* bound on failed calls and crashes
  MaxLosses,    \* bound on the losses of vectors
  MaxOverlaps   \* bound on the calls that begin during another

IndexAssumption ==
  /\ MaxIds \in Nat \ {0} /\ MaxFaults \in Nat /\ MaxLosses \in Nat /\ MaxOverlaps \in Nat

VARIABLES
  vectors,    \* the ids whose vectors the service has
  files,      \* the ids with a file record of the revision's name
  drawn,      \* how many ids have been drawn
  pc,         \* where each worker is
  id,         \* the id it has in hand, 0 if none
  had,        \* the ids with vectors at some moment of its call
  indexed,    \* nativeFileIds of the revision
  faults,     \* how many calls failed or died
  losses,     \* how often the service lost vectors
  overlaps    \* how many calls began while another was under way

vars == <<vectors, files, drawn, pc, id, had, indexed, faults, losses, overlaps>>

Steps == {"idle", "verify", "embed", "check", "save", "publish"}

TypeOK ==
  /\ vectors \subseteq 1..drawn /\ files \subseteq 1..drawn /\ drawn \in 0..MaxIds
  /\ pc \in [Workers -> Steps] /\ id \in [Workers -> 0..drawn]
  /\ had \in [Workers -> SUBSET (1..drawn)]
  /\ indexed \subseteq files /\ faults \in 0..MaxFaults
  /\ losses \in 0..MaxLosses /\ overlaps \in 0..MaxOverlaps

Init ==
  /\ vectors = {} /\ files = {} /\ drawn = 0
  /\ pc = [w \in Workers |-> "idle"] /\ id = [w \in Workers |-> 0]
  /\ had = [w \in Workers |-> {}] /\ indexed = {} /\ faults = 0 /\ losses = 0 /\ overlaps = 0

-----------------------------------------------------------------------------

Faulty == faults < MaxFaults /\ faults' = faults + 1
To(w, step, i) == pc' = [pc EXCEPT ![w] = step] /\ id' = [id EXCEPT ![w] = i]
Busy(w) == \E v \in Workers \ {w} : pc[v] # "idle"

\* The files of the name; findOne returns any of them.
FindFile == files

\* publish calls index, unless the files it knows of verify.
Begin(w) ==
  /\ pc[w] = "idle" /\ (indexed = {} \/ ~ indexed \subseteq vectors)
  /\ Busy(w) => overlaps < MaxOverlaps
  /\ overlaps' = IF Busy(w) THEN overlaps + 1 ELSE overlaps
  /\ had' = [had EXCEPT ![w] = vectors]
  /\ \/ \E i \in FindFile : To(w, "verify", i)
     \/ FindFile = {} /\ To(w, "embed", 0)
  /\ UNCHANGED <<vectors, files, drawn, indexed, faults, losses>>

\* A slip: the record is enough.
VerifiesRecord(i) == i \in files

HasVectors(i) == i \in vectors
Verifies(i) == i \in files /\ HasVectors(i)

\* The file that was found is returned if its vectors are there.
Verify(w) ==
  /\ pc[w] = "verify"
  /\ IF Verifies(id[w]) THEN To(w, "publish", id[w]) ELSE To(w, "embed", 0)
  /\ UNCHANGED <<vectors, files, drawn, had, indexed, faults, losses, overlaps>>

\* The text is embedded under a new id; the answer may be lost, or nothing have happened.
Embed(w) ==
  /\ pc[w] = "embed" /\ drawn < MaxIds
  /\ drawn' = drawn + 1
  /\ \/ /\ vectors' = vectors \cup {drawn'}
        /\ had' = [v \in Workers |-> had[v] \cup {drawn'}]
        /\ \/ To(w, "check", drawn') /\ UNCHANGED faults
           \/ To(w, "idle", 0) /\ Faulty
     \/ UNCHANGED <<vectors, had>> /\ To(w, "idle", 0) /\ Faulty
  /\ UNCHANGED <<files, indexed, losses, overlaps>>

Check(w) ==
  /\ pc[w] = "check"
  /\ IF HasVectors(id[w]) THEN To(w, "save", id[w]) ELSE To(w, "idle", 0)
  /\ UNCHANGED <<vectors, files, drawn, had, indexed, faults, losses, overlaps>>

\* The file record is saved; its acknowledgement may be lost.
Save(w) ==
  /\ pc[w] = "save"
  /\ files' = files \cup {id[w]}
  /\ \/ To(w, "publish", id[w]) /\ UNCHANGED faults
     \/ To(w, "idle", 0) /\ Faulty
  /\ UNCHANGED <<vectors, drawn, had, indexed, losses, overlaps>>

\* publish verifies once more and writes the id down, unless the lease is lost.
Publish(w) ==
  /\ pc[w] = "publish"
  /\ \/ Verifies(id[w]) /\ indexed' = {id[w]}
     \/ (~Verifies(id[w]) \/ Busy(w)) /\ UNCHANGED indexed
  /\ To(w, "idle", 0)
  /\ UNCHANGED <<vectors, files, drawn, had, faults, losses, overlaps>>

\* A worker dies, or a call of it fails without effect.
Fail(w) ==
  /\ pc[w] # "idle" /\ Faulty
  /\ To(w, "idle", 0)
  /\ UNCHANGED <<vectors, files, drawn, had, indexed, losses, overlaps>>

\* The service loses the vectors of an id.
LoseVectors ==
  /\ losses < MaxLosses /\ losses' = losses + 1
  /\ \E i \in vectors : vectors' = vectors \ {i}
  /\ UNCHANGED <<files, drawn, pc, id, had, indexed, faults, overlaps>>

Next ==
  \/ \E w \in Workers : Begin(w) \/ Verify(w) \/ Embed(w) \/ Check(w) \/ Save(w)
                       \/ Publish(w) \/ Fail(w)
  \/ LoseVectors

Spec == Init /\ [][Next]_vars

-----------------------------------------------------------------------------
(***************************************************************************)
(* Properties                                                              *)
(***************************************************************************)

\* Vectors without a file that nobody has in hand.
Orphans == {i \in vectors \ files : \A w \in Workers : id[w] # i}

\* A retry finds what was done: as long as no vectors are lost, a text has a second file
\* only for an overlap, whatever failed or died before.  After a loss the file that lost
\* its vectors may be found instead of a good one, and each failure embeds again.  Orphans
\* were left by a failure.
NothingWasted ==
  /\ Cardinality(files) <= 1 + overlaps + (IF losses = 0 THEN 0 ELSE losses + faults)
  /\ Cardinality(Orphans) <= faults

\* A revision names only vectors that were there while it was being published, whatever
\* the service lost and whoever else was indexing.
NamedWereThere ==
  [][indexed' # indexed => \E w \in Workers : pc[w] = "publish" /\ indexed' = {id[w]}
                                              /\ id[w] \in had[w]]_vars
=============================================================================
