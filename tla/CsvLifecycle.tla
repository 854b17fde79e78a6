---------------------------- MODULE CsvLifecycle ----------------------------
(***************************************************************************)
(* What a CSV import promises its owner: the rows of an accepted file are  *)
(* booked from the first to the last, each once, by nobody in particular.  *)
(* CsvImport implements it with leases, checkpoints and retries.           *)
(***************************************************************************)
EXTENDS Naturals, Sequences

CONSTANTS Batches, Chunks

VARIABLES phase,  \* phase[b]: what became of the import
          booked  \* booked[b]: the chunks booked, in order

promises == <<phase, booked>>

Phase == {"none", "held", "importing", "complete", "failed", "gone"}

LifecycleInit ==
    /\ phase = [b \in Batches |-> "none"]
    /\ booked = [b \in Batches |-> <<>>]

Becomes(b, p) ==
    /\ phase' = [phase EXCEPT ![b] = p]
    /\ UNCHANGED booked

Hold(b) == phase[b] = "none" /\ Becomes(b, "held")

Accept(b) == phase[b] \in {"none", "held"} /\ Becomes(b, "importing")

BookChunk(b) ==
    /\ phase[b] = "importing"
    /\ Len(booked[b]) < Chunks
    /\ booked' = [booked EXCEPT ![b] = Append(@, Len(@) + 1)]
    /\ UNCHANGED phase

Finish(b) ==
    /\ phase[b] = "importing"
    /\ Len(booked[b]) = Chunks
    /\ Becomes(b, "complete")

Fail(b) == phase[b] = "importing" /\ Becomes(b, "failed")

\* The stage is dropped, or the last of the records is.
Drop(b) == phase[b] # "none" /\ Becomes(b, "gone")

LifecycleNext ==
    \E b \in Batches :
        Hold(b) \/ Accept(b) \/ BookChunk(b) \/ Finish(b) \/ Fail(b) \/ Drop(b)

LifecycleSpec == LifecycleInit /\ [][LifecycleNext]_promises
=============================================================================
