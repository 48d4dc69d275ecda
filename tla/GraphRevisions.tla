---------------------------- MODULE GraphRevisions ----------------------------
(*****************************************************************************)
(* What the typed knowledge graph promises about its history: an operation    *)
(* becomes a revision at most once, and snapshots form a contiguous history,  *)
(* so that no revision is built on one that was never published. Only the     *)
(* very first revision may be built while revision zero is unpublished; such  *)
(* a history is never published again.                                        *)
(*****************************************************************************)
EXTENDS Integers, Sequences

VARIABLES
    chain,               \* the operations applied, oldest first
    published            \* the newest published revision, -1 for none

revisionVars == <<chain, published>>

RevisionsInit == chain = <<>> /\ published = -1

\* One operation joins the history; it is none of those already there.
Apply ==
    /\ published = Len(chain) \/ chain = <<>>
    /\ Len(chain') = Len(chain) + 1
    /\ \A i \in 1..Len(chain) :
        /\ chain'[i] = chain[i]
        /\ chain'[i] # chain'[Len(chain) + 1]
    /\ UNCHANGED published

Publish ==
    /\ published = Len(chain) - 1
    /\ published' = Len(chain)
    /\ UNCHANGED chain

RevisionsSpec == RevisionsInit /\ [][Apply \/ Publish]_revisionVars
===============================================================================
