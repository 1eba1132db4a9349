--------------------------- MODULE MCAttachments ---------------------------
(***************************************************************************)
(* Instances of Attachments.  Goroutines, memos and attachments are        *)
(* interchangeable.                                                        *)
(***************************************************************************)
EXTENDS Attachments, TLC

MCSymmetry ==
    Permutations(Procs) \cup Permutations(AttachmentIds) \cup Permutations(Memos)
=============================================================================
