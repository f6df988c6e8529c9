-------------------------- MODULE MCAttachmentFiles --------------------------
(* A small instance of AttachmentFiles alone. *)
EXTENDS AttachmentFiles

OneProcess == [t \in Workers |-> "desktop"]
=============================================================================
