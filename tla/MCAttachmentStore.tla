------------------------- MODULE MCAttachmentStore -------------------------
(***************************************************************************)
(* Two transaction handles, two calendar objects with different UIDs in  *)
(* one home, one attachment name, one-chunk bodies of two kinds.          *)
(***************************************************************************)
EXTENDS AttachmentStore

MCObjUid == [o \in Objs |-> o]

=============================================================================
