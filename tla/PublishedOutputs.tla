------------------------- MODULE PublishedOutputs -------------------------
(***************************************************************************)
(* What the readers of a processed file are promised (apps/maps and        *)
(* apps/models3d, and the "Recovery And Worker Ownership" section of the   *)
(* README): the generated outputs of a file appear all at once, they are   *)
(* the complete outputs of one execution, and they do not change any more. *)
(***************************************************************************)
CONSTANT
  Source    \* what may have produced the outputs: an execution, or an older release

VARIABLES
  keys,     \* the generated objects a reader derives from the file's format
  ready,    \* readers are shown the file
  content   \* key -> who wrote the object they find there

promise == <<keys, ready, content>>

Complete(s) == [k \in keys |-> s]

PromiseInit ==
  \/ ready = FALSE /\ content = <<>>
  \/ ready = TRUE /\ \E s \in Source : content = Complete(s)

Publish ==
  /\ ~ ready
  /\ ready' = TRUE
  /\ \E s \in Source : content' = Complete(s)
  /\ UNCHANGED keys

PromiseSpec == PromiseInit /\ [][Publish]_promise
===========================================================================
