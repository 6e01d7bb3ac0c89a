--------------------------- MODULE MC_MessagingApi ---------------------------
(***************************************************************************)
(* Small instances of MessagingApi for TLC.                                *)
(***************************************************************************)
EXTENDS MessagingApi

CONSTANTS ann, bob, cid, d1, d2, ghost, nil

Direct(u, v) == [row |-> [type |-> "direct", createdBy |-> u], members |-> {u, v}]

(* A dialog of two users exists, created by ann. *)
OneOpened == d1 :> Direct(ann, bob)

(* Two dialogs that share one participant. *)
TwoOpened == d1 :> Direct(ann, bob) @@ d2 :> Direct(ann, cid)

(* A single participant, a repetition with the nil id, an unknown account. *)
SomeInvitations == {{}, {bob, nil}, {ann, ghost}}

Symmetry == Permutations(Requests)

=============================================================================
