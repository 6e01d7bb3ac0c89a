----------------------------- MODULE MC_Accounts -----------------------------
(***************************************************************************)
(* Small instances of Accounts for TLC.                                    *)
(***************************************************************************)
EXTENDS Accounts, TLC

CONSTANTS ann, annBlank, bob, al, tiny, short, edge, long

(* "ann" and " ann " are one user name; "al" is too short for one. *)
Trims == ann :> ann @@ annBlank :> ann @@ bob :> bob @@ al :> al

NameBytes == ann :> 3 @@ annBlank :> 5 @@ bob :> 3 @@ al :> 2

(* 72 bytes are the longest password bcrypt hashes; long starts with edge. *)
Bytes == tiny :> 7 @@ short :> 8 @@ edge :> 72 @@ long :> 128

FirstBytes == tiny :> tiny @@ short :> short @@ edge :> edge @@ long :> edge

Symmetry == Permutations(Requests)

=============================================================================
