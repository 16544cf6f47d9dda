--------------------------- MODULE MCCredentialStore ---------------------------
(* CredentialStore on a small instance: the fields can be exchanged, and so can
   the sessions. *)
EXTENDS CredentialStore, TLC

Symmetry == Permutations(Field) \union Permutations(Session)
================================================================================
