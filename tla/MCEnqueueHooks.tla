---------------------------- MODULE MCEnqueueHooks ----------------------------
(* Small instances of EnqueueHooks for TLC. *)
EXTENDS EnqueueHooks, TLC

UserSymmetry == Permutations(User)
HookSymmetry == Permutations(User) \union Permutations(Connector)
                    \union Permutations(Product)
===============================================================================
