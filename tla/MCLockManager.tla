--------------------------- MODULE MCLockManager ---------------------------
(***************************************************************************)
(* Three tasks over three ids, each call for two of them, as a trade locks *)
(* two users: the three pairs are what a circular wait of three needs.     *)
(***************************************************************************)
EXTENDS LockManagerProperties

MCRequests == {{1, 2}, {2, 3}, {1, 3}}
=============================================================================
