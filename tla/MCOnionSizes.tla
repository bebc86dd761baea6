----------------------------- MODULE MCOnionSizes ------------------------------
(***************************************************************************)
(* A small instance of OnionSizes for TLC.                                 *)
(***************************************************************************)
EXTENDS OnionSizes

Ivs    == [aes_cbc |-> 4, aes_gcm |-> 2, xchacha20 |-> 3]
Tags   == [aes_cbc |-> 0, aes_gcm |-> 1, xchacha20 |-> 1]
Blocks == [aes_cbc |-> 4, aes_gcm |-> 1, xchacha20 |-> 1]
===============================================================================
