---------------------------- MODULE MCLiveStream ----------------------------
(* A person with one page, and few changes, sessions and troubles.         *)
EXTENDS LiveStream
=============================================================================
