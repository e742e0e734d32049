---------------------------- MODULE MCReauthTimer ----------------------------
(* ReauthTimer for TLC: the constants get their values in the .cfg files.    *)
EXTENDS ReauthTimer
=============================================================================
