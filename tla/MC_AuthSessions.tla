---------------------------- MODULE MC_AuthSessions ----------------------------
(* Two requests at a time on a user who has one session to begin with, and     *)
(* creates three more by logging in or refreshing.                             *)
EXTENDS AuthSessions
==============================================================================
