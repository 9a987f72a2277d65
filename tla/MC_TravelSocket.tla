---------------------------- MODULE MC_TravelSocket ----------------------------
(* Three requests on a socket that allows two at a time, so that the third is *)
(* refused or comes when an earlier one has ended.                            *)
EXTENDS TravelSocket
=============================================================================
