------------------------------- MODULE MCPage -------------------------------
(* An instance of Page: two writes under way at a time; four calls for three *)
(* targets through two places, and a cache of one.                           *)
EXTENDS Page
=============================================================================
