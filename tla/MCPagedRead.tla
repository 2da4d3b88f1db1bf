---------------------------- MODULE MCPagedRead ----------------------------
(* PagedRead for TLC: every length up to four pages, and the default one. *)
EXTENDS PagedRead

MCSizes == -1..12
=============================================================================
