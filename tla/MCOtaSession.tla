----------------------------- MODULE MCOtaSession -----------------------------
(* OtaSession with uploads that name no start and uploads to an offset. *)
EXTENDS OtaSession

MCStarts == {-1, 1}
=============================================================================
