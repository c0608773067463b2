-------------------------- MODULE MCIngestRegistry --------------------------
(* An observer that calls back from the ends and the stops, as the tests' do. *)
EXTENDS IngestRegistry, TLC

MCReenters == {"stopping", "ended"}
=============================================================================
