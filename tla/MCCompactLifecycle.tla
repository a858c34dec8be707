------------------------- MODULE MCCompactLifecycle -------------------------
(* CompactLifecycle with two severe findings, one of them located outside  *)
(* the frozen genesis paths, and a targeted validator whose follow-ups can *)
(* be well-formed (noted) or lack their proof (unproved).                  *)
EXTENDS CompactLifecycle

CONSTANTS inside, outside, noted, unproved

MCFinding == {inside, outside}
MCInGenesis == {inside}
MCObservation == {noted, unproved}
MCMalformed == {unproved}

=============================================================================
