----------------------------- MODULE MCDetector -----------------------------
(***************************************************************************)
(* Instances of Detector for TLC.                                          *)
(***************************************************************************)
EXTENDS Detector, TLC

CONSTANTS p1, p2, f1, f2, x1

(* One path with an extension and one without. *)
MCExtOf == (f1 :> x1) @@ (f2 :> NoExt)

(* A few messages of any sort, at one threshold; or more opens over a      *)
(* longer time by one pid, under changing thresholds.                      *)
Wide == total.events + total.lost <= 3 /\ now <= 2 /\ threshold = 2
Deep ==
  /\ total.events = stats[p1].total_opens
  /\ file_counts[f2] = 0
  /\ stats[p1].ppid = DefaultStats.ppid
  /\ total.lost = 0

MCSpec ==
  /\ Init /\ (Wide \/ Deep)
  /\ [][Next /\ (Wide \/ Deep)']_vars

=============================================================================
