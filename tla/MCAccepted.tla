------------------------------- MODULE MCAccepted -------------------------------
(***************************************************************************)
(* Instance of AcceptedStage for TLC: one clone, two remotes, histories of *)
(* two records and one metadata, all three ways to synchronize.  With two  *)
(* records a call can end inside a phase, with a part of them done.        *)
(***************************************************************************)
EXTENDS AcceptedStage, TLC

OneRecord == {1}
TwoRecords == {1, 2}
AllModes == {"lazy", "full", "rebind"}

\* Remotes are interchangeable.
RemoteSymmetry == Permutations(Remote)

=============================================================================
