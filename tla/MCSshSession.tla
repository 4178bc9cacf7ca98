---------------------------- MODULE MCSshSession ----------------------------
(* SshSession on a small instance: hosts are interchangeable. *)
EXTENDS SshSession, TLC

HostSymmetry == Permutations(Hosts)
=============================================================================
