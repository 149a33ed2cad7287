----------------------------- MODULE MCTftpPut -----------------------------
(* Small instances of TftpPut: files of a few bytes, blocks of one or two. *)
EXTENDS TftpPut

Config(b, w, r) ==
    [blksize |-> b, timeout |-> 1, windowsize |-> w, retries |-> r]

MixedConfigs == {Config(2, 1, 3), Config(2, 2, 2), Config(1, 1, 1), Config(2, 1, 0)}
PatientConfigs == {Config(2, 1, 4)}
=============================================================================
