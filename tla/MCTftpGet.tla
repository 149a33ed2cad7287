----------------------------- MODULE MCTftpGet -----------------------------
(* Small instances of TftpGet: files of a few bytes, blocks of one or two. *)
EXTENDS TftpGetProofs

Config(b, w, r) ==
    [blksize |-> b, timeout |-> 1, windowsize |-> w, retries |-> r, resume |-> 0]

File(n) == [status |-> "file", len |-> n]
Missing == [status |-> "missing", len |-> 0]
Escape == [status |-> "escape", len |-> 0]

\* Lockstep, the same asked for with windowsize 0, a window, and no attempt;
\* lockstep without and with --resume (1: see commands.rs:31).
MixedConfigs ==
    {Config(2, 1, 2), Config(2, 0, 1), Config(4, 3, 1), Config(2, 1, 0)}
LockstepConfigs == {Config(2, 1, 2)}
ResumedConfig == {[c EXCEPT !.resume = 1] : c \in LockstepConfigs}
MaybeResumedConfigs == LockstepConfigs \cup ResumedConfig

WindowConfigs == {Config(1, 2, 2)}

\* With BlockMod = 4 and blocks of two bytes the numbers wrap from 6 bytes on;
\* with blocks of four bytes all these files fit.
MixedFiles == {File(n) : n \in {0, 2, 5, 8, 11}} \cup {Missing, Escape}
FiveBytes == {File(5)}
NineBytes == {File(9)}
SmallFiles == {File(n) : n \in {0, 1, 2, 5}} \cup {Missing, Escape}
=============================================================================
