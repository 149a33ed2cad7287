------------------------------- MODULE Files -------------------------------
(***************************************************************************)
(* Files as sequences of bytes.  The i-th byte of the file a transfer      *)
(* copies is the number i, so that a byte tells where it belongs; a byte   *)
(* of a hole (what lies between the end of a file and a later write) and   *)
(* every byte of an older file is 0.                                       *)
(***************************************************************************)
EXTENDS Integers, Sequences

Lesser(a, b) == IF a <= b THEN a ELSE b
Greater(a, b) == IF a <= b THEN b ELSE a

SourceFile(len) == [i \in 1..len |-> i]
OldFile(len) == [i \in 1..len |-> 0]

\* f after AsyncWriteExt::write_all of n source bytes, those that follow the
\* first off ones, at file position pos.  Writing nothing changes nothing.
Written(f, pos, off, n) ==
    IF n = 0 THEN f
    ELSE [i \in 1..Greater(Len(f), pos + n) |->
             IF i > pos /\ i <= pos + n THEN off + (i - pos)
             ELSE IF i <= Len(f) THEN f[i] ELSE 0]

\* A write of source bytes that another thread has still to do.
Writes == [off : Nat, len : Nat]
NoWrite == [off |-> 0, len |-> 0]

\* The length of all blocks but the last of n bytes.
AllButLast(n, blksize) == ((n - 1) \div blksize) * blksize
=============================================================================
