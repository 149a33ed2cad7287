------------------------------ MODULE FileCopy ------------------------------
(***************************************************************************)
(* What a TFTP transfer promises its user.  The source is handed over to   *)
(* the destination file in pieces, each of them when the one before it is  *)
(* in the file as a whole; the copy is at every moment an initial part of  *)
(* the source.  Success means that all of the source has been handed over: *)
(* the last piece may still be due, or stay due for ever if it cannot be   *)
(* written.  A finished transfer hands over nothing more.  A failed one    *)
(* may leave the copy truncated: the program truncates the old file as     *)
(* soon as the other side has answered.                                    *)
(***************************************************************************)
EXTENDS Integers, SequencesExt

VARIABLES
    source,  \* the bytes to be copied
    copy,    \* the bytes of the destination file
    due,     \* the bytes handed over that are not in the file yet
    status   \* "idle", "active", "ok" or "failed"

vars == <<source, copy, due, status>>

\* Bytes are told apart, not interpreted.
Bytes == Nat

Init ==
    /\ source \in Seq(Bytes)
    /\ copy \in Seq(Bytes)
    /\ due = <<>>
    /\ status = "idle"

\* The destination is created, or truncated.
Begin ==
    /\ status = "idle"
    /\ status' = "active"
    /\ copy' = <<>>
    /\ UNCHANGED <<source, due>>

\* The next piece of the source.
HandOver ==
    /\ due = <<>>
    /\ due' # <<>>
    /\ IsPrefix(copy \o due', source)
    /\ UNCHANGED <<source, copy>>

Continue ==
    /\ status = "active"
    /\ HandOver
    /\ UNCHANGED status

\* What is due gets into the file, or a part of it does: at any time, even when the
\* transfer has ended.
Write ==
    /\ \E n \in 1..Len(due) :
          /\ copy' = copy \o SubSeq(due, 1, n)
          /\ due' = SubSeq(due, n + 1, Len(due))
    /\ UNCHANGED <<source, status>>

\* The end of the source is handed over, or has been.
Complete ==
    /\ status = "active"
    /\ status' = "ok"
    /\ HandOver \/ UNCHANGED <<source, copy, due>>
    /\ copy' \o due' = source

Abort ==
    /\ status \in {"idle", "active"}
    /\ status' = "failed"
    /\ UNCHANGED <<source, copy, due>>

Next == Begin \/ Continue \/ Write \/ Complete \/ Abort

Spec == Init /\ [][Next]_vars
=============================================================================
