---------------------------- MODULE MCNegotiate ----------------------------
(* The real constants of the crate, and values around every bound. *)
EXTENDS Negotiate

MCConfigs ==
    [blksize : {0, 7, 8, 512, 65464, 65465}, timeout : {0, 1, 255, 256},
     windowsize : {0, 1, 2, 65535}]

MCFileSizes == {0, 70000}

\* Values a u16 cannot hold, and answers that leave options out.
MCForeignOacks ==
    {[name \in S |-> v] : S \in {{}, {"blksize"}, {"timeout", "windowsize"},
                                 {"tsize"}}, v \in {16, 65536}}
=============================================================================
