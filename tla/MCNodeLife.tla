------------------------------- MODULE MCNodeLife -------------------------------
(***************************************************************************)
(* An instance of NodeLife for TLC: every mode of a certificate, and two   *)
(* providers, whose calls lockCert does not exclude.                       *)
(***************************************************************************)
EXTENDS NodeLife

MCInfos ==
    {[mode |-> "acme", lock |-> 1], [mode |-> "acme", lock |-> 2],
     [mode |-> "self", lock |-> 3], [mode |-> "file", lock |-> 4]}
===============================================================================
