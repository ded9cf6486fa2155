------------------------------- MODULE MCLink -------------------------------
(***************************************************************************)
(* Instances of Link for TLC: the credits and the numbers of messages.     *)
(***************************************************************************)
EXTENDS Link

OneFromAfu == [l \in AfuLines |-> 1]
OneFromOcse == [l \in HostLines |-> 1]

OneOnEachLine == [cmd |-> 1, resp |-> 1, cfg |-> 1, afu |-> 1]
TwoConfigsAndWrite == [cmd |-> 1, resp |-> 0, cfg |-> 2, afu |-> 0]
=============================================================================
