------------------------------ MODULE MCEngine ------------------------------
(***************************************************************************)
(* A finite instance of Engine: an interactive generation, a batch that    *)
(* was orphaned by a reconnect, and the batch of the next connection, with *)
(* two units that sample alike and one that does not; or two interactive   *)
(* generations.                                                            *)
(***************************************************************************)
EXTENDS Engine

CONSTANTS chat, chat2, orphan, batch

MCWork ==
    [t \in Threads |->
        CASE t = chat -> <<1>>
          [] t = chat2 -> <<2>>
          [] t = orphan -> <<2, 3>>
          [] t = batch -> <<4, 5, 6>>]

MCTemperature == [i \in 1 .. 6 |-> IF i = 6 THEN 0 ELSE 7]
=============================================================================
