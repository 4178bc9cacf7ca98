--------------------------- MODULE MCDurableStore ---------------------------
(* DurableStore on a small instance: a text of one chunk and one of two. *)
EXTENDS DurableStore

CONSTANTS short, long

MCTexts == {short, long}
MCSize == [t \in MCTexts |-> IF t = short THEN 1 ELSE 2]
=============================================================================
