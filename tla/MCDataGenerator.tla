--------------------------- MODULE MCDataGenerator ---------------------------
(* TLC instances of DataGenerator. *)
EXTENDS DataGenerator
===============================================================================
