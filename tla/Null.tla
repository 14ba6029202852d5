-------------------------------- MODULE Null --------------------------------
(* The value of what is not there: a row, an object, a key, a request.     *)
CONSTANT None
=============================================================================
