------------------------------ MODULE MCUpload ------------------------------
(* TLC instance of two requests on one upload session of a local blob store: bodies
   of one byte, "a" or "b", and a limit of two. *)
EXTENDS OCIUpload

OneByte == {<<"a">>, <<"b">>}
TwoBytes == {<<"a", "b">>}
=============================================================================
