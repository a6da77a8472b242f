----------------------------- MODULE MCMultipart -----------------------------
(***************************************************************************)
(* Upload with a field and two files, of two chunks and of none.           *)
(***************************************************************************)
EXTENDS Upload

TwoFiles ==
    <<"field", "head", "chunk", "chunk", "eof", "head", "eof", "close">>
=============================================================================
