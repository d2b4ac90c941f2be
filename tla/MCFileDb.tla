------------------------------ MODULE MCFileDb ------------------------------
(* A directory with two files, and one in a directory below it.            *)
EXTENDS FileDb

CONSTANTS a, b, sub

MCFile == {a, b, sub}
MCTop == {a, b}
=============================================================================
