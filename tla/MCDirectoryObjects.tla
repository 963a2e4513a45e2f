-------------------------- MODULE MCDirectoryObjects --------------------------
(* An instance of DirectoryObjects with two names.                         *)
EXTENDS DirectoryObjects

CONSTANTS n1, n2

OneName == {n1}
TwoNames == {n1, n2}
=============================================================================
