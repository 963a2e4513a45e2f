---------------------------- MODULE MCSchemaTables ----------------------------
(* Names for SchemaTables.                                                 *)
EXTENDS SchemaTables

CONSTANTS a, b

\* NULL, the empty list, and every list of at most two names, which may be the
\* same one.
ShortLists == {NULL, <<>>, <<a>>, <<b>>} \cup (Names \X Names)
=============================================================================
