------------------------------- MODULE MCDrafts -------------------------------
EXTENDS Drafts

\* Bounds: what can come between one turn and its messages.
Everything == [stops |-> 1, crashes |-> 1, shutdowns |-> 1, faults |-> 1]
===============================================================================
