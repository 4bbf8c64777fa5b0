----------------------------- MODULE MCAttachments -----------------------------
(* Instances of Attachments for TLC. *)
EXTENDS Attachments

CONSTANTS e1, n1, pdf, note, u1, w1, w2

\* A PDF of as many pages as are allowed and a text, of one block each.
MCSize == [d \in Docs |-> 1]
MCPages == [d \in Docs |-> IF d = pdf THEN MaxPages ELSE 0]

=============================================================================
