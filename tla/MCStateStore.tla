--------------------------- MODULE MCStateStore ---------------------------
(* A text with a secret in it, the same text redacted, and another text.    *)
EXTENDS StateStore

Texts == {"secret", "redacted", "other"}
RedactText == [c \in Texts |-> IF c = "secret" THEN "redacted" ELSE c]
=============================================================================
