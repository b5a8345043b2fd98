----------------------------- MODULE MCLineage -----------------------------
(* A thread of two messages, its third version of which the second patch is a late reply
   without a version number, and someone else's resend of that patch. *)
EXTENDS Lineage

Letter == [thread |-> 2, sent |-> 4000, author |-> "a", subject |-> "C", kind |-> "patch",
           version |-> 1, explicit |-> FALSE, rfc |-> FALSE, resend |-> FALSE, ordinal |-> 1,
           total |-> 2, patch |-> "P", facts |-> TRUE, change |-> None, refs |-> <<>>]

M1 == [Letter EXCEPT !.kind = "cover", !.ordinal = 0, !.patch = None]
M2 == [Letter EXCEPT !.subject = "q", !.ordinal = 2, !.patch = "Q", !.refs = <<1>>]
M3 == [Letter EXCEPT !.thread = 1, !.sent = 4040, !.version = 3,
        !.explicit = TRUE, !.patch = "R", !.facts = FALSE, !.change = "I"]
M4 == [M3 EXCEPT !.version = 1, !.explicit = FALSE, !.ordinal = 2, !.subject = "q",
        !.refs = <<3>>]
M5 == [Letter EXCEPT !.thread = 3, !.sent = 4030, !.author = "b", !.resend = TRUE, !.ordinal = 2, !.patch = "Q"]

Full == <<M1, M2, M3, M4, M5>>
=============================================================================
