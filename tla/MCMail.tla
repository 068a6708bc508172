------------------------------- MODULE MCMail -------------------------------
(***************************************************************************)
(* Deliveries about two addresses, and a mail to one of them.              *)
(***************************************************************************)
EXTENDS Mail, TLC

CONSTANTS a1, a2, e1, e2, p1, p2, j1

\* A bounce of both addresses, and a complaint of the first.
BounceKind == (e1 :> "permanent") @@ (e2 :> "complaint")
BounceTo == (e1 :> {a1, a2}) @@ (e2 :> {a1})

MCRecipient == [j \in Job |-> a1]
MCIntent == [j \in Job |-> "link"]
=============================================================================
