------------------------------ MODULE LineOwner ------------------------------
(***************************************************************************)
(* What the bring-up promises of the one serial line that two users share:  *)
(* it goes from the AT dialogue to PPP at once, and back only by way of     *)
(* nobody, when PPP's session is closed and cannot come back by itself. PPP *)
(* has sessions on its own line only. The publisher is started on PPP's     *)
(* line, and from then on it stays PPP's. What is not promised has a name:  *)
(* PPP's line may become contested, when it is given up under a report of   *)
(* PPP that still goes on; then sessions begin and the publisher is started *)
(* whoever uses the line, until the session has ended. GsmPpp implements it.*)
(***************************************************************************)

VARIABLES
  owner,       \* of the line: the dialogue, ppp, nobody or contested
  session,     \* PPP has a session, or one that comes back by itself
  publishing   \* the publisher was started

vars == <<owner, session, publishing>>

Init == owner = "nobody" /\ session = FALSE /\ publishing = FALSE

Take ==
  /\ owner = "nobody"
  /\ owner' = "dialogue"
  /\ UNCHANGED <<session, publishing>>

\* The dialogue failed, or has reset the modem.
PutBack ==
  /\ owner = "dialogue"
  /\ owner' = "nobody"
  /\ UNCHANGED <<session, publishing>>

HandOver ==
  /\ owner = "dialogue"
  /\ owner' = "ppp"
  /\ UNCHANGED <<session, publishing>>

GiveUp ==
  /\ owner = "ppp" /\ ~session /\ ~publishing
  /\ owner' = "nobody"
  /\ UNCHANGED <<session, publishing>>

Contest ==
  /\ owner = "ppp" /\ ~publishing
  /\ owner' = "contested"
  /\ session' \in BOOLEAN
  /\ UNCHANGED publishing

Settle ==
  /\ owner = "contested" /\ ~publishing
  /\ owner' \in {"dialogue", "ppp", "nobody"}
  /\ session' = FALSE
  /\ UNCHANGED publishing

SessionBegins ==
  /\ owner \in {"ppp", "contested"}
  /\ session' = TRUE
  /\ UNCHANGED <<owner, publishing>>

SessionEnds ==
  /\ session' = FALSE
  /\ UNCHANGED <<owner, publishing>>

Publish ==
  /\ owner \in {"ppp", "contested"}
  /\ publishing' = TRUE
  /\ UNCHANGED <<owner, session>>

Next ==
  \/ Take \/ PutBack \/ HandOver \/ GiveUp \/ Contest \/ Settle
  \/ SessionBegins \/ SessionEnds \/ Publish

Spec == Init /\ [][Next]_vars

\* Sessions and the publisher need PPP's line: the dialogue is alone on its own.
DialogueIsAlone == owner \in {"dialogue", "nobody"} => ~session /\ ~publishing
=============================================================================
