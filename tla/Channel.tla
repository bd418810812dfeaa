------------------------------ MODULE Channel -------------------------------
(***************************************************************************)
(* What the framing of a CLI connection promises: a channel that delivers  *)
(* the messages of the client whole, once and in the order they were sent. *)
(***************************************************************************)
EXTENDS Naturals, Sequences

CONSTANT Message
VARIABLES sent, received

Init == sent = <<>> /\ received = <<>>

Send(m) == sent' = Append(sent, m) /\ UNCHANGED received

Deliver ==
    /\ Len(received) < Len(sent)
    /\ received' = Append(received, sent[Len(received) + 1])
    /\ UNCHANGED sent

Next == (\E m \in Message : Send(m)) \/ Deliver

Spec == Init /\ [][Next]_<<sent, received>>
=============================================================================
