--------------------------- MODULE PacketChannel ---------------------------
(***************************************************************************)
(* What a client may expect of a connection as a channel for packets: the  *)
(* broker handles what the client wrote, packet by packet, in order, each  *)
(* with the meaning the client gave it, and does not close the connection  *)
(* while an acceptable packet is under way, but for the packets that may   *)
(* end it: DISCONNECT, and those a handler may fail on.                    *)
(***************************************************************************)
EXTENDS Naturals, Sequences

VARIABLES sent,    \* the packets the client wrote: what each means, whether it
                   \* may be handled, whether it may end the connection
          got,     \* what the broker handled
          open,    \* the broker reads the connection
          broken   \* the client's end is gone, and with it a part of sent

vars == <<sent, got, open, broken>>

Init ==
    /\ sent = <<>>
    /\ got = <<>>
    /\ open = TRUE
    /\ broken = FALSE

NextPacket == Len(got) + 1
Acceptable == NextPacket <= Len(sent) /\ sent[NextPacket].acceptable

\* The client writes one more packet.
Send ==
    /\ ~broken
    /\ Len(sent') = Len(sent) + 1
    /\ SubSeq(sent', 1, Len(sent)) = sent
    /\ UNCHANGED <<got, open, broken>>

Break ==
    /\ broken' = TRUE
    /\ UNCHANGED <<sent, got, open>>

\* The next packet is handled; it is the last one only if it may end the
\* connection, or if the client is gone and cannot be answered.
Pass ==
    /\ open /\ Acceptable
    /\ got' = Append(got, sent[NextPacket].meaning)
    /\ open' \in BOOLEAN
    /\ ~open' => broken \/ sent[NextPacket].final
    /\ UNCHANGED <<sent, broken>>

\* The broker stops reading: there was nothing to read, or something it may
\* not handle, or the client is gone.
Close ==
    /\ open
    /\ broken \/ ~Acceptable
    /\ open' = FALSE
    /\ UNCHANGED <<sent, got, broken>>

Next == Send \/ Break \/ Pass \/ Close

Spec == Init /\ [][Next]_vars /\ WF_vars(Pass)

=============================================================================
