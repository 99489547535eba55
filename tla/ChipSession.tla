----------------------------- MODULE ChipSession -----------------------------
(***************************************************************************)
(* What the expansion chip link promises, without ring buffer, flags or    *)
(* handshake.  The player opens a session for a song; within a session it  *)
(* sends commands (register writes, update and end-of-frame commands); the *)
(* chip emulation acts on them one at a time, in the order they were sent, *)
(* each once, and on nothing that was sent in another session.  Closing a  *)
(* session drops what the chip has not acted on yet and always completes.  *)
(***************************************************************************)
EXTENDS Naturals

CONSTANT Kinds          \* the kinds of commands a session carries

VARIABLES
    phase,              \* "off", "on", or "closing"
    session,            \* number of the current (or last) session
    sent,               \* commands sent in this session
    done,               \* commands the chip has acted on in this session
    heard               \* the last command acted on, with session and number

vars == <<phase, session, sent, done, heard>>

Init ==
    /\ phase = "off"
    /\ session = 0
    /\ sent = 0
    /\ done = 0
    /\ heard = [kind |-> "blank", sess |-> 0, n |-> 0]

Open ==
    /\ phase = "off"
    /\ phase' = "on"
    /\ session' = session + 1
    /\ sent' = 0
    /\ done' = 0
    /\ UNCHANGED heard

Send ==
    /\ phase = "on"
    /\ sent' = sent + 1
    /\ UNCHANGED <<phase, session, done, heard>>

Act ==
    /\ phase \in {"on", "closing"}
    /\ done < sent
    /\ \E k \in Kinds : heard' = [kind |-> k, sess |-> session, n |-> done]
    /\ done' = done + 1
    /\ UNCHANGED <<phase, session, sent>>

Close ==
    /\ phase = "on"
    /\ phase' = "closing"
    /\ UNCHANGED <<session, sent, done, heard>>

Closed ==
    /\ phase = "closing"
    /\ phase' = "off"
    /\ UNCHANGED <<session, sent, done, heard>>

Next == Open \/ Send \/ Act \/ Close \/ Closed

Spec == Init /\ [][Next]_vars /\ WF_vars(Closed)
=============================================================================
