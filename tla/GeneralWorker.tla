--------------------------- MODULE GeneralWorker ---------------------------
(***************************************************************************)
(* The worker thread of the general protocol (protocol/general/general.c   *)
(* with rs485_send_handle_frame and rs485_recv_handle_frame of rs485.c).   *)
(***************************************************************************)
EXTENDS WorkQueue

CONSTANTS
    MaxRetrans,    \* BUS_MAX_RETRANSMISSION
    UintMod        \* width of retransmission; small enough here to wrap

\* sends: send_handle is set; reply: except_reply; waits: timeout_ms is not 0.
KindType == [sends : BOOLEAN, reply : BOOLEAN, waits : BOOLEAN,
             retransmission : 0..(UintMod - 1)]

\* What the callers of the general protocol hand in, and the widths.
MessagesFit ==
    /\ Kinds \subseteq KindType
    /\ MaxRetrans \in Nat \ {0} /\ UintMod \in Nat /\ UintMod > MaxRetrans

VARIABLES
    left,       \* retransmission of the message in hand
    error,      \* did the last step of the pass fail
    passes,     \* passes made for the message in hand (history)
    answered    \* messages whose exchange succeeded (history)

wvars == <<left, error, passes, answered>>
vars == <<qvars, pc, wvars>>

Init == InitQueue /\ left = 0 /\ error = FALSE /\ passes = 0 /\ answered = {}

\* The passes the loop makes for the message in hand when all of them fail.
Limit ==
    IF Ask.retransmission = 0 THEN UintMod
    ELSE IF Ask.retransmission > MaxRetrans THEN MaxRetrans ELSE Ask.retransmission

-----------------------------------------------------------------------------
\* Mutant: retransmission is not clamped.
PeekUnclamped ==
    /\ Found("send")
    /\ left' = Ask.retransmission
    /\ error' = FALSE /\ passes' = 0
    /\ UNCHANGED answered

\* Ringbuf_Peek, and the clamp of retransmission.
Peek ==
    /\ Found("send")
    /\ left' = IF Ask.retransmission > MaxRetrans THEN MaxRetrans ELSE Ask.retransmission
    /\ error' = FALSE /\ passes' = 0
    /\ UNCHANGED answered

\* rs485_send_handle_frame: no send_handle, no frame, or a short write, and the
\* message is given up; a frame that is out is followed by the wait for the reply,
\* if one is expected, or else by the end of the pass.
Send ==
    /\ \/ GoTo("send", "pop") /\ error' = TRUE /\ UNCHANGED answered
       \/ /\ GoTo("send", "recv") /\ Ask.sends /\ Ask.reply
          /\ error' = FALSE /\ UNCHANGED answered
       \/ /\ GoTo("send", "end") /\ Ask.sends /\ ~Ask.reply
          /\ error' = FALSE /\ answered' = answered \cup {InHand}
    /\ passes' = passes + 1
    /\ UNCHANGED left

\* rs485_recv_handle_frame: a timeout of 0, an error of select or read, nothing in
\* time, or a frame recv_handle refuses, and the pass has failed.
Recv ==
    /\ GoTo("recv", "end")
    /\ \/ error' = TRUE /\ UNCHANGED answered
       \/ Ask.waits /\ error' = FALSE /\ answered' = answered \cup {InHand}
    /\ UNCHANGED <<left, passes>>

\* Mutant: the result of the pass is not looked at.
EndOfPassAlways ==
    /\ left' = (left - 1) % UintMod
    /\ GoTo("end", IF left' # 0 THEN "send" ELSE "pop")
    /\ UNCHANGED <<error, passes, answered>>

\* while (-- retransmission && error)
EndOfPass ==
    /\ left' = (left - 1) % UintMod
    /\ GoTo("end", IF left' # 0 /\ error THEN "send" ELSE "pop")
    /\ UNCHANGED <<error, passes, answered>>

-----------------------------------------------------------------------------
Worker == (Idle /\ UNCHANGED wvars) \/ Peek \/ Send \/ Recv \/ EndOfPass

Next == Worker \/ (Producing /\ UNCHANGED wvars)

Spec == Init /\ [][Next]_vars

\* The worker runs when it can, and a producer that has put a message posts.
FairSpec ==
    Spec /\ WF_vars(Worker) /\ \A p \in Producers : WF_vars(PostSem(p) /\ UNCHANGED wvars)

-----------------------------------------------------------------------------
(* Properties *)

\* The state has the types the code gives it.
TypeOK ==
    /\ QueueTypeOK
    /\ pc \in {"wait", "check", "send", "recv", "end", "pop"}
    /\ left \in 0..(UintMod - 1) /\ error \in BOOLEAN /\ passes \in 0..(UintMod + 1)
    /\ answered \subseteq 1..MaxMsgs

\* A message is sent as often as it asks, and at most BUS_MAX_RETRANSMISSION times.  One that
\* asks for 0 times slips under that limit: the unsigned counter is decremented before it is
\* tested (general.c:145), and the bus is held for as many passes as it has values.
PassesBounded == Handling => passes <= Limit

\* A frame is sent again only when an answer was expected and did not come, and never
\* once the exchange has succeeded: a repeated command would move a curtain twice.
RepeatIsDue == passes' = passes + 1 /\ passes > 0 => error /\ Ask.reply /\ InHand \notin answered
=============================================================================
