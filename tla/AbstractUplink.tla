--------------------------- MODULE AbstractUplink ---------------------------
(***************************************************************************)
(* What the end-device MAC promises the application about its packets     *)
(* (spec sections 4.5 and 4.5a): packets are handed over one at a time;    *)
(* only the packet handed over last is ever transmitted; it gets at most   *)
(* one outcome, reported through the RequiredTransmissions trace with the  *)
(* number of transmissions it really used, and is not transmitted after   *)
(* it.  Handing over a new packet may declare the previous one failed, or  *)
(* leave it without an outcome; either way the previous packet is done.    *)
(***************************************************************************)
EXTENDS Naturals, Sequences

CONSTANT MaxPackets

VARIABLES
    submitted,  \* packets handed to Send so far (the last one is the current one)
    sent,       \* frames of each packet handed to the radio
    reports     \* the outcomes reported: [pkt, success, txs]

vars == <<submitted, sent, reports>>

Packets == 1..MaxPackets

Reported(p) == \E i \in 1..Len(reports) : reports[i].pkt = p

\* The current packet still has no outcome and can be transmitted.
Live(p) == p = submitted /\ p \in Packets /\ ~Reported(p)

Outcome(p, success) == [pkt |-> p, success |-> success, txs |-> sent[p]]

Init ==
    /\ submitted = 0
    /\ sent = [p \in Packets |-> 0]
    /\ reports = << >>

\* The application hands over the next packet.  A previous packet still
\* without an outcome is declared failed or left; the new one may go out at
\* once.
Submit ==
    /\ submitted < MaxPackets
    /\ submitted' = submitted + 1
    /\ \/ reports' = reports
       \/ Live(submitted) /\ sent[submitted] > 0
          /\ reports' = Append(reports, Outcome(submitted, FALSE))
    /\ \/ sent' = sent
       \/ sent' = [sent EXCEPT ![submitted + 1] = 1]

\* A frame of the current packet goes to the radio.
Transmit ==
    /\ Live(submitted)
    /\ sent' = [sent EXCEPT ![submitted] = @ + 1]
    /\ UNCHANGED <<submitted, reports>>

\* The current packet, sent at least once, gets its outcome.
Report ==
    /\ Live(submitted) /\ sent[submitted] > 0
    /\ \E success \in BOOLEAN : reports' = Append(reports, Outcome(submitted, success))
    /\ UNCHANGED <<submitted, sent>>

Next == Submit \/ Transmit \/ Report

Spec == Init /\ [][Next]_vars
=============================================================================
