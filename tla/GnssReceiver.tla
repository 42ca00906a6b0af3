---------------------------- MODULE GnssReceiver -----------------------------
(***************************************************************************)
(* The loop of the GNSS module (GNSSModule/src/Main.cpp) and the buffer of *)
(* its TCP client (include/TCPClient.hpp).                                 *)
(*                                                                         *)
(* The server writes a stream of fixes.  A fix is cut into Parts parts: the *)
(* words that are stored in shared memory (northing, easting, height) and,  *)
(* last, the checksum over the others.  Part n of the stream belongs to     *)
(* fix (n - 1) \div Parts, and the buffer is modelled by which part of the  *)
(* stream each of its places holds: 0 is a byte nobody wrote, for the       *)
(* client's constructor clears the buffer.  recv writes the front of the    *)
(* buffer and leaves the rest; when it fails or the connection was closed   *)
(* the code goes on with the buffer as it is.                               *)
(*                                                                         *)
(* The checksum is assumed to tell every fix that was cut or shifted from a *)
(* whole one.  It does not tell anything of a cleared buffer: the header    *)
(* length is then 0 and the CRC-32 of zeros is the 0 it is compared with.   *)
(*                                                                         *)
(* Every turn of the loop is taken as one the manager asked for.            *)
(***************************************************************************)
EXTENDS Integers

CONSTANTS
    Parts,      \* parts of a fix: the stored words and the checksum
    Cap,        \* places in the buffer
    MaxFix      \* bound on the fixes the server sends

ASSUME PartsAssumption ==
    /\ Parts \in Nat \ {0, 1} /\ Cap \in Nat /\ MaxFix \in Nat
    /\ Parts <= Cap

VARIABLES
    sent, got,  \* parts of the stream that were sent, and received
    buffer,     \* TCPClient::buffer
    pc,         \* where the module is
    word,       \* the word it stores next
    oem4        \* the fix in shared memory

vars == <<sent, got, buffer, pc, word, oem4>>

Places == 0 .. (Cap - 1)
Words == 0 .. (Parts - 2)

\* expected == actual
Cleared == \A j \in 0 .. (Parts - 1) : buffer[j] = 0
WholeFix ==
    /\ buffer[0] > 0 /\ (buffer[0] - 1) % Parts = 0
    /\ \A j \in 0 .. (Parts - 1) : buffer[j] = buffer[0] + j
Matches == Cleared \/ WholeFix

Init ==
    /\ sent = 0 /\ got = 0
    /\ buffer = [j \in Places |-> 0]
    /\ pc = "recv" /\ word = 0
    /\ oem4 = [w \in Words |-> 0]

\* The server sends a fix.
Send ==
    /\ sent + Parts <= Parts * MaxFix
    /\ sent' = sent + Parts
    /\ UNCHANGED <<got, buffer, pc, word, oem4>>

\* recv hands over what has arrived, as much of it as it likes.
Receive ==
    /\ pc = "recv"
    /\ \E k \in 1 .. Cap :
        /\ got + k <= sent
        /\ got' = got + k
        /\ buffer' = [j \in Places |-> IF j < k THEN got + 1 + j ELSE buffer[j]]
    /\ pc' = "check"
    /\ UNCHANGED <<sent, word, oem4>>

\* recv returns 0: the client connects anew, to a stream that begins with the
\* next fix, and the answer is the old buffer.
Reconnect ==
    /\ pc = "recv"
    /\ got' = sent
    /\ pc' = "check"
    /\ UNCHANGED <<sent, buffer, word, oem4>>

\* recv returns an error, which is printed; the answer is the old buffer.
Fail == pc = "recv" /\ pc' = "check" /\ UNCHANGED <<sent, got, buffer, word, oem4>>

\* A mutant of Check: the checksum is printed and not compared.
CheckNothing ==
    /\ pc = "check"
    /\ pc' = "store" /\ word' = 0
    /\ UNCHANGED <<sent, got, buffer, oem4>>

\* if (expected == actual); if not, the heartbeat is set all the same.
Check ==
    /\ pc = "check"
    /\ \/ Matches /\ pc' = "store" /\ word' = 0
       \/ ~Matches /\ pc' = "recv" /\ word' = word
    /\ UNCHANGED <<sent, got, buffer, oem4>>

\* *oem4 = ..., word by word; "kept" is the turn's end.
Store ==
    /\ pc = "store"
    /\ oem4' = [oem4 EXCEPT ![word] = buffer[word]]
    /\ \/ word < Parts - 2 /\ word' = word + 1 /\ pc' = "store"
       \/ word = Parts - 2 /\ word' = 0 /\ pc' = "kept"
    /\ UNCHANGED <<sent, got, buffer>>

EndTurn == pc = "kept" /\ pc' = "recv" /\ UNCHANGED <<sent, got, buffer, word, oem4>>

\* The process ends, at any time, and the manager starts a new one: a cleared
\* buffer and a new connection, on the same shared memory.
Restart ==
    /\ pc' = "recv" /\ word' = 0
    /\ buffer' = [j \in Places |-> 0]
    /\ got' = sent
    /\ UNCHANGED <<sent, oem4>>

Next ==
    \/ Send \/ Receive \/ Reconnect \/ Fail \/ Check \/ Store \/ EndTurn
    \/ Restart

Spec == Init /\ [][Next]_vars

(***************************************************************************)
(* Properties.                                                             *)
(***************************************************************************)
\* Every variable has its type.
TypeOK ==
    /\ sent \in 0 .. (Parts * MaxFix) /\ got \in 0 .. sent
    /\ buffer \in [Places -> 0 .. got]
    /\ pc \in {"recv", "check", "store", "kept"}
    /\ word \in Words
    /\ oem4 \in [Words -> 0 .. (Parts * MaxFix)]

\* However recv cuts the stream, and whatever older fixes it leaves in the
\* rest of the buffer, a turn that stores leaves the words of one fix, each in
\* its place, or those of a cleared buffer.
KeepsWholeFixes ==
    pc = "kept" =>
        \/ \A w \in Words : oem4[w] = 0
        \/ /\ oem4[0] > 0 /\ (oem4[0] - 1) % Parts = 0
           /\ \A w \in Words : oem4[w] = oem4[0] + w

\* GNSSModule/src/Main.cpp:49: what is stored is valid GPS data.
ValidatesWhatItStores == [][\A w \in Words : oem4'[w] # oem4[w] => oem4'[w] # 0]_vars
==============================================================================
