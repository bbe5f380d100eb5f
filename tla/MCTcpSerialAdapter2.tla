------------------------- MODULE MCTcpSerialAdapter2 -------------------------
(* Request tables for model checking TcpSerialAdapter2.                    *)
EXTENDS TcpSerialAdapter2

\* Every request fits the send buffer; one expects one reply byte, one takes
\* what comes within the timeout, one expects no answer but gets one.
MCOneByte == [m \in Msgs |-> 1]
MCExpected == [m \in Msgs |-> IF m = 2 THEN -1 ELSE IF m = 3 THEN 0 ELSE 1]

\* The second request is longer than the send buffer, the last one is empty.
MCMixedLength == [m \in Msgs |-> IF m = 2 THEN 2 ELSE IF m = 4 THEN 0 ELSE 1]

MCAllFaults == FaultKinds
=============================================================================
