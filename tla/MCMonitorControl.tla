--------------------------- MODULE MCMonitorControl ---------------------------
(* Instances of MonitorControl for TLC. *)
EXTENDS MonitorControl

CONSTANTS m1, m2, c1, ann, w1, w2

\* All rows are ann's: a monitor of w1, a monitor and a copy trade of w2.
MCChatOf == [r \in Row |-> ann]
MCWalletOf == [r \in Row |-> IF r = m1 THEN w1 ELSE w2]
=============================================================================
