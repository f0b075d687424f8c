--------------------------- MODULE MCNotifications ---------------------------
(* Instances of Notifications for TLC: one or two messages of one or two        *)
(* tenants.                                                                     *)
EXTENDS Notifications

CONSTANTS m1, m2, t1, t2, w1, w2, null

OneMessage == {m1}
TwoMessages == {m1, m2}
AtT1 == [m \in Msg |-> t1]
AtEach == [m \in Msg |-> IF m = m1 THEN t1 ELSE t2]
BySms == [m \in Msg |-> "sms"]
ByEmail == [m \in Msg |-> "email"]
ByWhatsApp == [m \in Msg |-> "whatsapp"]
=============================================================================
