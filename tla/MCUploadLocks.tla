--------------------------- MODULE MCUploadLocks ---------------------------
(* Small instances of UploadLocks for TLC: one device with one session. *)
EXTENDS UploadLocks

CONSTANTS gate, rtc, s1

Shared(k) == [key |-> k, shared |-> TRUE, try |-> FALSE]
Exclusive(k) == [key |-> k, shared |-> FALSE, try |-> FALSE]
Try(l) == [l EXCEPT !.try = TRUE]

Upload == <<Shared(gate), Exclusive(s1)>>             \* lockUploadSession
Maintain == <<Try(Shared(gate)), Try(Exclusive(s1))>> \* tryLockUploadSession
Revoke == <<Exclusive(gate), Exclusive(rtc)>>         \* RevokeDevice
Offer == <<Shared(rtc)>>                              \* AnswerWebRTCOffer

Plans == {Upload, Maintain, Revoke, Offer}
=============================================================================
