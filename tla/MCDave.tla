------------------------------- MODULE MCDave -------------------------------
(***************************************************************************)
(* The calls of the run "dave": of three people, where every change of the *)
(* group is executed after it was announced; of two, where changes are in  *)
(* force at once or executed later; and of two, where an ssrc may be told  *)
(* by SESSION_UPDATE.  In none do announcements overlap, and encryption    *)
(* that was turned off stays off.                                          *)
(***************************************************************************)
EXTENDS Dave

CONSTANTS u1, u2

MCUsers == {u1, u2}

MCCall(users, atOnce, sessionUpdates) ==
    [users |-> users, atOnce |-> atOnce, overlap |-> FALSE, reupgrade |-> FALSE,
     sessionUpdates |-> sessionUpdates]

MCCalls == {MCCall(MCUsers, FALSE, FALSE), MCCall({u1}, TRUE, FALSE), MCCall({u1}, FALSE, TRUE)}
=============================================================================
