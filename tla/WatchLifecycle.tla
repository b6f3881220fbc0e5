---------------------------- MODULE WatchLifecycle ----------------------------
(***************************************************************************)
(* What the status of one watch tells its user, whoever writes it and       *)
(* however the writers interleave.  Left to itself a watch is followed only *)
(* while it is active: once it waits for the user, is booked or has ended   *)
(* it stays so until a command on that very watch is being carried out, or  *)
(* until it is removed, which is for good.                                  *)
(***************************************************************************)

Active == {"PENDING", "WAITING_OPEN", "WATCHING"}
Gone == {"UNREGISTERED", "REMOVED"}

VARIABLES
    status,     \* of the watch; UNREGISTERED and REMOVED when there is no row
    opened,     \* has the site opened its booking page
    commanded   \* is a command on the watch being carried out

vars == <<status, opened, commanded>>

Init ==
    /\ status \in {"UNREGISTERED", "PENDING"}
    /\ opened \in BOOLEAN
    /\ commanded = FALSE

Register ==
    /\ status = "UNREGISTERED"
    /\ status' = "PENDING"
    /\ UNCHANGED <<opened, commanded>>

Remove ==
    /\ status \notin Gone
    /\ status' = "REMOVED"
    /\ UNCHANGED <<opened, commanded>>

Open ==
    /\ ~opened
    /\ opened' = TRUE
    /\ UNCHANGED <<status, commanded>>

\* The end, a captcha or a gate; before the opening nothing else but waiting; after it,
\* nothing new, an offer to the user or a booking.
Round ==
    /\ status \in Active
    /\ status' \in {"EXPIRED", "NEEDS_HUMAN"} \cup
                   (IF opened THEN {"WATCHING", "AWAITING_APPROVAL", "RESERVED"}
                              ELSE {"WAITING_OPEN"})
    /\ UNCHANGED <<opened, commanded>>

\* One is taken up, goes on or comes to its end, answered or not.  It changes nothing; or a
\* slot is declined or lost, or a watch resumed; or there is a booking; or a watch is
\* resumed before the opening; or an approval needs the user.
Command ==
    /\ commanded \/ commanded'
    /\ commanded' \in BOOLEAN
    /\ \/ status' = status
       \/ status \notin Gone /\ status' \in {"WATCHING", "RESERVED"}
       \/ status = "NEEDS_HUMAN" /\ ~opened /\ status' = "WAITING_OPEN"
       \/ status = "AWAITING_APPROVAL" /\ status' = "NEEDS_HUMAN"
    /\ UNCHANGED opened

Next == Register \/ Remove \/ Open \/ Round \/ Command

Spec == Init /\ [][Next]_vars
=============================================================================
