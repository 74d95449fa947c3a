-------------------------- MODULE MCConnectionReset --------------------------
(* Connection with a history variable: has Reset returned, and no Connect of *)
(* the application's begun since?                                            *)
EXTENDS MCConnection

VARIABLE tornDown

HistoryInit == Init /\ tornDown = FALSE
HistoryNext ==
    /\ Next
    /\ tornDown' = IF \E u \in Users : ResetFields(u) THEN TRUE
                   ELSE IF \E u \in Users : ConnectStart(u) THEN FALSE ELSE tornDown
HistorySpec == HistoryInit /\ [][HistoryNext]_<<vars, tornDown>>

(* "Reset tears down connection, channels, auth, and options" (socket.go):   *)
(* once it has returned, nothing opens a socket until the application        *)
(* connects.                                                                 *)
ResetTearsDown == [][\A i \in Ids : Dial(i) => ~tornDown]_<<vars, tornDown>>
=============================================================================
