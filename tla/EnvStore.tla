------------------------------ MODULE EnvStore ------------------------------
(***************************************************************************)
(* What the environment store of DFRobot_EasyFlash promises: a map from     *)
(* keys to values in which a set or a delete takes effect at one instant,   *)
(* or not at all, and which nothing else changes: neither garbage           *)
(* collection nor a power failure.  Setting the defaults is not atomic: it  *)
(* forgets the keys piecemeal before it defines the default one.            *)
(* EasyFlashEnv implements this with records, sectors and collection.       *)
(***************************************************************************)
CONSTANTS Keys, Vals, NoVal, DefaultKey, DefaultVal

VARIABLES
    kv,        \* the value of every key, NoVal if it has none
    req,       \* the call in progress, NoReq between calls
    applied    \* it has taken effect

NoReq == [kind |-> "none"]
SetDefault == [kind |-> "default", key |-> DefaultKey, val |-> DefaultVal]
Requests == [kind : {"set"}, key : Keys, val : Vals]
                \cup [kind : {"del"}, key : Keys, val : {NoVal}]
                \cup {SetDefault}

Init ==
    /\ kv = [k \in Keys |-> NoVal]
    /\ req = NoReq /\ applied = FALSE

Call(r) ==
    /\ req = NoReq /\ req' = r /\ applied' = FALSE
    /\ UNCHANGED kv

Apply ==
    /\ req # NoReq /\ ~applied
    /\ kv' = [kv EXCEPT ![req.key] = req.val]
    /\ applied' = TRUE
    /\ UNCHANGED req

Forget(gone) ==
    /\ req = SetDefault /\ ~applied
    /\ kv' = [k \in Keys |-> IF k \in gone THEN NoVal ELSE kv[k]]
    /\ UNCHANGED <<req, applied>>

(* A call that has had no effect may return too, with an error.             *)
Return ==
    /\ req # NoReq
    /\ req' = NoReq /\ applied' = FALSE
    /\ UNCHANGED kv

Next ==
    \/ Apply \/ Return
    \/ \E r \in Requests : Call(r)
    \/ \E gone \in SUBSET Keys : Forget(gone)

Spec == Init /\ [][Next]_<<kv, req, applied>>
=============================================================================
