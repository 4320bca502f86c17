------------------------------ MODULE KeyCell ------------------------------
(***************************************************************************)
(* A write-once cell that holds a signing key: once it holds a key it      *)
(* holds that key for ever, and whatever a client is told about the key    *)
(* (an Initialize response, a public key, a signature) is about the key in *)
(* the cell.  InitGate implements it with the memory of one enclave        *)
(* incarnation, KeyLifecycle with the secret in Secrets Manager.           *)
(***************************************************************************)
CONSTANTS Keys,     \* private keys, each identified with its public key
          Found,    \* what the cell may hold at the start
          None      \* "no key"; not a key

VARIABLES cell,     \* the installed key, or None
          told      \* every key some client has been told about

vars == <<cell, told>>

Init == /\ cell \in Found
        /\ told = {}

Install(k) == /\ cell = None
              /\ cell' = k
              /\ UNCHANGED told

Tell == /\ cell # None
        /\ told' = told \cup {cell}
        /\ UNCHANGED cell

Next == Tell \/ \E k \in Keys : Install(k)

Spec == Init /\ [][Next]_vars
=============================================================================
