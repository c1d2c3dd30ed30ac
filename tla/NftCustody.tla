----------------------------- MODULE NftCustody -----------------------------
(***************************************************************************)
(* What a reserve transfer promises about one NFT (spec §1, §2, glossary   *)
(* "Reserve transfer"): the NFT is usable on the source ledger by its      *)
(* owner until it is locked for a recipient on the destination; while it  *)
(* is in flight nobody can use it; the destination then credits exactly   *)
(* that recipient, and the NFT never comes back or appears twice.          *)
(*                                                                         *)
(* ReserveTransfer is checked to implement this specification under a     *)
(* refinement mapping (ReserveTransfer!CustodyRefinement).                 *)
(***************************************************************************)
CONSTANTS
    Accounts,      \* accounts that can hold the NFT
    NoHolder       \* nobody can use the NFT

VARIABLES
    custody,       \* "source", "inFlight" or "destination"
    holder,        \* the account that can use the NFT, or NoHolder
    recipient      \* the account the NFT was locked for, or NoHolder

cvars == <<custody, holder, recipient>>

Init ==
    /\ custody = "source"
    /\ holder \in Accounts
    /\ recipient = NoHolder

\* The source ledger locks the NFT for recipient r on the destination.
Lock(r) ==
    /\ custody = "source"
    /\ custody' = "inFlight"
    /\ holder' = NoHolder
    /\ recipient' = r

\* The destination credits the recipient the NFT was locked for.
Deliver ==
    /\ custody = "inFlight"
    /\ custody' = "destination"
    /\ holder' = recipient
    /\ UNCHANGED recipient

Next == (\E r \in Accounts : Lock(r)) \/ Deliver

\* A locked NFT is delivered: the transfer is not allowed to lose it.
Spec == Init /\ [][Next]_cvars /\ WF_cvars(Deliver)

=============================================================================
