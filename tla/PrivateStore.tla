----------------------------- MODULE PrivateStore ------------------------------
(***************************************************************************)
(* What a private store promises to the operation that holds its lease     *)
(* (the LocalStore interface of storage/store.ts): captured records and    *)
(* receipts are added in one step each and never disappear, and the outbox *)
(* that is read is exactly what has no receipt yet.  LedgerSync relies on  *)
(* this; StoreIndex implements it with files, a derived index and crashes. *)
(***************************************************************************)

CONSTANT Record

VARIABLES
    records,    \* captured
    receipts,   \* acknowledged
    outbox      \* what pending() returned last

vars == << records, receipts, outbox >>

Init == records = {} /\ receipts = {} /\ outbox = {}

Capture ==
    /\ \E captured \in SUBSET Record : records' = records \cup captured
    /\ UNCHANGED << receipts, outbox >>

Acknowledge ==
    /\ \E confirmed \in SUBSET records : receipts' = receipts \cup confirmed
    /\ UNCHANGED << records, outbox >>

Ask ==
    /\ outbox' = records \ receipts
    /\ UNCHANGED << records, receipts >>

Next == Capture \/ Acknowledge \/ Ask

Spec == Init /\ [][Next]_vars

=============================================================================
