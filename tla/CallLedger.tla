------------------------------ MODULE CallLedger ------------------------------
(*****************************************************************************)
(* What the call-accounting layer promises about paid model calls: a         *)
(* response is booked before it is used, what is booked stays booked, and a   *)
(* request that has its answer keeps that answer for ever, so the same        *)
(* request is never answered by two different responses.                      *)
(*****************************************************************************)
EXTENDS Naturals

CONSTANTS
    Keys,        \* request keys (the hash of a normalised request)
    Responses,   \* provider response identities
    NoResponse

VARIABLES
    ledger,      \* responses booked in the usage journal
    answer       \* [Keys -> the response a request was answered with, or NoResponse]

ledgerVars == <<ledger, answer>>

LedgerInit ==
    /\ ledger = {}
    /\ answer = [k \in Keys |-> NoResponse]

\* A paid response reaches the books, whether or not it answers anything.
Book(r) ==
    /\ r \notin ledger
    /\ ledger' = ledger \cup {r}
    /\ UNCHANGED answer

\* A booked response becomes the one answer of a request.
Answer(k, r) ==
    /\ answer[k] = NoResponse
    /\ r \in ledger
    /\ \A other \in Keys : answer[other] # r
    /\ answer' = [answer EXCEPT ![k] = r]
    /\ UNCHANGED ledger

LedgerNext ==
    \/ \E r \in Responses : Book(r)
    \/ \E k \in Keys, r \in Responses : Answer(k, r)

LedgerSpec == LedgerInit /\ [][LedgerNext]_ledgerVars

===============================================================================
