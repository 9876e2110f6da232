----------------------------- MODULE AccessLedger -----------------------------
(***************************************************************************)
(* What controlled access to the vault promises, without interceptors,     *)
(* files or recorders: nothing is disclosed to a request unless the ledger *)
(* holds an entry that names exactly what is disclosed, and an entry that  *)
(* was disclosed under is never lost, whatever crashes.                    *)
(***************************************************************************)

CONSTANTS Requests,
          Versions      \* the things that can be disclosed

VARIABLES entry,        \* request -> its ledger entry, if any
          status,       \* request -> "open", "disclosed" or "closed"
          shown         \* request -> what was disclosed to it

ledgerVars == <<entry, status, shown>>

NoEntry == [made |-> FALSE, versions |-> {}]
Entry(vs) == [made |-> TRUE, versions |-> vs]

LedgerInit == /\ entry = [r \in Requests |-> NoEntry]
              /\ status = [r \in Requests |-> "open"]
              /\ shown = [r \in Requests |-> {}]

Enter(r) == /\ status[r] = "open" /\ ~entry[r].made
            /\ \E vs \in SUBSET Versions : entry' = [entry EXCEPT ![r] = Entry(vs)]
            /\ UNCHANGED <<status, shown>>

Disclose(r) == /\ status[r] = "open" /\ entry[r].made
               /\ status' = [status EXCEPT ![r] = "disclosed"]
               /\ shown' = [shown EXCEPT ![r] = entry[r].versions]
               /\ UNCHANGED entry

Close(r) == /\ status[r] = "open"
            /\ status' = [status EXCEPT ![r] = "closed"]
            /\ UNCHANGED <<entry, shown>>

\* A crash closes some open requests and loses some entries, none of which
\* anything was disclosed under.
Fail(C, L) == /\ \A r \in C : status[r] = "open"
              /\ \A r \in L : status[r] # "disclosed"
              /\ status' = [r \in Requests |-> IF r \in C THEN "closed" ELSE status[r]]
              /\ entry' = [r \in Requests |-> IF r \in L THEN NoEntry ELSE entry[r]]
              /\ UNCHANGED shown

LedgerNext == \/ \E r \in Requests : Enter(r) \/ Disclose(r) \/ Close(r)
              \/ \E C, L \in SUBSET Requests : Fail(C, L)

LedgerSpec == LedgerInit /\ [][LedgerNext]_ledgerVars

===============================================================================
