------------------------------ MODULE OpsCredits ------------------------------
(***************************************************************************)
(* The two idempotent operations of the ops console, issuing a credit and  *)
(* overriding a line item, as web workers that meet in the tables credit   *)
(* and idempotency_key, and the job that deletes expired keys.             *)
(*                                                                         *)
(* Rows under different Idempotency-Key values never meet: the model is of *)
(* one value.  A body stands for the amount and reason of a request; the   *)
(* hash of a request is its customer and its body.  An override has no     *)
(* customer; what it does to the line item is in Settlement.tla.           *)
(*                                                                         *)
(* A step is one SQL statement or a COMMIT.  The rows a transaction has    *)
(* inserted are its own until it commits: they follow from pc and req.  An *)
(* insert that meets such a row of another transaction waits for its end.  *)
(***************************************************************************)
EXTENDS Integers

CONSTANTS
    Workers,    \* web workers
    Staff,      \* staff members
    Customers,
    Bodies,     \* contents of requests
    Requests,   \* the requests staff may send
    None        \* SQL NULL, or no such row

ASSUME RequestsAssumption ==
    /\ Requests \subseteq [staff : Staff, customer : Customers \cup {None}, body : Bodies]
    /\ None \notin Requests
ASSUME NoneAssumption == /\ None \notin Customers
                         /\ None \notin Bodies
                         /\ None \notin [customer : Customers \cup {None}, body : Bodies]
                         /\ None \notin [customer : Customers \cup {None},
                                         credit : Bodies \cup {None}]

Hashes == [customer : Customers \cup {None}, body : Bodies]
Answers == [customer : Customers \cup {None}, credit : Bodies \cup {None}]
HashOfRequest(r) == r                             \* mutant: staff id hashed too
Hash(r) == [customer |-> r.customer, body |-> r.body]

VARIABLES
    credit,  \* rows of credit: per customer, the body credited
    audit,   \* rows of audit_log: how many credit.issue rows a customer has
    idem,    \* rows of idempotency_key: per staff member, the hash recorded
    used,    \* history: the hashes ever recorded per staff member
    pc,      \* where each worker is
    req,     \* per worker: the request it serves
    answer   \* per worker: its last answer; credit = None is a 409

vars == <<credit, audit, idem, used, pc, req, answer>>
tables == <<credit, audit, idem, used>>

Init ==
    /\ credit = [c \in Customers |-> None]
    /\ audit = [c \in Customers |-> 0]
    /\ idem = [s \in Staff |-> None]
    /\ used = [s \in Staff |-> {}]
    /\ pc = [w \in Workers |-> "idle"]
    /\ req = [w \in Workers |-> None]
    /\ answer = [w \in Workers |-> None]

Goto(w, label) == pc' = [pc EXCEPT ![w] = label]

\* The worker is done and nobody has an answer.
Drop(w) ==
    /\ Goto(w, "idle")
    /\ req' = [req EXCEPT ![w] = None]
    /\ UNCHANGED <<tables, answer>>

\* The worker answers with the credit whose body is b, or 409 when b = None.
Respond(w, b) ==
    /\ pc' = [pc EXCEPT ![w] = "idle"]
    /\ answer' = [answer EXCEPT ![w] = [customer |-> req[w].customer, credit |-> b]]
    /\ UNCHANGED <<tables, req>>

-----------------------------------------------------------------------------
(* Rows of other transactions that have not ended.                         *)

IsCredit(w) == req[w].customer # None

HasCreditRow(w) == pc[w] \in {"key", "commit"} /\ IsCredit(w)
HasKeyRowEarly(w) ==                              \* mutant: key reserved first
    pc[w] \in {"credit", "key", "commit"}
HasKeyRow(w) == pc[w] = "commit"

\* UNIQUE (customer, idempotency_key) of credit.
CreditInDoubt(w) ==
    \E v \in Workers \ {w} : HasCreditRow(v) /\ req[v].customer = req[w].customer

\* UNIQUE (staff_id, key) and UNIQUE (customer, key) WHERE customer IS NOT
\* NULL of idempotency_key: the staff members whose row would collide.
Colliding(w) ==
    {s \in Staff : \/ s = req[w].staff
                   \/ idem[s] # None /\ IsCredit(w) /\ idem[s].customer = req[w].customer}
KeyTaken(w) == \E s \in Colliding(w) : idem[s] # None
KeyInDoubt(w) ==
    \E v \in Workers \ {w} :
        /\ HasKeyRow(v)
        /\ \/ req[v].staff = req[w].staff
           \/ IsCredit(w) /\ req[v].customer = req[w].customer

-----------------------------------------------------------------------------
(* IssueCreditView.post and the key handling of OverrideLineItemView.patch. *)

Receive(w) ==
    /\ pc[w] = "idle"
    /\ \E r \in Requests : req' = [req EXCEPT ![w] = r]
    /\ answer' = [answer EXCEPT ![w] = None]
    /\ Goto(w, "check")
    /\ UNCHANGED tables

\* The replay check: a SELECT before the transaction.
MatchesBodyOnly(w) == idem[req[w].staff].body = req[w].body   \* mutant: no customer
Matches(w) == idem[req[w].staff] = Hash(req[w])
Replay(w) ==
    /\ pc[w] = "check"
    /\ idem[req[w].staff] # None
    /\ Respond(w, IF Matches(w) THEN idem[req[w].staff].body ELSE None)

NoReplay(w) ==
    /\ pc[w] = "check"
    /\ idem[req[w].staff] = None
    /\ Goto(w, IF IsCredit(w) THEN "credit" ELSE "key")
    /\ UNCHANGED <<tables, req, answer>>

\* INSERT INTO credit; IntegrityError when the customer has one.
InsertCredit(w) ==
    /\ pc[w] = "credit"
    /\ ~CreditInDoubt(w)
    /\ Goto(w, IF credit[req[w].customer] = None THEN "key" ELSE "lookup")
    /\ UNCHANGED <<tables, req, answer>>

\* INSERT INTO idempotency_key.  Only the credit view catches IntegrityError:
\* an override is answered with an error and rolled back.
InsertKeyAtOnce(w) ==                             \* mutant: key committed by itself
    /\ pc[w] = "key"
    /\ ~KeyInDoubt(w) /\ ~KeyTaken(w)
    /\ Goto(w, "commit")
    /\ idem' = [idem EXCEPT ![req[w].staff] = Hash(req[w])]
    /\ UNCHANGED <<credit, audit, used, req, answer>>
InsertKey(w) ==
    /\ pc[w] = "key"
    /\ ~KeyInDoubt(w)
    /\ IF KeyTaken(w) /\ ~IsCredit(w)
       THEN Drop(w)
       ELSE /\ Goto(w, IF KeyTaken(w) THEN "lookup" ELSE "commit")
            /\ UNCHANGED <<tables, req, answer>>

\* COMMIT: the credit, its audit row and the key become visible together.
Commit(w) ==
    /\ pc[w] = "commit"
    /\ Goto(w, "reply")
    /\ IF IsCredit(w)
       THEN /\ credit' = [credit EXCEPT ![req[w].customer] = req[w].body]
            /\ audit' = [audit EXCEPT ![req[w].customer] = @ + 1]
       ELSE UNCHANGED <<credit, audit>>
    /\ idem' = [idem EXCEPT ![req[w].staff] = Hash(req[w])]
    /\ used' = [used EXCEPT ![req[w].staff] = @ \cup {Hash(req[w])}]
    /\ UNCHANGED <<req, answer>>

Reply(w) == pc[w] = "reply" /\ Respond(w, req[w].body)

\* except IntegrityError: the customer's credit under the key, or 409.
Lookup(w) == pc[w] = "lookup" /\ Respond(w, credit[req[w].customer])

\* An error or the death of the worker: the transaction is rolled back, and
\* after the COMMIT the answer is lost.
Abort(w) == pc[w] # "idle" /\ Drop(w)

-----------------------------------------------------------------------------
\* cleanup_idempotency_keys: the rows whose expires_at has passed.
Cleanup ==
    /\ \E S \in SUBSET {s \in Staff : idem[s] # None} :
          /\ S # {}
          /\ idem' = [s \in Staff |-> IF s \in S THEN None ELSE idem[s]]
    /\ UNCHANGED <<credit, audit, used, pc, req, answer>>

Step(w) ==
    \/ Replay(w) \/ NoReplay(w)
    \/ InsertCredit(w) \/ InsertKey(w) \/ Commit(w)
    \/ Reply(w) \/ Lookup(w)

Next ==
    \/ \E w \in Workers : Receive(w) \/ Step(w) \/ Abort(w)
    \/ Cleanup

\* A statement returns.  One that waits for another transaction is woken when
\* that ends, and a competitor for the row has a whole request to serve first:
\* the waiter does not lose the row to newcomers for ever.
Fairness ==
    \A w \in Workers : /\ WF_vars(Step(w))
                       /\ SF_vars(InsertCredit(w))
                       /\ SF_vars(InsertKey(w))

Spec == Init /\ [][Next]_vars /\ Fairness

-----------------------------------------------------------------------------
(* Properties                                                              *)

\* Every table and every worker holds values of its kind.
TypeOK ==
    /\ credit \in [Customers -> Bodies \cup {None}]
    /\ audit \in [Customers -> Nat]
    /\ idem \in [Staff -> Hashes \cup {None}]
    /\ used \in [Staff -> SUBSET Hashes]
    /\ pc \in [Workers -> {"idle", "check", "credit", "key", "commit", "reply", "lookup"}]
    /\ req \in [Workers -> Requests \cup {None}]
    /\ \A w \in Workers : pc[w] # "idle" => req[w] \in Requests
    /\ answer \in [Workers -> Answers \cup {None}]

\* A stored response is that of a credit that exists, so a replay never
\* confirms a credit nobody got: key and credit are committed together.
RecordedIsIssued ==
    \A s \in Staff :
        idem[s] # None /\ idem[s].customer # None =>
            credit[idem[s].customer] = idem[s].body

\* A double click, a retry after a lost answer and a retry after the cleanup
\* of the key never conflict with themselves: a worker answers 409 only when a
\* different request has been recorded for the same staff member and key.
ConflictIsReal ==
    \A w \in Workers :
        answer[w] # None /\ answer[w].credit = None =>
            \E h \in used[req[w].staff] : h # Hash(req[w])

\* Every request ends: no two transactions wait for each other's rows.
RequestsEnd == \A w \in Workers : pc[w] # "idle" ~> pc[w] = "idle"

\* The ledger of credits this implements: answers to credit requests only.
ToldCredit ==
    [w \in Workers |-> IF answer[w] # None /\ answer[w].customer # None
                       THEN answer[w] ELSE None]
Ledger == INSTANCE CreditLedger
          WITH issued <- credit, logged <- audit, taken <- used, told <- ToldCredit
LedgerSpec == Ledger!Spec

-----------------------------------------------------------------------------
(* The inductive invariant of the proofs.                                  *)

\* What was ever recorded under the key has been issued, and what is recorded
\* now is in the history.
HistoryIsIssued ==
    \A s \in Staff : \A h \in used[s] : h.customer # None => credit[h.customer] = h.body
RecordedIsUsed == \A s \in Staff : idem[s] # None => idem[s] \in used[s]
AuditCounts == \A c \in Customers : audit[c] = IF credit[c] = None THEN 0 ELSE 1

\* An uncommitted row is the only one of its unique index.
CreditRowAlone ==
    \A w \in Workers : HasCreditRow(w) => credit[req[w].customer] = None /\ ~CreditInDoubt(w)

\* Where a worker is says what the tables hold.
Reached ==
    \A w \in Workers :
        /\ pc[w] \in {"credit", "lookup"} => IsCredit(w)
        /\ pc[w] = "reply" /\ IsCredit(w) => credit[req[w].customer] = req[w].body
        /\ pc[w] = "lookup" /\ credit[req[w].customer] = None =>
              \E h \in used[req[w].staff] : h # Hash(req[w])
AnsweredTruly ==
    \A w \in Workers :
        answer[w] # None =>
            /\ req[w] # None /\ answer[w].customer = req[w].customer
            /\ pc[w] = "idle"
            /\ answer[w].customer # None /\ answer[w].credit # None =>
                  answer[w].credit = credit[answer[w].customer]

IInv ==
    /\ TypeOK /\ HistoryIsIssued /\ RecordedIsUsed /\ AuditCounts
    /\ CreditRowAlone /\ Reached /\ AnsweredTruly /\ ConflictIsReal
===============================================================================
