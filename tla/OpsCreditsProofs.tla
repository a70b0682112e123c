--------------------------- MODULE OpsCreditsProofs ---------------------------
(***************************************************************************)
(* OpsCredits for any number of workers, staff, customers and requests:    *)
(* its inductive invariant, the properties that follow and the refinement  *)
(* of CreditLedger.                                                        *)
(***************************************************************************)
EXTENDS OpsCredits, TLAPS

\* A request that is being served is a request.
LEMMA RequestShape ==
    ASSUME NEW r \in Requests
    PROVE  /\ r.staff \in Staff
           /\ r.customer \in Customers \cup {None}
           /\ r.body \in Bodies
           /\ Hash(r) \in Hashes
           /\ Hash(r).customer = r.customer
           /\ Hash(r).body = r.body
BY RequestsAssumption DEF Hash, Hashes

LEMMA HashShape ==
    ASSUME NEW h \in Hashes
    PROVE  /\ h.customer \in Customers \cup {None}
           /\ h.body \in Bodies
           /\ h # None
           /\ h = [customer |-> h.customer, body |-> h.body]
BY NoneAssumption DEF Hashes

\* The initial state satisfies the inductive invariant.
LEMMA InitIInv == Init => IInv
BY DEF Init, IInv, TypeOK, HistoryIsIssued, RecordedIsUsed, AuditCounts, CreditRowAlone,
       HasCreditRow, Reached, AnsweredTruly, ConflictIsReal
-----------------------------------------------------------------------------
(* Steps that leave the tables alone                                       *)

LEMMA ReceiveInv == ASSUME IInv, NEW w \in Workers, Receive(w) PROVE IInv'
<1> USE DEF IInv
<1>1. TypeOK'
  BY DEF TypeOK, Receive, Goto, tables
<1>2. HistoryIsIssued' /\ RecordedIsUsed' /\ AuditCounts'
  BY DEF Receive, tables, HistoryIsIssued, RecordedIsUsed, AuditCounts
<1>3. CreditRowAlone'
  BY DEF TypeOK, Receive, Goto, tables, CreditRowAlone, HasCreditRow, IsCredit, CreditInDoubt
<1>4. Reached'
  BY DEF TypeOK, Receive, Goto, tables, Reached, IsCredit
<1>5. AnsweredTruly'
  BY RequestsAssumption DEF TypeOK, Receive, Goto, tables, AnsweredTruly
<1>6. ConflictIsReal'
  BY DEF TypeOK, Receive, Goto, tables, ConflictIsReal
<1> QED
  BY <1>1, <1>2, <1>3, <1>4, <1>5, <1>6

\* Moving on without an answer keeps what the tables are related to, when the
\* new place asks for nothing the worker does not have.
LEMMA GotoInv ==
    ASSUME IInv, NEW w \in Workers, NEW label \in {"credit", "key", "commit", "lookup"},
           pc[w] # "idle", Goto(w, label), UNCHANGED <<tables, req, answer>>,
           label \in {"key", "commit"} /\ IsCredit(w) =>
               credit[req[w].customer] = None /\ ~CreditInDoubt(w),
           label \in {"credit", "lookup"} => IsCredit(w),
           label = "lookup" /\ credit[req[w].customer] = None =>
               \E h \in used[req[w].staff] : h # Hash(req[w])
    PROVE  IInv'
<1> USE DEF IInv
<1>1. TypeOK'
  BY DEF TypeOK, Goto, tables
<1>2. HistoryIsIssued' /\ RecordedIsUsed' /\ AuditCounts'
  BY DEF tables, HistoryIsIssued, RecordedIsUsed, AuditCounts
<1>3. CreditRowAlone'
  <2> SUFFICES ASSUME NEW v \in Workers, HasCreditRow(v)'
               PROVE  credit[req[v].customer] = None /\ ~CreditInDoubt(v)'
    BY DEF CreditRowAlone, tables
  <2>1. CASE v = w
    BY <2>1 DEF TypeOK, Goto, tables, HasCreditRow, IsCredit, CreditInDoubt
  <2>2. CASE v # w
    BY <2>2 DEF TypeOK, Goto, tables, CreditRowAlone, HasCreditRow, IsCredit, CreditInDoubt
  <2> QED
    BY <2>1, <2>2
<1>4. Reached'
  BY DEF TypeOK, Goto, tables, Reached, IsCredit
<1>5. AnsweredTruly' /\ ConflictIsReal'
  BY DEF TypeOK, Goto, tables, AnsweredTruly, ConflictIsReal
<1> QED
  BY <1>1, <1>2, <1>3, <1>4, <1>5

LEMMA NoReplayInv == ASSUME IInv, NEW w \in Workers, NoReplay(w) PROVE IInv'
<1>1. CASE IsCredit(w)
  BY <1>1, GotoInv DEF NoReplay
<1>2. CASE ~IsCredit(w)
  BY <1>2, GotoInv DEF NoReplay
<1> QED
  BY <1>1, <1>2

LEMMA InsertCreditInv == ASSUME IInv, NEW w \in Workers, InsertCredit(w) PROVE IInv'
<1>1. IsCredit(w)
  BY DEF IInv, Reached, InsertCredit
<1>2. CASE credit[req[w].customer] = None
  BY <1>1, <1>2, GotoInv DEF InsertCredit
<1>3. CASE credit[req[w].customer] # None
  BY <1>1, <1>3, GotoInv DEF InsertCredit
<1> QED
  BY <1>2, <1>3

\* A worker that has inserted its credit and finds the key taken has met the
\* row of a different request: its own would have come with a credit.
LEMMA TakenByAnother ==
    ASSUME IInv, NEW w \in Workers, pc[w] = "key", IsCredit(w), KeyTaken(w)
    PROVE  \E h \in used[req[w].staff] : h # Hash(req[w])
<1> USE DEF IInv
<1>1. req[w] \in Requests /\ req[w].customer \in Customers
  BY RequestShape DEF TypeOK, IsCredit
<1>2. credit[req[w].customer] = None
  BY DEF CreditRowAlone, HasCreditRow
<1>3. PICK s \in Colliding(w) : idem[s] # None
  BY DEF KeyTaken
<1>4. s \in Staff /\ idem[s] \in used[s] /\ idem[s] \in Hashes
  BY <1>3 DEF Colliding, RecordedIsUsed, TypeOK
<1>5. idem[s].customer # req[w].customer
  BY <1>1, <1>2, <1>4, HashShape, NoneAssumption DEF HistoryIsIssued, IsCredit
<1>6. s = req[w].staff
  BY <1>3, <1>5 DEF Colliding
<1> QED
  BY <1>1, <1>4, <1>5, <1>6, RequestShape

LEMMA DropInv == ASSUME IInv, NEW w \in Workers, pc[w] # "idle", Drop(w) PROVE IInv'
<1> USE DEF IInv
<1>1. TypeOK'
  BY DEF TypeOK, Drop, Goto, tables
<1>2. HistoryIsIssued' /\ RecordedIsUsed' /\ AuditCounts'
  BY DEF Drop, tables, HistoryIsIssued, RecordedIsUsed, AuditCounts
<1>3. CreditRowAlone'
  BY DEF TypeOK, Drop, Goto, tables, CreditRowAlone, HasCreditRow, IsCredit, CreditInDoubt
<1>4. Reached'
  BY DEF TypeOK, Drop, Goto, tables, Reached, IsCredit
<1>5. AnsweredTruly' /\ ConflictIsReal'
  BY DEF TypeOK, Drop, Goto, tables, AnsweredTruly, ConflictIsReal
<1> QED
  BY <1>1, <1>2, <1>3, <1>4, <1>5

LEMMA InsertKeyInv == ASSUME IInv, NEW w \in Workers, InsertKey(w) PROVE IInv'
<1>1. CASE KeyTaken(w) /\ ~IsCredit(w)
  BY <1>1, DropInv DEF InsertKey
<1>2. CASE KeyTaken(w) /\ IsCredit(w)
  BY <1>2, GotoInv, TakenByAnother DEF InsertKey
<1>3. CASE ~KeyTaken(w)
  <2>1. IsCredit(w) => credit[req[w].customer] = None /\ ~CreditInDoubt(w)
    BY DEF InsertKey, IInv, CreditRowAlone, HasCreditRow
  <2> QED
    BY <1>3, <2>1, GotoInv DEF InsertKey
<1> QED
  BY <1>1, <1>2, <1>3

\* An answer preserves the invariant when it is true.
LEMMA RespondInv ==
    ASSUME IInv, NEW w \in Workers, NEW b \in Bodies \cup {None}, pc[w] # "idle",
           Respond(w, b),
           IsCredit(w) /\ b # None => b = credit[req[w].customer],
           b = None => \E h \in used[req[w].staff] : h # Hash(req[w])
    PROVE  IInv'
<1> USE DEF IInv
<1>0. req[w] \in Requests /\ req[w] # None
  BY RequestsAssumption, NoneAssumption DEF TypeOK
<1>1. TypeOK'
  BY <1>0, RequestShape DEF TypeOK, Respond, tables, Answers
<1>2. HistoryIsIssued' /\ RecordedIsUsed' /\ AuditCounts'
  BY DEF Respond, tables, HistoryIsIssued, RecordedIsUsed, AuditCounts
<1>3. CreditRowAlone'
  BY DEF TypeOK, Respond, tables, CreditRowAlone, HasCreditRow, IsCredit, CreditInDoubt
<1>4. Reached'
  BY DEF TypeOK, Respond, tables, Reached, IsCredit
<1>5. AnsweredTruly'
  BY <1>0 DEF TypeOK, Respond, tables, AnsweredTruly, IsCredit
<1>6. ConflictIsReal'
  BY DEF TypeOK, Respond, tables, ConflictIsReal
<1> QED
  BY <1>1, <1>2, <1>3, <1>4, <1>5, <1>6

LEMMA ReplayInv == ASSUME IInv, NEW w \in Workers, Replay(w) PROVE IInv'
<1> DEFINE s == req[w].staff
           h == idem[s]
<1>1. s \in Staff /\ h \in Hashes /\ h \in used[s] /\ req[w] \in Requests
  BY RequestShape DEF IInv, TypeOK, RecordedIsUsed, Replay
<1>2. CASE Matches(w)
  <2>1. h.customer = req[w].customer /\ h.body \in Bodies /\ h.body # None
    BY <1>1, <1>2, RequestShape, HashShape, NoneAssumption DEF Matches
  <2>2. IsCredit(w) => h.body = credit[req[w].customer]
    BY <1>1, <2>1 DEF IInv, HistoryIsIssued, IsCredit
  <2> QED
    BY <1>2, <2>1, <2>2, RespondInv DEF Replay
<1>3. CASE ~Matches(w)
  <2>1. h \in used[s] /\ h # Hash(req[w])
    BY <1>1, <1>3 DEF Matches
  <2> QED
    BY <1>3, <2>1, RespondInv DEF Replay
<1> QED
  BY <1>2, <1>3

LEMMA ReplyInv == ASSUME IInv, NEW w \in Workers, Reply(w) PROVE IInv'
<1>1. req[w].body \in Bodies /\ req[w].body # None
  BY RequestShape, NoneAssumption DEF IInv, TypeOK, Reply
<1>2. IsCredit(w) => req[w].body = credit[req[w].customer]
  BY DEF IInv, Reached, Reply
<1> QED
  BY <1>1, <1>2, RespondInv DEF Reply

LEMMA LookupInv == ASSUME IInv, NEW w \in Workers, Lookup(w) PROVE IInv'
<1>1. IsCredit(w) /\ req[w].customer \in Customers
  BY RequestShape DEF IInv, TypeOK, Reached, Lookup, IsCredit
<1>2. credit[req[w].customer] \in Bodies \cup {None}
  BY <1>1 DEF IInv, TypeOK
<1>3. credit[req[w].customer] = None => \E h \in used[req[w].staff] : h # Hash(req[w])
  BY DEF IInv, Reached, Lookup
<1> QED
  BY <1>1, <1>2, <1>3, RespondInv DEF Lookup
-----------------------------------------------------------------------------
(* Steps that change a table                                               *)

\* A commit of a credit finds the customer without one.
LEMMA CommitFindsNone ==
    ASSUME IInv, NEW w \in Workers, Commit(w)
    PROVE  /\ req[w] \in Requests
           /\ req[w].staff \in Staff
           /\ req[w].customer \in Customers \cup {None}
           /\ req[w].body \in Bodies
           /\ IsCredit(w) => /\ credit[req[w].customer] = None
                             /\ \A v \in Workers \ {w} :
                                   HasCreditRow(v) => req[v].customer # req[w].customer
BY RequestShape DEF IInv, TypeOK, CreditRowAlone, HasCreditRow, CreditInDoubt, Commit

LEMMA CommitInv == ASSUME IInv, NEW w \in Workers, Commit(w) PROVE IInv'
<1> USE DEF IInv
<1> DEFINE r == req[w]
<1>0. /\ r \in Requests /\ r.staff \in Staff /\ r.customer \in Customers \cup {None}
      /\ r.body \in Bodies /\ r.body # None
      /\ Hash(r) \in Hashes /\ Hash(r).customer = r.customer /\ Hash(r).body = r.body
      /\ IsCredit(w) => r.customer \in Customers /\ credit[r.customer] = None
  BY CommitFindsNone, RequestShape, NoneAssumption DEF IsCredit
<1>1. TypeOK'
  BY <1>0 DEF TypeOK, Commit, Goto
<1>2. \A c \in Customers : credit[c] # None => credit'[c] = credit[c]
  BY <1>0 DEF TypeOK, Commit
<1>3. \A s \in Staff : used[s] \subseteq used'[s]
  BY DEF TypeOK, Commit
<1>4. HistoryIsIssued'
  <2> SUFFICES ASSUME NEW s \in Staff, NEW h \in used'[s], h.customer # None
               PROVE  credit'[h.customer] = h.body
    BY DEF HistoryIsIssued
  <2>1. CASE h \in used[s]
    BY <1>2, <2>1, HashShape, NoneAssumption DEF TypeOK, HistoryIsIssued
  <2>2. CASE h = Hash(r)
    BY <1>0, <2>2 DEF TypeOK, Commit, IsCredit
  <2> QED
    BY <2>1, <2>2 DEF TypeOK, Commit
<1>5. RecordedIsUsed'
  BY <1>0, <1>3 DEF TypeOK, Commit, RecordedIsUsed
<1>6. AuditCounts'
  BY <1>0 DEF TypeOK, Commit, AuditCounts, IsCredit
<1>7. CreditRowAlone'
  <2> SUFFICES ASSUME NEW v \in Workers, HasCreditRow(v)'
               PROVE  credit'[req[v].customer] = None /\ ~CreditInDoubt(v)'
    BY DEF CreditRowAlone, Commit
  <2>1. v # w /\ HasCreditRow(v)
    BY DEF TypeOK, Commit, Goto, HasCreditRow, IsCredit
  <2>2. credit[req[v].customer] = None /\ ~CreditInDoubt(v) /\ req[v].customer \in Customers
    BY <2>1, RequestShape DEF TypeOK, CreditRowAlone, HasCreditRow, IsCredit
  <2>3. credit'[req[v].customer] = None
    BY <1>0, <2>1, <2>2, CommitFindsNone, ZenonT(40) DEF TypeOK, Commit
  <2>4. ~CreditInDoubt(v)'
    BY <2>1, <2>2 DEF TypeOK, Commit, Goto, CreditInDoubt, HasCreditRow, IsCredit
  <2> QED
    BY <2>3, <2>4
<1>8. Reached'
  <2> SUFFICES ASSUME NEW v \in Workers
               PROVE  /\ pc'[v] \in {"credit", "lookup"} => IsCredit(v)
                      /\ pc'[v] = "reply" /\ IsCredit(v) => credit'[req[v].customer] = req[v].body
                      /\ pc'[v] = "lookup" /\ credit'[req[v].customer] = None =>
                            \E h \in used'[req[v].staff] : h # Hash(req[v])
    BY DEF Reached, Commit, IsCredit
  <2>1. CASE v = w
    BY <1>0, <2>1 DEF TypeOK, Commit, Goto, IsCredit
  <2>2. CASE v # w
    <3>1. pc'[v] = pc[v]
      BY <2>2 DEF TypeOK, Commit, Goto
    <3>2. pc[v] # "idle" => /\ req[v].staff \in Staff /\ req[v].body # None
                            /\ IsCredit(v) => req[v].customer \in Customers
      BY RequestShape, NoneAssumption DEF TypeOK, IsCredit
    <3>3. pc[v] \in {"credit", "lookup"} => IsCredit(v)
      BY DEF Reached
    <3>4. pc[v] = "reply" /\ IsCredit(v) => credit'[req[v].customer] = req[v].body
      BY <1>2, <3>2 DEF Reached
    <3>5. pc[v] = "lookup" /\ credit'[req[v].customer] = None =>
              \E h \in used'[req[v].staff] : h # Hash(req[v])
      BY <1>2, <1>3, <3>2, <3>3 DEF Reached
    <3> QED
      BY <3>1, <3>3, <3>4, <3>5
  <2> QED
    BY <2>1, <2>2
<1>9. AnsweredTruly'
  BY <1>2 DEF TypeOK, Answers, Commit, Goto, AnsweredTruly
<1>10. ConflictIsReal'
  <2> SUFFICES ASSUME NEW v \in Workers, answer[v] # None, answer[v].credit = None
               PROVE  \E h \in used'[req[v].staff] : h # Hash(req[v])
    BY DEF ConflictIsReal, Commit
  <2>1. req[v].staff \in Staff
    BY RequestShape DEF TypeOK, AnsweredTruly
  <2> QED
    BY <1>3, <2>1 DEF ConflictIsReal
<1> QED
  BY <1>1, <1>4, <1>5, <1>6, <1>7, <1>8, <1>9, <1>10

LEMMA CleanupInv == ASSUME IInv, Cleanup PROVE IInv'
<1> USE DEF IInv
<1>1. TypeOK' /\ HistoryIsIssued' /\ RecordedIsUsed' /\ AuditCounts'
  BY DEF TypeOK, Cleanup, HistoryIsIssued, RecordedIsUsed, AuditCounts
<1>2. CreditRowAlone' /\ Reached' /\ AnsweredTruly' /\ ConflictIsReal'
  BY DEF Cleanup, CreditRowAlone, CreditInDoubt, HasCreditRow, IsCredit, Reached, AnsweredTruly,
         ConflictIsReal
<1> QED
  BY <1>1, <1>2

LEMMA StutterInv == ASSUME IInv, UNCHANGED vars PROVE IInv'
BY DEF vars, IInv, TypeOK, HistoryIsIssued, RecordedIsUsed, AuditCounts, CreditRowAlone,
       CreditInDoubt, HasCreditRow, IsCredit, Reached, AnsweredTruly, ConflictIsReal

\* Every step preserves the inductive invariant.
LEMMA NextInv == ASSUME IInv, [Next]_vars PROVE IInv'
<1>1. ASSUME NEW w \in Workers, Receive(w) PROVE IInv'
  BY <1>1, ReceiveInv
<1>2. ASSUME NEW w \in Workers, Step(w) PROVE IInv'
  BY <1>2, ReplayInv, NoReplayInv, InsertCreditInv, InsertKeyInv, CommitInv, ReplyInv, LookupInv
     DEF Step
<1>3. ASSUME NEW w \in Workers, Abort(w) PROVE IInv'
  BY <1>3, DropInv DEF Abort
<1> QED
  BY <1>1, <1>2, <1>3, CleanupInv, StutterInv DEF Next

LEMMA IInvAlways == Spec => []IInv
<1>1. Init => IInv
  BY InitIInv
<1>2. IInv /\ [Next]_vars => IInv'
  BY NextInv
<1> QED
  BY <1>1, <1>2, PTL DEF Spec

\* Every variable keeps its type (Credit, IdempotencyKey and the handler).
THEOREM TypeCorrect == Spec => []TypeOK
<1>1. IInv => TypeOK
  BY DEF IInv
<1> QED
  BY <1>1, IInvAlways, PTL

\* A stored response is that of an issued credit (IssueCreditView.post).
THEOREM Recorded == Spec => []RecordedIsIssued
<1>1. IInv => RecordedIsIssued
  BY DEF IInv, RecordedIsUsed, HistoryIsIssued, RecordedIsIssued
<1> QED
  BY <1>1, IInvAlways, PTL

\* A 409 is answered only to a request that differs from a recorded one.
THEOREM Conflicts == Spec => []ConflictIsReal
<1>1. IInv => ConflictIsReal
  BY DEF IInv
<1> QED
  BY <1>1, IInvAlways, PTL
-----------------------------------------------------------------------------
(* OpsCredits implements CreditLedger                                      *)

LEMMA ToldAfter ==
    ASSUME TypeOK, NEW w \in Workers, NEW x, answer' = [answer EXCEPT ![w] = x]
    PROVE  ToldCredit' = [ToldCredit EXCEPT
                             ![w] = IF x # None /\ x.customer # None THEN x ELSE None]
BY DEF TypeOK, ToldCredit

\* A true answer is a Confirm, a Refuse or, for an override, no news.
LEMMA RespondRefines ==
    ASSUME IInv, NEW w \in Workers, NEW b \in Bodies \cup {None}, pc[w] # "idle",
           Respond(w, b),
           IsCredit(w) /\ b # None => b = credit[req[w].customer],
           b = None => \E h \in used[req[w].staff] : h # Hash(req[w])
    PROVE  Ledger!Next
<1> DEFINE c == req[w].customer
           x == [customer |-> c, credit |-> b]
<1>1. req[w].staff \in Staff /\ c \in Customers \cup {None} /\ req[w].body \in Bodies
  BY RequestShape DEF IInv, TypeOK
<1>2. x # None
  BY <1>1, NoneAssumption
<1>3. ToldCredit' = [ToldCredit EXCEPT ![w] = IF c # None THEN x ELSE None]
  BY <1>2, ToldAfter DEF IInv, Respond
<1>4. UNCHANGED <<credit, audit, used>>
  BY DEF Respond, tables
<1>5. CASE IsCredit(w) /\ b # None
  <2>1. Ledger!Confirm(w, c)
    BY <1>3, <1>4, <1>5 DEF Ledger!Confirm, IsCredit
  <2> QED
    BY <1>1, <1>5, <2>1 DEF Ledger!Next, IsCredit
<1>6. CASE IsCredit(w) /\ b = None
  <2>1. Ledger!Refuse(w, req[w].staff, c, req[w].body)
    BY <1>3, <1>4, <1>6 DEF Ledger!Refuse, IsCredit, Hash
  <2> QED
    BY <1>1, <1>6, <2>1 DEF Ledger!Next, IsCredit
<1>7. CASE ~IsCredit(w)
  <2>1. Ledger!Forget(w)
    BY <1>3, <1>4, <1>7 DEF Ledger!Forget, IsCredit
  <2> QED
    BY <2>1 DEF Ledger!Next
<1> QED
  BY <1>5, <1>6, <1>7

LEMMA AnswerRefines ==
    ASSUME IInv, NEW w \in Workers, Replay(w) \/ Reply(w) \/ Lookup(w)
    PROVE  Ledger!Next
<1> USE DEF IInv
<1>0. req[w] \in Requests /\ req[w].staff \in Staff /\ req[w].body \in Bodies
  BY RequestShape DEF TypeOK, Replay, Reply, Lookup
<1>1. CASE Replay(w)
  <2> DEFINE h == idem[req[w].staff]
  <2>1. h \in Hashes /\ h \in used[req[w].staff]
    BY <1>0, <1>1 DEF TypeOK, RecordedIsUsed, Replay
  <2>2. CASE Matches(w)
    <3>1. h.customer = req[w].customer /\ h.body \in Bodies /\ h.body # None
      BY <1>0, <2>1, <2>2, RequestShape, HashShape, NoneAssumption DEF Matches
    <3>2. IsCredit(w) => h.body = credit[req[w].customer]
      BY <1>0, <2>1, <3>1 DEF HistoryIsIssued, IsCredit
    <3> QED
      BY <1>1, <2>2, <3>1, <3>2, RespondRefines DEF Replay
  <2>3. CASE ~Matches(w)
    <3>1. h \in used[req[w].staff] /\ h # Hash(req[w])
      BY <2>1, <2>3 DEF Matches
    <3> QED
      BY <1>1, <2>3, <3>1, RespondRefines DEF Replay
  <2> QED
    BY <2>2, <2>3
<1>2. CASE Reply(w)
  <2>1. req[w].body # None /\ (IsCredit(w) => req[w].body = credit[req[w].customer])
    BY <1>0, <1>2, NoneAssumption DEF Reached, Reply
  <2> QED
    BY <1>0, <1>2, <2>1, RespondRefines DEF Reply
<1>3. CASE Lookup(w)
  <2>1. IsCredit(w) /\ req[w].customer \in Customers
    BY <1>0, <1>3, RequestShape DEF Reached, Lookup, IsCredit
  <2>2. credit[req[w].customer] \in Bodies \cup {None}
    BY <2>1 DEF TypeOK
  <2>3. credit[req[w].customer] = None => \E h \in used[req[w].staff] : h # Hash(req[w])
    BY <1>3 DEF Reached, Lookup
  <2> QED
    BY <1>3, <2>1, <2>2, <2>3, RespondRefines DEF Lookup
<1> QED
  BY <1>1, <1>2, <1>3

LEMMA CommitRefines == ASSUME IInv, NEW w \in Workers, Commit(w) PROVE Ledger!Next
<1> DEFINE r == req[w]
<1>0. /\ r \in Requests /\ r.staff \in Staff /\ r.customer \in Customers \cup {None}
      /\ r.body \in Bodies /\ Hash(r) = [customer |-> r.customer, body |-> r.body]
      /\ IsCredit(w) => r.customer \in Customers /\ credit[r.customer] = None
  BY CommitFindsNone DEF IsCredit, Hash
<1>1. ToldCredit' = ToldCredit
  BY DEF Commit, ToldCredit
<1>2. CASE IsCredit(w)
  <2>1. audit' = [audit EXCEPT ![r.customer] = 1]
    BY <1>0, <1>2 DEF IInv, TypeOK, AuditCounts, Commit
  <2>2. Ledger!Issue(r.staff, r.customer, r.body)
    BY <1>0, <1>1, <1>2, <2>1 DEF Ledger!Issue, Commit
  <2> QED
    BY <1>0, <1>2, <2>2 DEF Ledger!Next
<1>3. CASE ~IsCredit(w)
  <2>1. Ledger!Take(r.staff, r.body)
    BY <1>0, <1>1, <1>3 DEF Ledger!Take, Commit, IsCredit
  <2> QED
    BY <1>0, <2>1 DEF Ledger!Next
<1> QED
  BY <1>2, <1>3

LEMMA StepRefines ==
    ASSUME IInv, [Next]_vars
    PROVE  [Ledger!Next]_(Ledger!ledgerVars)
<1> USE DEF IInv
<1>1. ASSUME NEW w \in Workers, Receive(w) PROVE Ledger!Next
  <2>1. ToldCredit' = [ToldCredit EXCEPT ![w] = None]
    BY <1>1, ToldAfter DEF Receive
  <2>2. Ledger!Forget(w)
    BY <1>1, <2>1 DEF Ledger!Forget, Receive, tables
  <2> QED
    BY <2>2 DEF Ledger!Next
<1>2. ASSUME UNCHANGED <<credit, audit, used, answer>> PROVE UNCHANGED Ledger!ledgerVars
  BY <1>2 DEF Ledger!ledgerVars, ToldCredit
<1>3. ASSUME NEW w \in Workers, NoReplay(w) \/ InsertCredit(w) \/ InsertKey(w) \/ Abort(w)
      PROVE  UNCHANGED Ledger!ledgerVars
  BY <1>2, <1>3 DEF NoReplay, InsertCredit, InsertKey, Abort, Drop, tables
<1>4. CASE Cleanup \/ UNCHANGED vars
  BY <1>2, <1>4 DEF Cleanup, vars
<1> QED
  BY <1>1, <1>3, <1>4, AnswerRefines, CommitRefines DEF Next, Step

\* The console's credits are the ledger's: one credit and one audit row per
\* customer and key, and every success names it (IssueCreditView.post).
THEOREM ImplementsLedger == Spec => LedgerSpec
<1>1. Init => Ledger!Init
  BY DEF Init, Ledger!Init, ToldCredit
<1>2. IInv /\ [Next]_vars => [Ledger!Next]_(Ledger!ledgerVars)
  BY StepRefines
<1> QED
  BY <1>1, <1>2, IInvAlways, PTL DEF Spec, LedgerSpec, Ledger!Spec
===============================================================================
