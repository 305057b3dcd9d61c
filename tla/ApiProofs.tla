------------------------------- MODULE ApiProofs -------------------------------
(***************************************************************************)
(* Idempotency of invoice creation, for any number of requests, keys,      *)
(* orders, amounts and days and for every limit.                           *)
(***************************************************************************)
EXTENDS ApiRequests, SequenceTheorems, FiniteSetTheorems, TLAPS

InvoiceRow ==
    [request : Requests, day : 0..MaxDays, late : BOOLEAN,
     status : {"pending", "paid", "failed", "expired"}]

SessionRow ==
    [at : {"idle", "known", "answered"} \cup Inside, request : Requests \cup {NoRequest},
     began : 0..MaxDays, late : BOOLEAN,
     code : {None, "ok", "in_progress"}, invoice : DOMAIN invoices \cup {None}]

RecordRow == [request : Requests \cup {NoRequest}, invoice : DOMAIN invoices \cup {None}]

Slots == Environments \X IdemKeys

\* What the state of one request must be.
RowOK(x) ==
    /\ x \in SessionRow
    /\ x.at = "admitted" => x.request \in Requests
    /\ x.at = "answered" /\ x.code = "ok" =>
          x.invoice \in DOMAIN invoices /\ invoices[x.invoice].request = x.request

\* A response that is stored names an invoice made for the stored request; a
\* record without one was left by a refusal.
RecordOK(r) ==
    /\ records[r] \in RecordRow
    /\ records[r].invoice # None => invoices[records[r].invoice].request = records[r].request
    /\ records[r] # NoRecord /\ records[r].invoice = None => r \in blocked

TablesOK ==
    /\ invoices \in Seq(InvoiceRow)
    /\ DOMAIN records = Slots /\ records = [r \in Slots |-> records[r]]
    /\ \A r \in Slots : RecordOK(r)
    /\ expired \subseteq {r \in Slots : records[r] # NoRecord}
    /\ blocked \subseteq {r \in Slots : records[r] # NoRecord}
    /\ recent \subseteq Live
    /\ today \in 0..MaxDays

SessionsOK ==
    /\ session \in [Sessions -> SessionRow]
    /\ \A s \in Sessions : RowOK(session[s])

LockOK ==
    /\ key \in Sessions \cup {None}
    /\ \A s \in Sessions : key = s => session[s].at \in Inside

ApiInv == TablesOK /\ SessionsOK /\ LockOK /\ OneInvoicePerKey

-----------------------------------------------------------------------------
(* Requests that read the tables. *)

LEMMA IdleOK == ApiAssumption => RowOK(Idle) /\ Idle.at = "idle"
BY DEF ApiAssumption, RowOK, SessionRow, Idle, Inside

\* A request goes on; it may take or give back the key's row.
Reads(s, x) ==
    /\ RowOK(x)
    /\ session' = [session EXCEPT ![s] = x]
    /\ key' \in {key, None, s}
    /\ key' = s => x.at \in Inside

LEMMA ReadsKeep ==
    ASSUME ApiAssumption, SessionsOK, LockOK, NEW s \in Sessions, NEW x, Reads(s, x),
           UNCHANGED invoices
    PROVE  (SessionsOK /\ LockOK)'
<1>1. /\ x \in SessionRow /\ session \in [Sessions -> SessionRow]
      /\ session' = [session EXCEPT ![s] = x]
  BY DEF Reads, RowOK, SessionsOK
<1>2. session'[s] = x /\ \A t \in Sessions : t # s => session'[t] = session[t]
  BY <1>1
<1>3. SessionRow' = SessionRow /\ \A y : RowOK(y)' = RowOK(y)
  BY DEF SessionRow, RowOK
<1>4. \A t \in Sessions : RowOK(session'[t])
  BY <1>2 DEF Reads, SessionsOK
<1>5. SessionsOK'
  <2>1. session' \in [Sessions -> SessionRow]
    BY <1>1
  <2>2. \A t \in Sessions : RowOK(session[t])'
    BY <1>4 DEF RowOK, SessionRow
  <2> QED BY <2>1, <2>2 DEF SessionsOK, SessionRow
<1>6. LockOK'
  <2>1. None \notin Sessions
    BY DEF ApiAssumption
  <2> QED BY <1>2, <2>1 DEF LockOK, Reads
<1> QED BY <1>5, <1>6

LEMMA EndsReads ==
    ASSUME ApiAssumption, SessionsOK, LockOK, NEW s \in Sessions, NEW q \in Requests, NEW code, NEW i,
           Ends(s, q, code, i),
           \/ code \notin {"ok", "in_progress"}
           \/ code = "in_progress" /\ i = None
           \/ code = "ok" /\ i \in DOMAIN invoices /\ invoices[i].request = q
    PROVE  \E x : Reads(s, x)
<1> DEFINE x == IF code \in {"ok", "in_progress"}
                THEN [Idle EXCEPT !.at = "answered", !.request = q, !.code = code, !.invoice = i]
                ELSE Idle
<1>1. session' = [session EXCEPT ![s] = x] /\ key' = IF key = s THEN None ELSE key
  BY DEF Ends
<1>2. RowOK(x)
  <2>1. CASE code \notin {"ok", "in_progress"}
    BY <2>1, IdleOK
  <2>2. CASE code = "in_progress" /\ i = None
    BY <2>2, IdleOK DEF RowOK, SessionRow, Idle, Inside
  <2>3. CASE code = "ok" /\ i \in DOMAIN invoices /\ invoices[i].request = q
    BY <2>3, IdleOK DEF RowOK, SessionRow, Idle, Inside
  <2> QED BY <2>1, <2>2, <2>3
<1>3. key' # s
  BY <1>1 DEF ApiAssumption
<1> HIDE DEF x
<1> QED BY <1>1, <1>2, <1>3 DEF Reads

LEMMA QuietReads ==
    ASSUME ApiAssumption, ApiInv, NEW s \in Sessions,
           \/ Authenticate(s) \/ Touch(s) \/ CreateFails(s) \/ Leave(s) \/ Abort(s)
           \/ \E q \in Requests : AnswerFromRecord(s, q) \/ Admit(s, q) \/ AdmitSandbox(s, q)
    PROVE  /\ \E x : Reads(s, x)
           /\ UNCHANGED <<records, expired, invoices, recent, today, blocked>>
<1>1. /\ SessionsOK /\ LockOK /\ session \in [Sessions -> SessionRow] /\ RowOK(session[s])
      /\ session[s] \in SessionRow /\ today \in 0..MaxDays
      /\ (key = s => session[s].at \in Inside)
      /\ None \notin Sessions
  BY DEF ApiInv, SessionsOK, LockOK, TablesOK, ApiAssumption
<1>2. CASE Authenticate(s)
  <2> DEFINE x == [session[s] EXCEPT !.at = "known", !.began = today]
  <2>1. x \in SessionRow /\ x.at = "known"
    BY <1>1 DEF SessionRow
  <2>2. /\ session' = [session EXCEPT ![s] = x] /\ key' = key /\ key # s
        /\ UNCHANGED <<records, expired, invoices, recent, today, blocked>>
    BY <1>1, <1>2 DEF Authenticate, Inside
  <2> HIDE DEF x
  <2>3. Reads(s, x)
    BY <2>1, <2>2 DEF Reads, RowOK
  <2> QED BY <2>2, <2>3
<1>3. CASE Touch(s)
  <2> DEFINE x == [session[s] EXCEPT !.at = "touched"]
  <2>1. x \in SessionRow /\ x.at = "touched"
    BY <1>1 DEF SessionRow, Inside
  <2>2. /\ session' = [session EXCEPT ![s] = x] /\ key' = s
        /\ UNCHANGED <<records, expired, invoices, recent, today, blocked>>
    BY <1>1, <1>3 DEF Touch
  <2> HIDE DEF x
  <2>3. Reads(s, x)
    BY <2>1, <2>2 DEF Reads, RowOK, Inside
  <2> QED BY <2>2, <2>3
<1>4. ASSUME NEW q \in Requests, Admit(s, q) \/ AdmitSandbox(s, q)
      PROVE  /\ \E x : Reads(s, x)
             /\ UNCHANGED <<records, expired, invoices, recent, today, blocked>>
  <2>1. PICK late \in BOOLEAN :
          session' = [session EXCEPT ![s] = [session[s] EXCEPT !.at = "admitted", !.request = q, !.late = late]]
    <3>1. CASE Admit(s, q)
      <4>1. (today # session[s].began) \in BOOLEAN
        OBVIOUS
      <4> QED BY <1>1, <3>1, <4>1 DEF Admit
    <3>2. CASE AdmitSandbox(s, q)
      <4>1. session[s].late \in BOOLEAN
        BY <1>1 DEF SessionRow
      <4>2. [session[s] EXCEPT !.at = "admitted", !.request = q]
              = [session[s] EXCEPT !.at = "admitted", !.request = q, !.late = session[s].late]
        BY <1>1 DEF SessionRow
      <4>3. session' = [session EXCEPT ![s] = [session[s] EXCEPT !.at = "admitted", !.request = q]]
        BY <1>1, <3>2 DEF AdmitSandbox
      <4> QED BY <4>1, <4>2, <4>3
    <3> QED BY <1>4, <3>1, <3>2
  <2> DEFINE x == [session[s] EXCEPT !.at = "admitted", !.request = q, !.late = late]
  <2>2. x \in SessionRow /\ x.at = "admitted" /\ x.request \in Requests
    BY <1>1 DEF SessionRow, Inside
  <2>3. /\ session' = [session EXCEPT ![s] = x] /\ key' = key
        /\ UNCHANGED <<records, expired, invoices, recent, today, blocked>>
    BY <1>4, <2>1 DEF Admit, AdmitSandbox
  <2> HIDE DEF x
  <2>4. Reads(s, x)
    BY <2>2, <2>3 DEF Reads, RowOK, Inside
  <2> QED BY <2>3, <2>4
<1>5. CASE Leave(s) \/ Abort(s)
  <2>1. /\ session' = [session EXCEPT ![s] = Idle] /\ key' \in {key, None} /\ key' # s
        /\ UNCHANGED <<records, expired, invoices, recent, today, blocked>>
    BY <1>1, <1>5 DEF Leave, Abort, Inside
  <2>2. Reads(s, Idle)
    BY <2>1, IdleOK DEF Reads
  <2> QED BY <2>1, <2>2
<1>6. CASE CreateFails(s)
  <2>1. session[s].request \in Requests
    BY <1>1, <1>6 DEF CreateFails, RowOK
  <2>2. \E code \in {"conflict", "failed"} : Ends(s, session[s].request, code, None)
    BY <1>6 DEF CreateFails
  <2>3. \E x : Reads(s, x)
    BY <1>1, <2>1, <2>2, EndsReads
  <2> QED BY <1>6, <2>3 DEF CreateFails
<1>7. ASSUME NEW q \in Requests, AnswerFromRecord(s, q)
      PROVE  /\ \E x : Reads(s, x)
             /\ UNCHANGED <<records, expired, invoices, recent, today, blocked>>
  <2> DEFINE i == records[Slot(q)].invoice
  <2>1. Slot(q) \in Slots
    BY <1>7 DEF AnswerFromRecord, InForce, Slot, Slots, Requests
  <2>2. RecordOK(Slot(q))
    BY <2>1 DEF ApiInv, TablesOK
  <2>3. i \in DOMAIN invoices \cup {None}
    BY <2>2 DEF RecordOK, RecordRow
  <2>4. i # None /\ RepeatOf(q) => i \in DOMAIN invoices /\ invoices[i].request = q
    BY <2>2, <2>3 DEF RecordOK, RepeatOf
  <2>5. \/ Ends(s, q, "reused", None)
        \/ i = None /\ Ends(s, q, "in_progress", i)
        \/ i # None /\ RepeatOf(q) /\ Ends(s, q, "ok", i)
    BY <1>7 DEF AnswerFromRecord
  <2> HIDE DEF i
  <2>6. \E x : Reads(s, x)
    BY <1>1, <2>4, <2>5, EndsReads
  <2> QED BY <1>7, <2>6 DEF AnswerFromRecord
<1> QED BY <1>2, <1>3, <1>4, <1>5, <1>6, <1>7

LEMMA QuietKeeps ==
    ASSUME ApiAssumption, ApiInv, NEW s \in Sessions, NEW x, Reads(s, x),
           UNCHANGED <<records, expired, invoices, recent, today, blocked>>
    PROVE  ApiInv'
<1>1. (SessionsOK /\ LockOK)'
  BY ReadsKeep DEF ApiInv
<1>2. TablesOK'
  BY DEF ApiInv, TablesOK, RecordOK, RecordRow, InvoiceRow, Live
<1>3. OneInvoicePerKey'
  BY DEF ApiInv, OneInvoicePerKey
<1> QED BY <1>1, <1>2, <1>3 DEF ApiInv

-----------------------------------------------------------------------------
(* Requests that write. *)

\* The record a request writes, if it has a key; the others stay.
LEMMA Recorded ==
    ASSUME ApiAssumption, TablesOK, NEW q \in Requests, NEW i, Record(q, i)
    PROVE  /\ DOMAIN records' = Slots /\ records' = [r \in Slots |-> records'[r]]
           /\ \A r \in Slots \ {Slot(q)} : records'[r] = records[r]
           /\ Slot(q) \in Slots <=> q.idem # None
           /\ Slot(q) \in Slots => /\ records'[Slot(q)] = [request |-> q, invoice |-> i]
                                   /\ records'[Slot(q)] # NoRecord
           /\ expired' = expired \ {Slot(q)}
<1>1. records' = [r \in Slots |-> IF r = Slot(q) THEN [request |-> q, invoice |-> i] ELSE records[r]]
  BY DEF Record, TablesOK
<1>2. Slot(q) \in Slots <=> q.idem # None
  BY DEF Slot, Slots, Requests, ApiAssumption
<1>3. q.idem # None => [request |-> q, invoice |-> i] # NoRecord
  <2>1. q.idem # None => q # NoRequest
    BY DEF NoRequest
  <2> QED BY <2>1 DEF NoRecord
<1> QED BY <1>1, <1>2, <1>3 DEF Record

LEMMA RefuseKeeps ==
    ASSUME ApiAssumption, ApiInv, NEW s \in Sessions, NEW q \in Requests, Refuse(s, q)
    PROVE  ApiInv'
<1>1. TablesOK /\ SessionsOK /\ LockOK /\ OneInvoicePerKey
  BY DEF ApiInv
<1>2. Record(q, None) /\ Ends(s, q, "refused", None) /\ UNCHANGED <<invoices, recent, today>>
  BY DEF Refuse
<1>3. PICK x : Reads(s, x)
  BY <1>1, <1>2, EndsReads
<1>4. (SessionsOK /\ LockOK)'
  BY <1>1, <1>2, <1>3, ReadsKeep
<1>5. /\ DOMAIN records' = Slots /\ records' = [r \in Slots |-> records'[r]]
      /\ \A r \in Slots \ {Slot(q)} : records'[r] = records[r]
      /\ Slot(q) \in Slots <=> q.idem # None
      /\ Slot(q) \in Slots => /\ records'[Slot(q)] = [request |-> q, invoice |-> None]
                              /\ records'[Slot(q)] # NoRecord
      /\ expired' = expired \ {Slot(q)}
  BY <1>1, <1>2, Recorded
<1>6. blocked' = IF q.idem = None THEN blocked ELSE blocked \cup {Slot(q)}
  BY DEF Refuse
<1>7. ASSUME NEW r \in Slots
      PROVE  RecordOK(r)'
  <2>1. CASE r = Slot(q)
    <3>1. [request |-> q, invoice |-> None] \in RecordRow'
      BY DEF RecordRow
    <3>2. records'[r] = [request |-> q, invoice |-> None] /\ r \in blocked'
      BY <1>5, <1>6, <2>1
    <3> QED BY <3>1, <3>2 DEF RecordOK
  <2>2. CASE r # Slot(q)
    <3>1. records'[r] = records[r] /\ (r \in blocked => r \in blocked') /\ RecordOK(r)
      BY <1>1, <1>5, <1>6, <2>2 DEF TablesOK
    <3> QED BY <1>2, <3>1 DEF RecordOK, RecordRow
  <2> QED BY <2>1, <2>2
<1>8. /\ expired' \subseteq {r \in Slots : records'[r] # NoRecord}
      /\ blocked' \subseteq {r \in Slots : records'[r] # NoRecord}
  BY <1>1, <1>5, <1>6 DEF TablesOK
<1>9. TablesOK'
  <2>1. (invoices \in Seq(InvoiceRow) /\ recent \subseteq Live /\ today \in 0..MaxDays)'
    BY <1>1, <1>2 DEF TablesOK, InvoiceRow, Live
  <2> QED BY <1>5, <1>7, <1>8, <2>1 DEF TablesOK
<1>10. OneInvoicePerKey'
  BY <1>1, <1>2 DEF OneInvoicePerKey
<1> QED BY <1>4, <1>9, <1>10 DEF ApiInv

\* Invoices stay and keep the request they were made for.
InvoicesGrow ==
    /\ DOMAIN invoices \subseteq DOMAIN invoices'
    /\ \A i \in DOMAIN invoices : invoices'[i].request = invoices[i].request

LEMMA RowsGrow ==
    ASSUME InvoicesGrow, NEW x, RowOK(x)
    PROVE  RowOK(x)'
<1>1. SessionRow \subseteq SessionRow'
  BY DEF SessionRow, InvoicesGrow
<1> QED BY <1>1 DEF RowOK, InvoicesGrow

LEMMA RecordsGrow ==
    ASSUME ApiAssumption, TablesOK, InvoicesGrow, NEW r \in Slots, records'[r] = records[r],
           r \in blocked => r \in blocked' \/ records[r].invoice # None
    PROVE  RecordOK(r)'
<1>1. RecordOK(r) /\ RecordRow \subseteq RecordRow'
  BY DEF TablesOK, RecordRow, InvoicesGrow
<1>2. records[r].invoice # None => records[r].invoice \in DOMAIN invoices
  BY <1>1 DEF RecordOK, RecordRow
<1> QED BY <1>1, <1>2 DEF RecordOK, InvoicesGrow

LEMMA CreateKeeps ==
    ASSUME ApiAssumption, ApiInv, NEW s \in Sessions, Create(s)
    PROVE  ApiInv'
<1> DEFINE q == session[s].request
           i == Len(invoices) + 1
           row == [request |-> q, day |-> session[s].began, late |-> session[s].late, status |-> "pending"]
<1>1. /\ TablesOK /\ SessionsOK /\ LockOK /\ OneInvoicePerKey
      /\ session[s] \in SessionRow /\ RowOK(session[s]) /\ session[s].at = "admitted"
  BY DEF ApiInv, SessionsOK, Create
<1>2. q \in Requests /\ row \in InvoiceRow
  BY <1>1 DEF RowOK, SessionRow, InvoiceRow
<1>3. /\ ~Conflict(q) /\ invoices' = Append(invoices, row) /\ Record(q, i)
      /\ recent' = (IF q.env = "live" THEN recent \cup {i} ELSE recent)
      /\ blocked' = blocked \ {Slot(q)} /\ Ends(s, q, "ok", i) /\ today' = today
  BY DEF Create
<1> HIDE DEF q, row
<1>4. /\ invoices \in Seq(InvoiceRow) /\ i \in Nat /\ invoices' \in Seq(InvoiceRow)
      /\ DOMAIN invoices = 1..Len(invoices) /\ DOMAIN invoices' = DOMAIN invoices \cup {i}
      /\ invoices'[i] = row /\ i \notin DOMAIN invoices
      /\ \A j \in DOMAIN invoices : invoices'[j] = invoices[j]
  <2>1. invoices \in Seq(InvoiceRow) /\ Len(invoices) \in Nat
    BY <1>1, LenProperties DEF TablesOK
  <2> QED BY <1>2, <1>3, <2>1, AppendProperties
<1>5. InvoicesGrow
  BY <1>4 DEF InvoicesGrow
<1>6. row.request = q
  BY DEF row
<1>7. i # None
  BY <1>4 DEF ApiAssumption
<1>8. /\ DOMAIN records' = Slots /\ records' = [r \in Slots |-> records'[r]]
      /\ \A r \in Slots \ {Slot(q)} : records'[r] = records[r]
      /\ Slot(q) \in Slots => /\ records'[Slot(q)] = [request |-> q, invoice |-> i]
                              /\ records'[Slot(q)] # NoRecord
      /\ expired' = expired \ {Slot(q)}
  BY <1>1, <1>2, <1>3, Recorded
<1>9. ASSUME NEW r \in Slots
      PROVE  RecordOK(r)'
  <2>1. CASE r = Slot(q)
    <3>1. records'[r] = [request |-> q, invoice |-> i]
      BY <1>8, <2>1
    <3>2. [request |-> q, invoice |-> i] \in RecordRow'
      BY <1>2, <1>4 DEF RecordRow
    <3> QED BY <1>4, <1>6, <1>7, <3>1, <3>2 DEF RecordOK
  <2>2. CASE r # Slot(q)
    <3>1. records'[r] = records[r] /\ (r \in blocked => r \in blocked')
      BY <1>3, <1>8, <2>2
    <3> QED BY <1>1, <1>5, <3>1, RecordsGrow
  <2> QED BY <2>1, <2>2
<1>10. (recent \subseteq Live)'
  <2>1. Live \subseteq Live' /\ (q.env = "live" => i \in Live')
    BY <1>4, <1>6 DEF Live
  <2> QED BY <1>1, <1>3, <2>1 DEF TablesOK
<1>11. TablesOK'
  <2>1. /\ expired' \subseteq {r \in Slots : records'[r] # NoRecord}
        /\ blocked' \subseteq {r \in Slots : records'[r] # NoRecord}
    BY <1>1, <1>3, <1>8 DEF TablesOK
  <2>2. InvoiceRow' = InvoiceRow /\ (today \in 0..MaxDays)'
    BY <1>1, <1>3 DEF InvoiceRow, TablesOK
  <2> QED BY <1>4, <1>8, <1>9, <1>10, <2>1, <2>2 DEF TablesOK
<1>12. PICK x :
         /\ x = [Idle EXCEPT !.at = "answered", !.request = q, !.code = "ok", !.invoice = i]
         /\ session' = [session EXCEPT ![s] = x] /\ key' = (IF key = s THEN None ELSE key)
  BY <1>3 DEF Ends
<1>13. RowOK(x)' /\ x.at = "answered"
  <2>1. /\ x \in [at : {"answered"}, request : {q}, began : {0}, late : {FALSE}, code : {"ok"}, invoice : {i}]
    BY <1>12 DEF Idle
  <2>2. x \in SessionRow'
    <3>1. q \in Requests /\ i \in DOMAIN invoices' /\ 0 \in 0..MaxDays
      BY <1>2, <1>4 DEF ApiAssumption
    <3> QED BY <2>1, <3>1 DEF SessionRow
  <2> QED BY <1>4, <1>6, <2>1, <2>2 DEF RowOK
<1>14. SessionsOK'
  <2>1. session \in [Sessions -> SessionRow] /\ \A t \in Sessions : RowOK(session[t])
    BY <1>1 DEF SessionsOK
  <2>2. \A t \in Sessions : RowOK(session[t])'
    <3>1. \A y : RowOK(y) => RowOK(y)'
      BY <1>5, RowsGrow
    <3> TAKE t \in Sessions
    <3>2. CASE t = s
      <4>1. session'[t] = x
        BY <1>12, <2>1, <3>2
      <4>2. \A y : y = session'[t] /\ RowOK(y)' => RowOK(session[t])'
        BY DEF RowOK, SessionRow
      <4> QED BY <1>13, <4>1, <4>2
    <3>3. CASE t # s
      <4>1. session'[t] = session[t]
        BY <1>12, <2>1, <3>3
      <4>2. PICK y : y = session[t] /\ RowOK(y)
        BY <2>1
      <4>3. RowOK(y)' /\ y = session'[t]
        BY <3>1, <4>1, <4>2
      <4> QED BY <4>3 DEF RowOK, SessionRow
    <3> QED BY <3>2, <3>3
  <2>3. session' \in [Sessions -> SessionRow']
    BY <1>12, <2>1, <2>2 DEF RowOK
  <2> QED BY <2>2, <2>3 DEF SessionsOK
<1>15. LockOK'
  <2>1. None \notin Sessions
    BY DEF ApiAssumption
  <2> QED BY <1>1, <1>12, <1>13, <2>1 DEF LockOK, SessionsOK
<1>16. OneInvoicePerKey'
  <2>1. \A j \in DOMAIN invoices : Slot(invoices[j].request) = Slot(q) => q.idem = None
    BY <1>3 DEF Conflict, SameTable, Slot
  <2>2. \A j \in DOMAIN invoices :
          /\ Slot(invoices[j].request) = Slot(q) => q.idem = None
          /\ Slot(invoices[j].request) = Slot(q) => invoices[j].request.idem = q.idem
    BY <2>1 DEF Slot
  <2> QED BY <1>1, <1>4, <1>6, <2>2 DEF OneInvoicePerKey
<1> QED BY <1>11, <1>14, <1>15, <1>16 DEF ApiInv

\* An invoice changes its status.
LEMMA StatusKeeps ==
    ASSUME ApiAssumption, ApiInv, NEW i \in DOMAIN invoices,
           NEW status \in {"pending", "paid", "failed", "expired"},
           invoices' = [invoices EXCEPT ![i].status = status],
           UNCHANGED <<records, expired, recent, today, key, session, blocked>>
    PROVE  ApiInv'
<1>1. TablesOK /\ SessionsOK /\ LockOK /\ OneInvoicePerKey /\ invoices \in Seq(InvoiceRow)
  BY DEF ApiInv, TablesOK
<1>2. /\ DOMAIN invoices' = DOMAIN invoices
      /\ \A j \in DOMAIN invoices : invoices'[j].request = invoices[j].request
      /\ invoices' \in Seq(InvoiceRow)
  <2>1. [invoices[i] EXCEPT !.status = status] \in InvoiceRow
    <3>1. invoices[i] \in InvoiceRow
      BY <1>1, ElementOfSeq, LenProperties
    <3> QED BY <3>1 DEF InvoiceRow
  <2>2. invoices' = [invoices EXCEPT ![i] = [invoices[i] EXCEPT !.status = status]]
    OBVIOUS
  <2>3. invoices' \in Seq(InvoiceRow)
    BY <1>1, <2>1, <2>2, ExceptSeq, LenProperties
  <2>4. /\ DOMAIN invoices' = DOMAIN invoices
        /\ \A j \in DOMAIN invoices : invoices'[j] =
              IF j = i THEN [invoices[i] EXCEPT !.status = status] ELSE invoices[j]
    BY <2>2
  <2>5. [invoices[i] EXCEPT !.status = status].request = invoices[i].request
    <3>1. invoices[i] \in InvoiceRow
      BY <1>1, ElementOfSeq, LenProperties
    <3> QED BY <3>1 DEF InvoiceRow
  <2> QED BY <2>3, <2>4, <2>5
<1>3. InvoicesGrow
  BY <1>2 DEF InvoicesGrow
<1>4. TablesOK'
  <2>1. \A r \in Slots : RecordOK(r)'
    BY <1>1, <1>3, RecordsGrow
  <2>2. Live' = Live /\ InvoiceRow' = InvoiceRow
    BY <1>2 DEF Live, InvoiceRow
  <2> QED BY <1>1, <1>2, <2>1, <2>2 DEF TablesOK
<1>5. SessionsOK' /\ LockOK'
  <2>1. \A t \in Sessions : RowOK(session[t])'
    <3> TAKE t \in Sessions
    <3>1. RowOK(session[t])
      BY <1>1 DEF SessionsOK
    <3> QED BY <1>2, <3>1 DEF RowOK, SessionRow
  <2>2. SessionRow' = SessionRow
    BY <1>2 DEF SessionRow
  <2> QED BY <1>1, <2>1, <2>2 DEF SessionsOK, LockOK
<1>6. OneInvoicePerKey'
  BY <1>1, <1>2 DEF OneInvoicePerKey
<1> QED BY <1>4, <1>5, <1>6 DEF ApiInv

-----------------------------------------------------------------------------
(* The invariant. *)

LEMMA ApiInit == ApiAssumption /\ Init => ApiInv
<1> SUFFICES ASSUME ApiAssumption, Init
             PROVE  ApiInv
  OBVIOUS
<1>1. /\ records = [r \in Slots |-> NoRecord] /\ invoices = <<>> /\ expired = {} /\ blocked = {}
      /\ recent = {} /\ today = 0 /\ key = None /\ session = [s \in Sessions |-> Idle]
  BY DEF Init, Slots
<1>2. \A r \in Slots : RecordOK(r)
  <2>1. NoRecord \in RecordRow /\ NoRecord.invoice = None
    BY DEF NoRecord, RecordRow
  <2> QED BY <1>1, <2>1 DEF RecordOK
<1>3. TablesOK
  BY <1>1, <1>2 DEF TablesOK, ApiAssumption
<1>4. SessionsOK
  <2>1. RowOK(Idle) /\ Idle \in SessionRow
    BY IdleOK DEF RowOK
  <2> QED BY <1>1, <2>1 DEF SessionsOK
<1>5. LockOK /\ OneInvoicePerKey
  BY <1>1 DEF LockOK, OneInvoicePerKey, ApiAssumption
<1> QED BY <1>3, <1>4, <1>5 DEF ApiInv

\* Time passes and records go.
LEMMA ClockKeeps ==
    ASSUME ApiAssumption, ApiInv,
           \/ MinutePasses \/ Midnight \/ CleanupExpiredIdempotency
           \/ \E r \in DOMAIN records : RecordExpires(r)
    PROVE  ApiInv'
<1>1. TablesOK /\ SessionsOK /\ LockOK /\ OneInvoicePerKey
  BY DEF ApiInv
<1>2. UNCHANGED <<invoices, key, session>>
  BY DEF MinutePasses, Midnight, CleanupExpiredIdempotency, RecordExpires
<1>3. (SessionsOK /\ LockOK /\ OneInvoicePerKey)'
  BY <1>1, <1>2 DEF SessionsOK, LockOK, OneInvoicePerKey, RowOK, SessionRow
<1>4. InvoiceRow' = InvoiceRow /\ Live' = Live
  BY <1>2 DEF InvoiceRow, Live
<1>5. CASE MinutePasses \/ Midnight
  <2>1. UNCHANGED <<records, expired, blocked>>
    BY <1>5 DEF MinutePasses, Midnight
  <2>2. recent' \subseteq recent /\ today' \in 0..MaxDays
    BY <1>1, <1>5 DEF MinutePasses, Midnight, TablesOK, ApiAssumption
  <2>3. \A r \in Slots : RecordOK(r)'
    BY <1>1, <1>2, <2>1 DEF TablesOK, RecordOK, RecordRow
  <2>4. TablesOK'
    BY <1>1, <1>2, <1>4, <2>1, <2>2, <2>3 DEF TablesOK
  <2> QED BY <1>3, <2>4 DEF ApiInv
<1>6. CASE \E r \in DOMAIN records : RecordExpires(r)
  <2>1. PICK o \in DOMAIN records : RecordExpires(o)
    BY <1>6
  <2>2. /\ records[o] # NoRecord /\ expired' = expired \cup {o}
        /\ UNCHANGED <<records, recent, today, blocked>>
    BY <2>1 DEF RecordExpires
  <2>3. \A r \in Slots : RecordOK(r)'
    BY <1>1, <1>2, <2>2 DEF TablesOK, RecordOK, RecordRow
  <2>4. TablesOK'
    BY <1>1, <1>2, <1>4, <2>2, <2>3 DEF TablesOK
  <2> QED BY <1>3, <2>4 DEF ApiInv
<1>7. CASE CleanupExpiredIdempotency
  <2>1. /\ records' = [r \in Slots |-> IF r \in expired THEN NoRecord ELSE records[r]]
        /\ blocked' = blocked \ expired /\ expired' = {} /\ UNCHANGED <<recent, today>>
    BY <1>1, <1>7 DEF CleanupExpiredIdempotency, TablesOK
  <2>2. ASSUME NEW r \in Slots
        PROVE  RecordOK(r)'
    <3>1. CASE r \in expired
      <4>1. records'[r] = NoRecord
        BY <2>1, <3>1
      <4> QED BY <4>1 DEF RecordOK, RecordRow, NoRecord
    <3>2. CASE r \notin expired
      <4>1. records'[r] = records[r] /\ (r \in blocked => r \in blocked')
        BY <2>1, <3>2
      <4> QED BY <1>1, <1>2, <4>1 DEF TablesOK, RecordOK, RecordRow
    <3> QED BY <3>1, <3>2
  <2>3. blocked' \subseteq {r \in Slots : records'[r] # NoRecord}
    BY <1>1, <2>1 DEF TablesOK
  <2>4. TablesOK'
    BY <1>1, <1>2, <1>4, <2>1, <2>2, <2>3 DEF TablesOK
  <2> QED BY <1>3, <2>4 DEF ApiInv
<1> QED BY <1>5, <1>6, <1>7

LEMMA ApiStep == ApiAssumption /\ ApiInv /\ [Next]_vars => ApiInv'
<1> SUFFICES ASSUME ApiAssumption, ApiInv, [Next]_vars
             PROVE  ApiInv'
  OBVIOUS
<1>1. ASSUME NEW s \in Sessions,
             \/ Authenticate(s) \/ Touch(s) \/ CreateFails(s) \/ Leave(s) \/ Abort(s)
             \/ \E q \in Requests : AnswerFromRecord(s, q) \/ Admit(s, q) \/ AdmitSandbox(s, q)
      PROVE  ApiInv'
  BY <1>1, QuietReads, QuietKeeps
<1>2. ASSUME NEW s \in Sessions, NEW q \in Requests, Refuse(s, q)
      PROVE  ApiInv'
  BY <1>2, RefuseKeeps
<1>3. ASSUME NEW s \in Sessions, Create(s)
      PROVE  ApiInv'
  BY <1>3, CreateKeeps
<1>4. ASSUME NEW i \in DOMAIN invoices, Simulate(i) \/ Close(i)
      PROVE  ApiInv'
  <2>1. \E status \in {"pending", "paid", "failed", "expired"} :
           /\ invoices' = [invoices EXCEPT ![i].status = status]
           /\ UNCHANGED <<records, expired, recent, today, key, session, blocked>>
    BY <1>4 DEF Simulate, Close
  <2> QED BY <2>1, StatusKeeps
<1>5. CASE MinutePasses \/ Midnight \/ CleanupExpiredIdempotency \/ \E r \in DOMAIN records : RecordExpires(r)
  BY <1>5, ClockKeeps
<1>6. CASE UNCHANGED vars
  <2>1. UNCHANGED <<records, expired, invoices, recent, today, key, session, blocked>>
    BY <1>6 DEF vars
  <2>2. InvoiceRow' = InvoiceRow /\ Live' = Live /\ \A r \in Slots : RecordOK(r) => RecordOK(r)'
    BY <2>1 DEF InvoiceRow, Live, RecordOK, RecordRow
  <2>3. TablesOK'
    BY <2>1, <2>2 DEF ApiInv, TablesOK
  <2>4. (SessionsOK /\ LockOK)'
    BY <2>1 DEF ApiInv, SessionsOK, LockOK, RowOK, SessionRow
  <2>5. OneInvoicePerKey'
    BY <2>1 DEF ApiInv, OneInvoicePerKey
  <2> QED BY <2>3, <2>4, <2>5 DEF ApiInv
<1> QED BY <1>1, <1>2, <1>3, <1>4, <1>5, <1>6 DEF Next, Handle

LEMMA ApiInvHolds == Spec => []ApiInv
<1>1. ApiAssumption
  BY ApiAssumption
<1> QED BY <1>1, ApiInit, ApiStep, PTL DEF Spec

\* What the invariant means for the tables.
LEMMA InvTypes == ApiAssumption /\ ApiInv => ApiTypeOK
<1> SUFFICES ASSUME ApiAssumption, ApiInv
             PROVE  ApiTypeOK
  OBVIOUS
<1>1. TablesOK /\ SessionsOK /\ LockOK
  BY DEF ApiInv
<1>2. records \in [Slots -> RecordRow]
  BY <1>1 DEF TablesOK, RecordOK
<1>3. \A i \in DOMAIN invoices : invoices[i] \in InvoiceRow
  BY <1>1, ElementOfSeq, LenProperties DEF TablesOK
<1>4. /\ expired \subseteq {r \in DOMAIN records : records[r] # NoRecord}
      /\ blocked \subseteq {r \in DOMAIN records : records[r] # NoRecord}
      /\ recent \subseteq Live /\ today \in 0..MaxDays
  BY <1>1 DEF TablesOK
<1> QED BY <1>1, <1>2, <1>3, <1>4 DEF ApiTypeOK, SessionsOK, LockOK, Slots, RecordRow, InvoiceRow, SessionRow

\* Types; the lock of the key's row is held by a request at work, and records
\* and answers name invoices that exist.
THEOREM ApiTypeCorrect == Spec => []ApiTypeOK
<1>1. ApiAssumption
  BY ApiAssumption
<1> QED BY <1>1, ApiInvHolds, InvTypes, PTL

\* A store's key makes one invoice for good, however often the client repeats
\* the request, processes stop, records expire and are cleaned up.
THEOREM KeysMakeOneInvoice == Spec => []OneInvoicePerKey
<1>1. ApiInv => OneInvoicePerKey
  BY DEF ApiInv
<1> QED BY <1>1, ApiInvHolds, PTL

\* Whoever is answered with an invoice, new or replayed, asked for it.
THEOREM AnswersAreOwn == Spec => []AnswerIsOwn
<1>1. ApiInv => AnswerIsOwn
  BY DEF ApiInv, SessionsOK, RowOK, AnswerIsOwn
<1> QED BY <1>1, ApiInvHolds, PTL

\* A record without a response is never what a stopped or failed request left.
THEOREM StopsLeaveNothing == Spec => []StopsLeaveNoRecord
<1>1. ApiInv => StopsLeaveNoRecord
  BY DEF ApiInv, TablesOK, RecordOK, StopsLeaveNoRecord
<1> QED BY <1>1, ApiInvHolds, PTL

-----------------------------------------------------------------------------
(* The daily limit. *)

Kept(d) == {i \in CountedOn(d) : ~invoices[i].late}

\* A live request that was admitted on the day its invoice will count for.
Spends(s) == session[s].at = "admitted" /\ session[s].request.env = "live" /\ ~session[s].late

\* Only the holder of the key's row is past the lock, and while one request is
\* admitted its amount still fits.
LimitInv ==
    /\ \A s \in Sessions : session[s].at \in Inside => key = s
    /\ \A d \in 0..MaxDays : IsFiniteSet(Rials(CountedOn(d)))
    /\ \A s \in Sessions : Spends(s) =>
          AmountOn(Kept(session[s].began)) + session[s].request.amount <= DailyLimit
    /\ WithinDailyLimit

LEMMA KeptAmount ==
    ASSUME NEW d, IsFiniteSet(Rials(CountedOn(d)))
    PROVE  /\ IsFiniteSet(Rials(Kept(d))) /\ AmountOn(Kept(d)) \in Nat
           /\ AmountOn(CountedOn(d)) \in Nat /\ AmountOn(Kept(d)) <= AmountOn(CountedOn(d))
<1>1. Rials(Kept(d)) \subseteq Rials(CountedOn(d))
  BY DEF Rials, Kept
<1>2. /\ IsFiniteSet(Rials(Kept(d)))
      /\ Cardinality(Rials(Kept(d))) <= Cardinality(Rials(CountedOn(d)))
  BY <1>1, FS_Subset
<1> QED BY <1>2, FS_CardinalityType DEF AmountOn

\* No invoice is added, and none counts that did not.
NothingAdded ==
    /\ DOMAIN invoices' = DOMAIN invoices
    /\ \A i \in DOMAIN invoices :
          /\ invoices'[i].request = invoices[i].request /\ invoices'[i].day = invoices[i].day
          /\ invoices'[i].late = invoices[i].late
          /\ invoices'[i].status = "expired" \/ invoices'[i].status = invoices[i].status
             \/ invoices[i].request.env = "sandbox"

LEMMA AmountsShrink ==
    ASSUME NothingAdded, NEW d, IsFiniteSet(Rials(CountedOn(d)))
    PROVE  /\ IsFiniteSet(Rials(CountedOn(d)))'
           /\ AmountOn(Kept(d))' <= AmountOn(Kept(d)) /\ AmountOn(Kept(d))' \in Nat
<1>1. CountedOn(d)' \subseteq CountedOn(d) /\ Kept(d)' \subseteq Kept(d)
  BY DEF NothingAdded, CountedOn, Kept, Live, Counted
<1>2. \A i \in CountedOn(d)' : invoices'[i].request.amount = invoices[i].request.amount
  BY DEF NothingAdded, CountedOn, Live
<1>3. \A i \in Kept(d)' : invoices'[i].request.amount = invoices[i].request.amount
  BY <1>2 DEF Kept
<1>4. Rials(CountedOn(d))' \subseteq Rials(CountedOn(d)) /\ Rials(Kept(d))' \subseteq Rials(Kept(d))
  BY <1>1, <1>2, <1>3 DEF Rials
<1>5. IsFiniteSet(Rials(CountedOn(d)))'
  BY <1>4, FS_Subset
<1>6. IsFiniteSet(Rials(Kept(d)))
  BY KeptAmount
<1>7. /\ IsFiniteSet(Rials(Kept(d))')
      /\ Cardinality(Rials(Kept(d))') <= Cardinality(Rials(Kept(d)))
  BY <1>4, <1>6, FS_Subset
<1>8. Cardinality(Rials(Kept(d))') \in Nat
  BY <1>7, FS_CardinalityType
<1> QED BY <1>5, <1>7, <1>8 DEF AmountOn

\* A request that holds nothing afterwards.
StepsOut(s) ==
    /\ \E x : x.at \notin Inside /\ session' = [session EXCEPT ![s] = x]
    /\ key' = IF key = s THEN None ELSE key

LEMMA StepsOutKeeps ==
    ASSUME ApiAssumption, ApiInv, LimitInv, NEW s \in Sessions, StepsOut(s), UNCHANGED invoices
    PROVE  LimitInv'
<1>1. PICK x : x.at \notin Inside /\ session' = [session EXCEPT ![s] = x]
  BY DEF StepsOut
<1>2. session \in [Sessions -> SessionRow]
  BY DEF ApiInv, SessionsOK
<1>3. session'[s].at \notin Inside /\ \A t \in Sessions : t # s => session'[t] = session[t]
  BY <1>1, <1>2
<1>4. key' = IF key = s THEN None ELSE key
  BY DEF StepsOut
<1>5. \A t \in Sessions : session'[t].at \in Inside => key' = t
  BY <1>3, <1>4 DEF LimitInv
<1>6. \A d : Rials(CountedOn(d))' = Rials(CountedOn(d)) /\ AmountOn(Kept(d))' = AmountOn(Kept(d))
  BY DEF Rials, CountedOn, Counted, Live, AmountOn, Kept
<1>7. WithinDailyLimit'
  BY DEF LimitInv, WithinDailyLimit, AmountOn, Rials, CountedOn, Live, Counted
<1>8. \A d \in 0..MaxDays : IsFiniteSet(Rials(CountedOn(d)))'
  BY <1>6 DEF LimitInv
<1>9. ASSUME NEW t \in Sessions, Spends(t)'
      PROVE  (AmountOn(Kept(session[t].began)) + session[t].request.amount <= DailyLimit)'
  <2>1. t # s /\ session'[t] = session[t] /\ Spends(t)
    BY <1>3, <1>9 DEF Spends, Inside
  <2>2. AmountOn(Kept(session[t].began)) + session[t].request.amount <= DailyLimit
    BY <2>1 DEF LimitInv
  <2> QED BY <2>1, <2>2 DEF AmountOn, Rials, Kept, CountedOn, Counted, Live
<1> QED BY <1>5, <1>7, <1>8, <1>9 DEF LimitInv

LEMMA QuietLimit ==
    ASSUME ApiAssumption, ApiInv, LimitInv, NEW s \in Sessions,
           \/ Authenticate(s) \/ CreateFails(s) \/ Leave(s) \/ Abort(s)
           \/ \E q \in Requests : AnswerFromRecord(s, q) \/ Refuse(s, q)
    PROVE  LimitInv'
<1>1. session \in [Sessions -> SessionRow] /\ (key = s => session[s].at \in Inside) /\ None \notin Sessions
  BY DEF ApiInv, SessionsOK, LockOK, ApiAssumption
<1>2. ASSUME NEW q, NEW code, NEW i, Ends(s, q, code, i)
      PROVE  StepsOut(s)
  <2> DEFINE x == IF code \in {"ok", "in_progress"}
                  THEN [Idle EXCEPT !.at = "answered", !.request = q, !.code = code, !.invoice = i]
                  ELSE Idle
  <2>1. x.at \notin Inside
    BY DEF Idle, Inside
  <2>2. session' = [session EXCEPT ![s] = x] /\ key' = IF key = s THEN None ELSE key
    BY <1>2 DEF Ends
  <2> HIDE DEF x
  <2> QED BY <2>1, <2>2 DEF StepsOut
<1>3. StepsOut(s)
  <2>1. CASE Authenticate(s)
    <3> DEFINE x == [session[s] EXCEPT !.at = "known", !.began = today]
    <3>1. x.at \notin Inside
      BY <1>1 DEF SessionRow, Inside
    <3>2. session' = [session EXCEPT ![s] = x] /\ key' = key /\ key # s
      BY <1>1, <2>1 DEF Authenticate, Inside
    <3> HIDE DEF x
    <3> QED BY <3>1, <3>2 DEF StepsOut
  <2>2. CASE Leave(s) \/ Abort(s)
    <3>1. session' = [session EXCEPT ![s] = Idle] /\ key' = IF key = s THEN None ELSE key
      BY <1>1, <2>2 DEF Leave, Abort, Inside
    <3> QED BY <3>1 DEF StepsOut, Idle, Inside
  <2>3. CASE CreateFails(s)
    <3>1. \E code : Ends(s, session[s].request, code, None)
      BY <2>3 DEF CreateFails
    <3> QED BY <1>2, <3>1
  <2>4. ASSUME NEW q \in Requests, AnswerFromRecord(s, q) \/ Refuse(s, q)
        PROVE  StepsOut(s)
    <3>1. \E code, i : Ends(s, q, code, i)
      BY <2>4 DEF AnswerFromRecord, Refuse
    <3> QED BY <1>2, <3>1
  <2> QED BY <2>1, <2>2, <2>3, <2>4
<1>4. UNCHANGED invoices
  BY DEF Authenticate, CreateFails, Leave, Abort, AnswerFromRecord, Refuse
<1> QED BY <1>3, <1>4, StepsOutKeeps

\* The holder of the key's row goes on, or takes it while nobody has it.
LEMMA HolderLimit ==
    ASSUME ApiAssumption, ApiInv, LimitInv, NEW s \in Sessions, NEW x,
           session' = [session EXCEPT ![s] = x], key' = s, UNCHANGED invoices,
           key \in {s, None},
           x.at = "admitted" /\ x.request.env = "live" /\ ~x.late
             => AmountOn(Kept(x.began)) + x.request.amount <= DailyLimit
    PROVE  LimitInv'
<1>1. /\ session \in [Sessions -> SessionRow] /\ None \notin Sessions
      /\ session'[s] = x /\ \A t \in Sessions : t # s => session'[t] = session[t]
  BY DEF ApiInv, SessionsOK, ApiAssumption
<1>2. \A t \in Sessions : t # s => session[t].at \notin Inside
  BY <1>1 DEF LimitInv
<1>3. \A t \in Sessions : session'[t].at \in Inside => key' = t
  BY <1>1, <1>2
<1>4. WithinDailyLimit' /\ \A d \in 0..MaxDays : IsFiniteSet(Rials(CountedOn(d)))'
  BY DEF LimitInv, WithinDailyLimit, AmountOn, Rials, CountedOn, Live, Counted
<1>5. ASSUME NEW t \in Sessions, Spends(t)'
      PROVE  (AmountOn(Kept(session[t].began)) + session[t].request.amount <= DailyLimit)'
  <2>1. t = s /\ session'[t] = x
    BY <1>1, <1>2, <1>5 DEF Spends, Inside
  <2>2. AmountOn(Kept(x.began)) + x.request.amount <= DailyLimit
    BY <1>5, <2>1 DEF Spends
  <2> QED BY <2>1, <2>2 DEF AmountOn, Rials, Kept, CountedOn, Counted, Live
<1> QED BY <1>3, <1>4, <1>5 DEF LimitInv

LEMMA AdmitLimit ==
    ASSUME ApiAssumption, ApiInv, LimitInv, NEW s \in Sessions,
           Touch(s) \/ \E q \in Requests : Admit(s, q) \/ AdmitSandbox(s, q)
    PROVE  LimitInv'
<1>1. /\ session \in [Sessions -> SessionRow] /\ session[s] \in SessionRow
      /\ (session[s].at \in Inside => key = s) /\ today \in 0..MaxDays
  BY DEF ApiInv, SessionsOK, LimitInv, TablesOK
<1>2. CASE Touch(s)
  <2> DEFINE x == [session[s] EXCEPT !.at = "touched"]
  <2>1. x.at = "touched"
    BY <1>1 DEF SessionRow
  <2>2. session' = [session EXCEPT ![s] = x] /\ key' = s /\ key = None /\ UNCHANGED invoices
    BY <1>1, <1>2 DEF Touch
  <2> HIDE DEF x
  <2> QED BY <2>1, <2>2, HolderLimit
<1>3. ASSUME NEW q \in Requests, Admit(s, q)
      PROVE  LimitInv'
  <2> DEFINE x == [session[s] EXCEPT !.at = "admitted", !.request = q, !.late = (today # session[s].began)]
  <2>1. x.request = q /\ (~x.late => x.began = today)
    BY <1>1 DEF SessionRow
  <2>2. session' = [session EXCEPT ![s] = x] /\ key' = s /\ key = s /\ UNCHANGED invoices
    BY <1>1, <1>3 DEF Admit, Inside
  <2>3. AmountOn(CountedOn(today)) + q.amount <= DailyLimit
    <3>1. AmountOn(CountedOn(today)) \in Nat /\ q.amount \in Nat /\ DailyLimit \in Nat
      BY <1>1, KeptAmount DEF LimitInv, Requests, ApiAssumption
    <3>2. ~DailyExceeded(q)
      BY <1>3 DEF Admit
    <3> QED BY <3>1, <3>2 DEF DailyExceeded, DailyAmount
  <2>4. AmountOn(Kept(today)) + q.amount <= DailyLimit
    <3>1. /\ AmountOn(CountedOn(today)) \in Nat /\ AmountOn(Kept(today)) \in Nat
          /\ AmountOn(Kept(today)) <= AmountOn(CountedOn(today))
      BY <1>1, KeptAmount DEF LimitInv
    <3>2. q.amount \in Nat /\ DailyLimit \in Nat
      BY DEF Requests, ApiAssumption
    <3> QED BY <2>3, <3>1, <3>2
  <2> HIDE DEF x
  <2> QED BY <2>1, <2>2, <2>4, HolderLimit
<1>4. ASSUME NEW q \in Requests, AdmitSandbox(s, q)
      PROVE  LimitInv'
  <2> DEFINE x == [session[s] EXCEPT !.at = "admitted", !.request = q]
  <2>1. x.request = q /\ q.env # "live"
    BY <1>1, <1>4 DEF SessionRow, AdmitSandbox
  <2>2. session' = [session EXCEPT ![s] = x] /\ key' = s /\ key = s /\ UNCHANGED invoices
    BY <1>1, <1>4 DEF AdmitSandbox, Inside
  <2> HIDE DEF x
  <2> QED BY <2>1, <2>2, HolderLimit
<1> QED BY <1>2, <1>3, <1>4

\* The new invoice counts with the amount that was found to fit.
LEMMA CreateLimit ==
    ASSUME ApiAssumption, ApiInv, LimitInv, NEW s \in Sessions, Create(s)
    PROVE  LimitInv'
<1> DEFINE q == session[s].request
           i == Len(invoices) + 1
           row == [request |-> q, day |-> session[s].began, late |-> session[s].late, status |-> "pending"]
           units == {i} \X (1..q.amount)
<1>1. /\ session \in [Sessions -> SessionRow] /\ session[s] \in SessionRow /\ q \in Requests
      /\ session[s].at = "admitted" /\ key = s
  BY DEF ApiInv, SessionsOK, LimitInv, RowOK, Create, Inside
<1>2. invoices' = Append(invoices, row) /\ Ends(s, q, "ok", i)
  BY DEF Create
<1>3. q.amount \in Nat /\ row.request = q /\ row.day = session[s].began /\ row.late = session[s].late
      /\ row.status = "pending" /\ row \in InvoiceRow
  BY <1>1 DEF Requests, ApiAssumption, InvoiceRow, SessionRow
<1> HIDE DEF q, row
<1>4. /\ invoices \in Seq(InvoiceRow) /\ i \in Nat
      /\ DOMAIN invoices' = DOMAIN invoices \cup {i} /\ i \notin DOMAIN invoices
      /\ invoices'[i] = row /\ \A j \in DOMAIN invoices : invoices'[j] = invoices[j]
  <2>1. invoices \in Seq(InvoiceRow) /\ Len(invoices) \in Nat /\ DOMAIN invoices = 1..Len(invoices)
    BY LenProperties DEF ApiInv, TablesOK
  <2> QED BY <1>2, <1>3, <2>1, AppendProperties
<1>5. IsFiniteSet(units) /\ Cardinality(units) = q.amount
  <2>1. IsFiniteSet({i}) /\ Cardinality({i}) = 1
    BY FS_Singleton
  <2>2. IsFiniteSet(1..q.amount) /\ Cardinality(1..q.amount) = q.amount
    BY <1>3, FS_Interval
  <2>3. IsFiniteSet(units) /\ Cardinality(units) = Cardinality({i}) * Cardinality(1..q.amount)
    BY <2>1, <2>2, FS_Product, Zenon
  <2> QED BY <1>3, <2>1, <2>2, <2>3
<1>6. ASSUME NEW d \in 0..MaxDays
      PROVE  /\ Rials(CountedOn(d))' \in {Rials(CountedOn(d)), Rials(CountedOn(d)) \cup units}
             /\ Rials(Kept(d))' = IF q.env = "live" /\ d = row.day /\ ~row.late
                                  THEN Rials(Kept(d)) \cup units ELSE Rials(Kept(d))
  <2>1. /\ CountedOn(d)' = IF q.env = "live" /\ d = row.day THEN CountedOn(d) \cup {i} ELSE CountedOn(d)
        /\ Kept(d)' = IF q.env = "live" /\ d = row.day /\ ~row.late THEN Kept(d) \cup {i} ELSE Kept(d)
    BY <1>3, <1>4 DEF CountedOn, Kept, Live, Counted
  <2>2. CountedOn(d) \subseteq DOMAIN invoices /\ Kept(d) \subseteq DOMAIN invoices
    BY DEF CountedOn, Kept, Live
  <2>3. ASSUME NEW I \in SUBSET DOMAIN invoices
        PROVE  /\ UNION {{j} \X (1..invoices'[j].request.amount) : j \in I} = Rials(I)
               /\ UNION {{j} \X (1..invoices'[j].request.amount) : j \in I \cup {i}} = Rials(I) \cup units
    <3>1. \A j \in I : {j} \X (1..invoices'[j].request.amount) = {j} \X (1..invoices[j].request.amount)
      BY <1>4
    <3>2. {i} \X (1..invoices'[i].request.amount) = units
      BY <1>3, <1>4
    <3> QED BY <3>1, <3>2 DEF Rials
  <2>4. /\ UNION {{j} \X (1..invoices'[j].request.amount) : j \in CountedOn(d)} = Rials(CountedOn(d))
        /\ UNION {{j} \X (1..invoices'[j].request.amount) : j \in CountedOn(d) \cup {i}} = Rials(CountedOn(d)) \cup units
        /\ UNION {{j} \X (1..invoices'[j].request.amount) : j \in Kept(d)} = Rials(Kept(d))
        /\ UNION {{j} \X (1..invoices'[j].request.amount) : j \in Kept(d) \cup {i}} = Rials(Kept(d)) \cup units
    BY <2>2, <2>3
  <2>5. /\ Rials(CountedOn(d))' = UNION {{j} \X (1..invoices'[j].request.amount) : j \in CountedOn(d)'}
        /\ Rials(Kept(d))' = UNION {{j} \X (1..invoices'[j].request.amount) : j \in Kept(d)'}
    BY DEF Rials
  <2> QED BY <2>1, <2>4, <2>5
<1> HIDE DEF units
<1>7. \A d \in 0..MaxDays : IsFiniteSet(Rials(CountedOn(d)))'
  <2> TAKE d \in 0..MaxDays
  <2>1. IsFiniteSet(Rials(CountedOn(d)) \cup units)
    BY <1>5, FS_Union DEF LimitInv
  <2> QED BY <1>6, <2>1 DEF LimitInv
<1>8. WithinDailyLimit'
  <2> SUFFICES ASSUME NEW d \in 0..MaxDays
               PROVE  Cardinality(Rials(Kept(d))') <= DailyLimit
    BY DEF WithinDailyLimit, AmountOn, Kept
  <2>1. /\ IsFiniteSet(Rials(Kept(d))) /\ AmountOn(Kept(d)) \in Nat
    BY KeptAmount DEF LimitInv
  <2>2. CASE q.env = "live" /\ d = row.day /\ ~row.late
    <3>1. AmountOn(Kept(d)) + q.amount <= DailyLimit
      BY <1>1, <1>3, <2>2 DEF LimitInv, Spends, q
    <3>2. /\ Cardinality(Rials(Kept(d)) \cup units)
               = Cardinality(Rials(Kept(d))) + q.amount - Cardinality(Rials(Kept(d)) \cap units)
          /\ Cardinality(Rials(Kept(d)) \cap units) \in Nat
      BY <1>5, <2>1, FS_Union, FS_Intersection, FS_CardinalityType
    <3>3. Rials(Kept(d))' = Rials(Kept(d)) \cup units
      BY <1>6, <2>2
    <3>4. DailyLimit \in Nat /\ q.amount \in Nat
      BY <1>3 DEF ApiAssumption
    <3>5. Cardinality(Rials(Kept(d)) \cup units) <= DailyLimit
      BY <2>1, <3>1, <3>2, <3>4 DEF AmountOn
    <3> QED BY <3>3, <3>5
  <2>3. CASE ~(q.env = "live" /\ d = row.day /\ ~row.late)
    <3>1. Rials(Kept(d))' = Rials(Kept(d))
      BY <1>6, <2>3
    <3>2. AmountOn(Kept(d)) <= DailyLimit
      BY DEF LimitInv, WithinDailyLimit, Kept
    <3> QED BY <3>1, <3>2 DEF AmountOn
  <2> QED BY <2>2, <2>3
<1> DEFINE x == [Idle EXCEPT !.at = "answered", !.request = q, !.code = "ok", !.invoice = i]
<1>9. session' = [session EXCEPT ![s] = x] /\ x.at = "answered" /\ key' = None
  BY <1>1, <1>2 DEF Ends, Idle
<1> HIDE DEF x
<1>10. \A t \in Sessions : session'[t].at \notin Inside
  <2> TAKE t \in Sessions
  <2>1. CASE t = s
    BY <1>1, <1>9, <2>1 DEF Inside
  <2>2. CASE t # s
    BY <1>1, <1>9, <2>2 DEF LimitInv
  <2> QED BY <2>1, <2>2
<1> QED BY <1>7, <1>8, <1>10 DEF LimitInv, Spends, Inside

LEMMA CalmLimit ==
    ASSUME ApiAssumption, ApiInv, LimitInv,
           \/ \E i \in DOMAIN invoices : Simulate(i) \/ Close(i)
           \/ \E r \in DOMAIN records : RecordExpires(r)
           \/ MinutePasses \/ Midnight \/ CleanupExpiredIdempotency
           \/ UNCHANGED vars
    PROVE  LimitInv'
<1>1. UNCHANGED <<session, key>>
  BY DEF Simulate, Close, RecordExpires, MinutePasses, Midnight, CleanupExpiredIdempotency, vars
<1>2. NothingAdded
  <2>1. ASSUME NEW i \in DOMAIN invoices, Simulate(i) \/ Close(i)
        PROVE  NothingAdded
    <3>1. PICK status : invoices' = [invoices EXCEPT ![i].status = status]
                        /\ (status = "expired" \/ invoices[i].request.env = "sandbox")
      BY <2>1 DEF Simulate, Close
    <3>2. invoices \in Seq(InvoiceRow) /\ invoices[i] \in InvoiceRow
      BY ElementOfSeq, LenProperties DEF ApiInv, TablesOK
    <3>3. /\ DOMAIN invoices' = DOMAIN invoices
          /\ \A j \in DOMAIN invoices :
                invoices'[j] = IF j = i THEN [invoices[i] EXCEPT !.status = status] ELSE invoices[j]
      BY <3>1
    <3>4. /\ [invoices[i] EXCEPT !.status = status].request = invoices[i].request
          /\ [invoices[i] EXCEPT !.status = status].day = invoices[i].day
          /\ [invoices[i] EXCEPT !.status = status].late = invoices[i].late
          /\ [invoices[i] EXCEPT !.status = status].status = status
      BY <3>2 DEF InvoiceRow
    <3> QED BY <3>1, <3>3, <3>4 DEF NothingAdded
  <2>2. ASSUME UNCHANGED invoices
        PROVE  NothingAdded
    BY <2>2 DEF NothingAdded
  <2>3. \/ \E i \in DOMAIN invoices : Simulate(i) \/ Close(i)
        \/ UNCHANGED invoices
    BY DEF RecordExpires, MinutePasses, Midnight, CleanupExpiredIdempotency, vars
  <2> QED BY <2>1, <2>2, <2>3
<1>3. ASSUME NEW d \in 0..MaxDays
      PROVE  /\ IsFiniteSet(Rials(CountedOn(d)))'
             /\ AmountOn(Kept(d)) \in Nat /\ AmountOn(Kept(d))' \in Nat
             /\ AmountOn(Kept(d))' <= AmountOn(Kept(d))
  <2>1. IsFiniteSet(Rials(CountedOn(d)))
    BY DEF LimitInv
  <2> QED BY <1>2, <2>1, AmountsShrink, KeptAmount
<1>4. WithinDailyLimit'
  <2> SUFFICES ASSUME NEW d \in 0..MaxDays
               PROVE  AmountOn(Kept(d))' <= DailyLimit
    BY DEF WithinDailyLimit, Kept
  <2>1. AmountOn(Kept(d)) <= DailyLimit /\ DailyLimit \in Nat
    BY DEF LimitInv, WithinDailyLimit, Kept, ApiAssumption
  <2> QED BY <1>3, <2>1
<1>5. ASSUME NEW t \in Sessions, Spends(t)'
      PROVE  (AmountOn(Kept(session[t].began)) + session[t].request.amount <= DailyLimit)'
  <2>1. PICK d, a : d = session[t].began /\ a = session[t].request.amount
    OBVIOUS
  <2>2. d \in 0..MaxDays /\ a \in Nat /\ DailyLimit \in Nat
    <3>1. RowOK(session[t]) /\ session[t].at = "admitted"
      BY <1>1, <1>5 DEF ApiInv, SessionsOK, Spends
    <3> QED BY <2>1, <3>1 DEF RowOK, SessionRow, Requests, ApiAssumption
  <2>3. AmountOn(Kept(d)) + a <= DailyLimit
    BY <1>1, <1>5, <2>1 DEF LimitInv, Spends
  <2>4. AmountOn(Kept(d))' + a <= DailyLimit
    BY <1>3, <2>2, <2>3
  <2>5. d = session'[t].began /\ a = session'[t].request.amount
    BY <1>1, <2>1
  <2> QED BY <2>4, <2>5 DEF AmountOn, Rials, Kept, CountedOn, Counted, Live
<1> QED BY <1>1, <1>3, <1>4, <1>5 DEF LimitInv

LEMMA LimitInit == ApiAssumption /\ Init => LimitInv
<1> SUFFICES ASSUME ApiAssumption, Init
             PROVE  LimitInv
  OBVIOUS
<1>1. \A d : Rials(CountedOn(d)) = {} /\ Rials(Kept(d)) = {}
  BY DEF Init, Rials, CountedOn, Kept, Live
<1>2. \A d : AmountOn(Kept(d)) = 0 /\ IsFiniteSet(Rials(CountedOn(d)))
  BY <1>1, FS_EmptySet DEF AmountOn
<1>3. WithinDailyLimit
  BY <1>2 DEF WithinDailyLimit, Kept, ApiAssumption
<1>4. \A s \in Sessions : session[s].at = "idle"
  BY DEF Init, Idle
<1> QED BY <1>2, <1>3, <1>4 DEF LimitInv, Spends, Inside

LEMMA LimitStep == ApiAssumption /\ ApiInv /\ LimitInv /\ [Next]_vars => LimitInv'
<1> SUFFICES ASSUME ApiAssumption, ApiInv, LimitInv, [Next]_vars
             PROVE  LimitInv'
  OBVIOUS
<1>1. ASSUME NEW s \in Sessions, Handle(s)
      PROVE  LimitInv'
  <2>1. CASE \/ Authenticate(s) \/ CreateFails(s) \/ Leave(s) \/ Abort(s)
             \/ \E q \in Requests : AnswerFromRecord(s, q) \/ Refuse(s, q)
    BY <2>1, QuietLimit
  <2>2. CASE Touch(s) \/ \E q \in Requests : Admit(s, q) \/ AdmitSandbox(s, q)
    BY <2>2, AdmitLimit
  <2>3. CASE Create(s)
    BY <2>3, CreateLimit
  <2> QED BY <1>1, <2>1, <2>2, <2>3 DEF Handle
<1>2. CASE \/ \E i \in DOMAIN invoices : Simulate(i) \/ Close(i)
           \/ \E r \in DOMAIN records : RecordExpires(r)
           \/ MinutePasses \/ Midnight \/ CleanupExpiredIdempotency
           \/ UNCHANGED vars
  BY <1>2, CalmLimit
<1> QED BY <1>1, <1>2 DEF Next

\* The invoices of a day stay within the store's daily limit although they are
\* added up before any of them is locked: the lock of the key's row, taken for
\* another purpose, admits one request at a time.
THEOREM DailyLimitHolds == Spec => []WithinDailyLimit
<1>1. ApiAssumption
  BY ApiAssumption
<1>2. LimitInv => WithinDailyLimit
  BY DEF LimitInv
<1> QED BY <1>1, <1>2, ApiInvHolds, LimitInit, LimitStep, PTL DEF Spec
=============================================================================
