------------------------ MODULE WebhookOutbox_proofs ------------------------
(***************************************************************************)
(* The webhook outbox keeps its rows' types and their endpoints with any     *)
(* number of overlapping passes; with one pass at a time it also keeps to     *)
(* the backoff table, and every step of it is a step of the promise in        *)
(* Outbox.                                                                   *)
(***************************************************************************)
EXTENDS WebhookOutbox, TLAPS

(* The outcomes of an attempt that posts nothing, or is refused, differ only  *)
(* in what the row remembers of it.                                          *)
LEMMA AttemptTyped ==
    ASSUME NEW r \in RowRecords, NEW a \in Nat, NEW result
    PROVE  AfterAttempt(r, a, result) \in RowRecords
<1>1. CASE result = "accepted"
    BY <1>1 DEF AfterAttempt, RowRecords, Open
<1>2. CASE result # "accepted"
  <2>1. (IF HasRetry(a) THEN "RETRYING" ELSE "FAILED") \in {"RETRYING", "FAILED"}
      OBVIOUS
  <2>2. (r.sent \/ result = "refused") \in BOOLEAN
      BY DEF RowRecords
  <2>3. r.attempts + 1 \in Nat
      BY DEF RowRecords
  <2> QED BY <1>2, <2>1, <2>2, <2>3 DEF AfterAttempt, RowRecords, Open
<1> QED BY <1>1, <1>2

(* A row of the table is a record, and the two markers are none. *)
LEMMA RowIsRecord ==
    ASSUME TypeOK, NEW d \in Rows
    PROVE  d \in Deliveries /\ row[d] \in RowRecords
BY DEF TypeOK, Rows

LEMMA RecordIsRow ==
    ASSUME NEW d \in Deliveries, row[d] \in RowRecords
    PROVE  d \in Rows
BY NoRowAssumption DEF Rows

(* A new row is open and its endpoint is one that was found. *)
LEMMA NewRowTyped ==
    ASSUME NEW e \in Endpoints
    PROVE  /\ NewRow(e) \in RowRecords
           /\ NewRow(e).endpoint = e
           /\ NewRow(e).status = "PENDING"
           /\ NewRow(e).attempts = 0
BY DEF NewRow, RowRecords, Open

(* The rows that a dispatch writes: each was unwritten, and is a new row of an *)
(* endpoint that matched.                                                     *)
LEMMA DispatchWrites ==
    ASSUME TypeOK, NEW event \in Events, Dispatch(event)
    PROVE  \E new \in SUBSET Unwritten :
              /\ due' = due \cup new
              /\ \A d \in new : \E e \in Matching(event) : row'[d] = NewRow(e)
              /\ \A d \in Deliveries \ new : row'[d] = row[d]
              /\ row' = [d \in Deliveries |-> row'[d]]
<1>0. PICK written \in SUBSET Matching(event) \ {{}} :
          \E at \in Injection(written, Unwritten) :
              /\ row' = [d \in Deliveries |->
                            IF d \in Range(at) THEN NewRow(CHOOSE e \in written : at[e] = d) ELSE row[d]]
              /\ due' = due \cup Range(at)
    BY DEF Dispatch
<1>1. PICK at \in Injection(written, Unwritten) :
          /\ row' = [d \in Deliveries |->
                        IF d \in Range(at) THEN NewRow(CHOOSE e \in written : at[e] = d) ELSE row[d]]
          /\ due' = due \cup Range(at)
    BY <1>0
<1>2. at \in [written -> Unwritten]
    BY DEF Injection
<1>3. Range(at) \in SUBSET Unwritten
    BY <1>2 DEF Range
<1>4. Unwritten \subseteq Deliveries
    BY DEF Unwritten
<1>5. ASSUME NEW d \in Range(at) PROVE \E e \in Matching(event) : row'[d] = NewRow(e)
  <2>1. \E e \in written : at[e] = d
      BY <1>2 DEF Range
  <2>2. (CHOOSE e \in written : at[e] = d) \in written
      BY <2>1
  <2>3. row'[d] = NewRow(CHOOSE e \in written : at[e] = d)
      BY <1>1, <1>3, <1>4
  <2> QED BY <2>2, <2>3
<1>6. \A d \in Deliveries \ Range(at) : row'[d] = row[d]
    BY <1>1
<1>7. row' = [d \in Deliveries |-> row'[d]]
  <2> DEFINE f(d) == IF d \in Range(at) THEN NewRow(CHOOSE e \in written : at[e] = d) ELSE row[d]
  <2>1. row' = [d \in Deliveries |-> f(d)]
      BY <1>1
  <2> HIDE DEF f
  <2> QED BY <2>1
<1> QED BY <1>1, <1>3, <1>5, <1>6, <1>7

-----------------------------------------------------------------------------
LEMMA TypeInit == Init => TypeOK
BY BoundsAssumption DEF Init, TypeOK, Rows, Claims

LEMMA TypeStep == TypeOK /\ [Next]_vars => TypeOK'
<1> SUFFICES ASSUME TypeOK, [Next]_vars PROVE TypeOK'
    OBVIOUS
<1> USE BoundsAssumption
<1>1. CASE PlanChanges
    BY <1>1 DEF PlanChanges, TypeOK, Rows
<1>2. ASSUME NEW e \in Endpoints, CreateEndpoint(e) \/ UpdateEndpoint(e) PROVE TypeOK'
  <2>0. PICK r \in [exists : BOOLEAN, active : BOOLEAN, events : SUBSET Events] :
           endpoint' = [endpoint EXCEPT ![e] = r]
    <3>1. PICK active \in BOOLEAN, events \in SUBSET Events :
             endpoint' = [endpoint EXCEPT ![e] = [exists |-> TRUE, active |-> active, events |-> events]]
        BY <1>2 DEF CreateEndpoint, UpdateEndpoint
    <3> QED BY <3>1
  <2>1. endpoint' \in [Endpoints -> [exists : BOOLEAN, active : BOOLEAN, events : SUBSET Events]]
      BY <2>0 DEF TypeOK
  <2> QED BY <1>2, <2>1 DEF CreateEndpoint, UpdateEndpoint, TypeOK, Rows
<1>3. ASSUME NEW e \in Endpoints, DeleteEndpoint(e) PROVE TypeOK'
  <2>1. endpoint' \in [Endpoints -> [exists : BOOLEAN, active : BOOLEAN, events : SUBSET Events]]
      BY <1>3 DEF DeleteEndpoint, TypeOK
  <2>2. row' \in [Deliveries -> RowRecords \cup {NoRow, Gone}]
      BY <1>3 DEF DeleteEndpoint, TypeOK
  <2>3. due' \subseteq Rows'
      BY <1>3 DEF DeleteEndpoint, TypeOK, Rows
  <2> QED BY <1>3, <2>1, <2>2, <2>3 DEF DeleteEndpoint, TypeOK
<1>4. ASSUME NEW event \in Events, Dispatch(event) PROVE TypeOK'
  <2>1. PICK new \in SUBSET Unwritten :
              /\ due' = due \cup new
              /\ \A d \in new : \E e \in Matching(event) : row'[d] = NewRow(e)
              /\ \A d \in Deliveries \ new : row'[d] = row[d]
              /\ row' = [d \in Deliveries |-> row'[d]]
      BY <1>4, DispatchWrites
  <2>2. Matching(event) \subseteq Endpoints /\ new \subseteq Deliveries
      BY DEF Matching, Unwritten
  <2>3. \A d \in new : row'[d] \in RowRecords
      BY <2>1, <2>2, NewRowTyped
  <2>4. \A d \in Deliveries : row'[d] \in RowRecords \cup {NoRow, Gone}
      BY <2>1, <2>3 DEF TypeOK
  <2>5. row' \in [Deliveries -> RowRecords \cup {NoRow, Gone}]
      BY <2>1, <2>4
  <2>6. due' \subseteq Rows'
      BY <2>1, <2>2, <2>3, NoRowAssumption DEF TypeOK, Rows
  <2>7. UNCHANGED <<apiAccess, endpoint, batch, redelivered, faults>>
      BY <1>4 DEF Dispatch
  <2> QED BY <2>5, <2>6, <2>7 DEF TypeOK
<1>5. ASSUME NEW w \in Workers, Claim(w) PROVE TypeOK'
  <2>1. PICK ids \in SUBSET due :
           batch' = [batch EXCEPT ![w] = {[id |-> d, attempts |-> row[d].attempts] : d \in ids}]
      BY <1>5 DEF Claim
  <2>2. \A d \in ids : [id |-> d, attempts |-> row[d].attempts] \in Claims
      BY RowIsRecord DEF TypeOK, Claims, RowRecords
  <2>3. batch' \in [Workers -> SUBSET Claims]
      BY <2>1, <2>2 DEF TypeOK
  <2> QED BY <1>5, <2>3 DEF Claim, TypeOK, Rows
<1>6. ASSUME NEW w \in Workers, HandleRow(w) PROVE TypeOK'
  <2>1. PICK c \in batch[w] :
          \/ /\ c.id \in Rows
             /\ \E result \in attemptDelivery :
                   row' = [row EXCEPT ![c.id] = AfterAttempt(@, c.attempts, result)]
             /\ due' = due \ {c.id}
             /\ batch' = [batch EXCEPT ![w] = @ \ {c}]
          \/ /\ c.id \notin Rows
             /\ batch' = [batch EXCEPT ![w] = {}]
             /\ UNCHANGED <<row, due>>
      BY <1>6 DEF HandleRow
  <2>2. c \in Claims
      BY DEF TypeOK
  <2>3. batch' \in [Workers -> SUBSET Claims]
      BY <2>1 DEF TypeOK
  <2>4. UNCHANGED <<apiAccess, endpoint, redelivered, faults>>
      BY <1>6 DEF HandleRow
  <2>5. CASE c.id \in Rows
    <3>1. PICK result \in attemptDelivery :
             row' = [row EXCEPT ![c.id] = AfterAttempt(row[c.id], c.attempts, result)]
        BY <2>1, <2>5
    <3>2. AfterAttempt(row[c.id], c.attempts, result) \in RowRecords
        BY <2>2, <2>5, RowIsRecord, AttemptTyped DEF Claims
    <3>3. row' \in [Deliveries -> RowRecords \cup {NoRow, Gone}]
        BY <3>1, <3>2 DEF TypeOK
    <3>4. due' \subseteq Rows'
        BY <2>1, <2>5, <3>1 DEF TypeOK, Rows
    <3> QED BY <2>3, <2>4, <3>3, <3>4 DEF TypeOK
  <2>6. CASE c.id \notin Rows
      BY <2>1, <2>3, <2>4, <2>6 DEF TypeOK, Rows
  <2> QED BY <2>5, <2>6
<1>7. ASSUME NEW w \in Workers, LoseBatch(w) PROVE TypeOK'
    BY <1>7 DEF LoseBatch, TypeOK, Rows
<1>8. ASSUME NEW d \in Deliveries, BecomesDue(d) PROVE TypeOK'
    BY <1>8 DEF BecomesDue, TypeOK, Rows
<1>9. ASSUME NEW d \in Deliveries, Redeliver(d) PROVE TypeOK'
  <2> DEFINE new == [row[d] EXCEPT !.status = "PENDING", !.attempts = 0]
  <2>1. row' = [row EXCEPT ![d] = new] /\ d \in Rows
      BY <1>9 DEF Redeliver
  <2>2. new \in RowRecords
      BY <2>1, RowIsRecord DEF RowRecords, Open
  <2> HIDE DEF new
  <2>3. row' \in [Deliveries -> RowRecords \cup {NoRow, Gone}]
      BY <2>1, <2>2 DEF TypeOK
  <2>4. due' \subseteq Rows'
      BY <1>9, <2>1, <2>2, NoRowAssumption DEF Redeliver, TypeOK, Rows
  <2>5. redelivered' \in 0 .. MaxRedeliver
      BY <1>9 DEF Redeliver, TypeOK
  <2> QED BY <1>9, <2>3, <2>4, <2>5 DEF Redeliver, TypeOK
<1>10. CASE UNCHANGED vars
    BY <1>10 DEF vars, TypeOK, Rows
<1> QED BY <1>1, <1>2, <1>3, <1>4, <1>5, <1>6, <1>7, <1>8, <1>9, <1>10 DEF Next

(* The tables, the due index and what passes hold keep their types, for any   *)
(* number of passes, deliveries and endpoints.                               *)
THEOREM TypeCorrect == Spec => []TypeOK
BY TypeInit, TypeStep, PTL DEF Spec

-----------------------------------------------------------------------------
LEMMA NoOrphanStep == TypeOK /\ NoOrphanRow /\ [Next]_vars => NoOrphanRow'
<1> SUFFICES ASSUME TypeOK, NoOrphanRow, [Next]_vars PROVE NoOrphanRow'
    OBVIOUS
<1>1. CASE UNCHANGED <<endpoint, row>>
    BY <1>1 DEF NoOrphanRow, Rows
<1>2. ASSUME NEW e \in Endpoints, CreateEndpoint(e) \/ UpdateEndpoint(e) PROVE NoOrphanRow'
  <2>1. PICK active \in BOOLEAN, events \in SUBSET Events :
           endpoint' = [endpoint EXCEPT ![e] = [exists |-> TRUE, active |-> active, events |-> events]]
      BY <1>2 DEF CreateEndpoint, UpdateEndpoint
  <2>2. \A x \in Endpoints : endpoint[x].exists => endpoint'[x].exists
      BY <2>1 DEF TypeOK
  <2>3. \A d \in Rows : row[d].endpoint \in Endpoints
      BY RowIsRecord DEF RowRecords
  <2> QED BY <1>2, <2>2, <2>3 DEF CreateEndpoint, UpdateEndpoint, NoOrphanRow, Rows
<1>3. ASSUME NEW e \in Endpoints, DeleteEndpoint(e) PROVE NoOrphanRow'
  <2>1. \A d \in Rows' : d \in Rows /\ d \notin RowsOf(e) /\ row'[d] = row[d]
      BY <1>3 DEF DeleteEndpoint, Rows
  <2>2. \A x \in Endpoints \ {e} : endpoint'[x] = endpoint[x]
      BY <1>3 DEF DeleteEndpoint, TypeOK
  <2>3. \A d \in Rows : row[d].endpoint \in Endpoints
      BY RowIsRecord DEF RowRecords
  <2> QED BY <2>1, <2>2, <2>3 DEF NoOrphanRow, RowsOf
<1>4. ASSUME NEW event \in Events, Dispatch(event) PROVE NoOrphanRow'
  <2>1. PICK new \in SUBSET Unwritten :
              /\ \A d \in new : \E e \in Matching(event) : row'[d] = NewRow(e)
              /\ \A d \in Deliveries \ new : row'[d] = row[d]
      BY <1>4, DispatchWrites
  <2>2. UNCHANGED endpoint
      BY <1>4 DEF Dispatch
  <2>3. \A d \in new : endpoint[row'[d].endpoint].exists
      BY <2>1, NewRowTyped DEF Matching
  <2>4. \A d \in Rows' \ new : d \in Rows /\ row'[d] = row[d]
      BY <2>1 DEF Rows
  <2> QED BY <2>2, <2>3, <2>4 DEF NoOrphanRow
<1>5. ASSUME NEW w \in Workers, HandleRow(w) PROVE NoOrphanRow'
  <2>1. CASE UNCHANGED row
      BY <1>5, <2>1 DEF HandleRow, NoOrphanRow, Rows
  <2>2. ASSUME NEW c \in batch[w], c.id \in Rows, NEW result \in attemptDelivery,
               row' = [row EXCEPT ![c.id] = AfterAttempt(row[c.id], c.attempts, result)]
        PROVE  NoOrphanRow'
    <3>1. row[c.id] \in RowRecords
        BY <2>2, RowIsRecord
    <3>2. AfterAttempt(row[c.id], c.attempts, result).endpoint = row[c.id].endpoint
        BY <3>1 DEF AfterAttempt, RowRecords
    <3>3. \A d \in Rows' : d \in Rows /\ row'[d].endpoint = row[d].endpoint
        BY <2>2, <3>2 DEF Rows, TypeOK
    <3> QED BY <1>5, <3>3 DEF HandleRow, NoOrphanRow
  <2> QED BY <1>5, <2>1, <2>2 DEF HandleRow
<1>6. ASSUME NEW d \in Deliveries, Redeliver(d) PROVE NoOrphanRow'
  <2> DEFINE new == [row[d] EXCEPT !.status = "PENDING", !.attempts = 0]
  <2>1. row' = [row EXCEPT ![d] = new] /\ d \in Rows /\ UNCHANGED endpoint
      BY <1>6 DEF Redeliver
  <2>2. new.endpoint = row[d].endpoint
      BY <2>1, RowIsRecord DEF RowRecords
  <2> HIDE DEF new
  <2>3. \A x \in Rows' : x \in Rows /\ row'[x].endpoint = row[x].endpoint
      BY <2>1, <2>2 DEF Rows, TypeOK
  <2> QED BY <2>1, <2>3 DEF NoOrphanRow
<1> QED BY <1>1, <1>2, <1>3, <1>4, <1>5, <1>6 DEF Next, vars, PlanChanges, Claim, LoseBatch, BecomesDue

(* A row outlives its endpoint in no interleaving of deletions, dispatches,    *)
(* redeliveries and overlapping passes.                                      *)
THEOREM RowsHaveEndpoints == Spec => []NoOrphanRow
<1>1. Init => NoOrphanRow
    BY DEF Init, NoOrphanRow, Rows
<1> QED BY <1>1, TypeCorrect, NoOrphanStep, PTL DEF Spec

-----------------------------------------------------------------------------
(* One pass at a time.                                                      *)

(* The three ways a turn of the loop leaves its row. *)
LEMMA AttemptEnds ==
    ASSUME NEW r \in RowRecords, NEW a \in Nat, NEW result, a <= Delays
    PROVE  LET after == AfterAttempt(r, a, result)
           IN  \/ after.status = "DELIVERED" /\ after.attempts = r.attempts
               \/ after.status = "RETRYING" /\ after.attempts = r.attempts + 1 /\ a < Delays
               \/ after.status = "FAILED" /\ after.attempts = r.attempts + 1 /\ a = Delays
<1>1. CASE result = "accepted"
    BY <1>1 DEF AfterAttempt, RowRecords
<1>2. CASE result # "accepted" /\ a < Delays
    BY <1>2 DEF AfterAttempt, RowRecords, HasRetry
<1>3. CASE result # "accepted" /\ ~(a < Delays)
    BY <1>3, DelaysAssumption DEF AfterAttempt, RowRecords, HasRetry
<1> QED BY <1>1, <1>2, <1>3

(* What a turn of the loop does to a row that is still there. *)
LEMMA TurnEnds ==
    ASSUME TypeOK, ClaimsAgree, NEW w \in Workers, NEW c \in batch[w], c.id \in Rows, NEW result,
           row' = [row EXCEPT ![c.id] = AfterAttempt(row[c.id], c.attempts, result)]
    PROVE  /\ c.id \in Deliveries /\ c.attempts \in Nat /\ c.attempts <= Delays
           /\ row[c.id] \in RowRecords /\ row[c.id].status \in Open
           /\ row[c.id].attempts <= c.attempts
           /\ redelivered = 0 => row[c.id].attempts = c.attempts
           /\ row'[c.id] \in RowRecords
           /\ \A d \in Deliveries \ {c.id} : row'[d] = row[d]
           /\ \/ row'[c.id].status = "DELIVERED" /\ row'[c.id].attempts = row[c.id].attempts
              \/ row'[c.id].status = "RETRYING" /\ row'[c.id].attempts = row[c.id].attempts + 1 /\ c.attempts < Delays
              \/ row'[c.id].status = "FAILED" /\ row'[c.id].attempts = row[c.id].attempts + 1 /\ c.attempts = Delays
<1>1. c \in Claims
    BY DEF TypeOK
<1>2. row[c.id] \in RowRecords /\ c.id \in Deliveries
    BY RowIsRecord
<1>3. row[c.id] # Gone
    BY DEF Rows
<1>4. Agrees(c) /\ c.attempts <= Delays
    BY DEF ClaimsAgree
<1>5. row'[c.id] = AfterAttempt(row[c.id], c.attempts, result)
    BY <1>2 DEF TypeOK
<1>6. \A d \in Deliveries \ {c.id} : row'[d] = row[d]
    BY DEF TypeOK
<1>7. row'[c.id] \in RowRecords
    BY <1>1, <1>2, <1>5, AttemptTyped DEF Claims
<1>8. c.attempts \in Nat
    BY <1>1 DEF Claims
<1>9. \/ row'[c.id].status = "DELIVERED" /\ row'[c.id].attempts = row[c.id].attempts
      \/ row'[c.id].status = "RETRYING" /\ row'[c.id].attempts = row[c.id].attempts + 1 /\ c.attempts < Delays
      \/ row'[c.id].status = "FAILED" /\ row'[c.id].attempts = row[c.id].attempts + 1 /\ c.attempts = Delays
    BY <1>2, <1>4, <1>5, <1>8, AttemptEnds
<1> QED BY <1>2, <1>3, <1>4, <1>6, <1>7, <1>8, <1>9 DEF Agrees

LEMMA AgreeStep ==
    ASSUME OnePass, TypeOK, TypeOK', ClaimsAgree, [Next]_vars
    PROVE  ClaimsAgree'
<1> USE DelaysAssumption, BoundsAssumption
<1>1. CASE UNCHANGED <<row, due, batch, redelivered>>
    BY <1>1 DEF ClaimsAgree, Agrees, Rows
<1>2. ASSUME NEW e \in Endpoints, DeleteEndpoint(e) PROVE ClaimsAgree'
  <2>1. \A d \in Deliveries : row'[d] = row[d] \/ row'[d] = Gone
      BY <1>2 DEF DeleteEndpoint
  <2>2. \A d \in Rows' : d \in Rows /\ row'[d] = row[d]
      BY <2>1 DEF Rows
  <2>3. due' \subseteq due /\ UNCHANGED <<batch, redelivered>>
      BY <1>2 DEF DeleteEndpoint
  <2>4. \A w \in Workers : \A c \in batch[w] : c.id \in Deliveries
      BY DEF TypeOK, Claims
  <2>5. \A w \in Workers : \A c \in batch[w] : Agrees(c)'
      BY <2>1, <2>3, <2>4 DEF ClaimsAgree, Agrees, Rows
  <2>6. \A d \in due' : d \in Rows' /\ d \in due
      BY <2>3 DEF TypeOK
  <2> QED BY <2>2, <2>3, <2>5, <2>6 DEF ClaimsAgree
<1>3. ASSUME NEW event \in Events, Dispatch(event) PROVE ClaimsAgree'
  <2>1. PICK new \in SUBSET Unwritten :
              /\ due' = due \cup new
              /\ \A d \in new : \E e \in Matching(event) : row'[d] = NewRow(e)
              /\ \A d \in Deliveries \ new : row'[d] = row[d]
      BY <1>3, DispatchWrites
  <2>2. \A d \in new : row'[d].status = "PENDING" /\ row'[d].attempts = 0
      BY <2>1, NewRowTyped DEF Matching
  <2>3. UNCHANGED <<batch, redelivered>>
      BY <1>3 DEF Dispatch
  <2>4. \A d \in Rows : d \notin new
      BY <2>1 DEF Rows, Unwritten
  <2>5. \A w \in Workers : \A c \in batch[w] : c.id \in Deliveries /\ row'[c.id] = row[c.id]
    <3> TAKE w \in Workers
    <3> TAKE c \in batch[w]
    <3>1. c.id \in Deliveries
        BY DEF TypeOK, Claims
    <3>2. row[c.id] # NoRow
        BY NoRowAssumption DEF ClaimsAgree, Agrees, Rows
    <3>3. c.id \notin new
        BY <2>1, <3>2 DEF Unwritten
    <3> QED BY <2>1, <3>1, <3>3
  <2>6. \A w \in Workers : \A c \in batch[w] : Agrees(c)'
      BY <2>3, <2>5 DEF ClaimsAgree, Agrees, Rows
  <2>7. \A d \in due' : row'[d].status \in Open
      BY <2>1, <2>2, <2>4 DEF ClaimsAgree, Open, TypeOK, Rows
  <2>8. \A d \in Rows' : row'[d].status \in Open => row'[d].attempts <= Delays
      BY <2>1, <2>2 DEF ClaimsAgree, Rows
  <2> QED BY <2>3, <2>6, <2>7, <2>8 DEF ClaimsAgree
<1>4. ASSUME NEW w \in Workers, Claim(w) PROVE ClaimsAgree'
  <2>1. PICK ids \in SUBSET due :
           batch' = [batch EXCEPT ![w] = {[id |-> d, attempts |-> row[d].attempts] : d \in ids}]
      BY <1>4 DEF Claim
  <2>2. \A v \in Workers : batch'[v] = {[id |-> d, attempts |-> row[d].attempts] : d \in ids}
      BY <2>1 DEF OnePass, TypeOK
  <2>3. UNCHANGED <<row, due, redelivered>>
      BY <1>4 DEF Claim
  <2>4. \A d \in due : d \in Rows /\ row[d].status \in Open /\ row[d].attempts \in Nat /\ row[d].attempts <= Delays
      BY RowIsRecord DEF ClaimsAgree, TypeOK, RowRecords
  <2>5. ASSUME NEW v \in Workers, NEW c \in batch'[v]
        PROVE  /\ Agrees(c)' /\ c.attempts <= Delays
               /\ \A b \in batch'[v] : b.id = c.id => b = c
    <3>1. PICK d \in ids : c = [id |-> d, attempts |-> row[d].attempts]
        BY <2>2, <2>5
    <3>2. Agrees(c)' /\ c.attempts <= Delays
        BY <2>3, <2>4, <3>1 DEF Agrees, Rows
    <3>3. ASSUME NEW b \in batch'[v], b.id = c.id PROVE b = c
        BY <2>2, <3>1, <3>3
    <3> QED BY <3>2, <3>3
  <2> QED BY <2>3, <2>5 DEF ClaimsAgree, Rows
<1>5. ASSUME NEW w \in Workers, HandleRow(w) PROVE ClaimsAgree'
  <2>1. PICK c \in batch[w] :
          \/ /\ c.id \in Rows
             /\ \E result \in attemptDelivery :
                   row' = [row EXCEPT ![c.id] = AfterAttempt(row[c.id], c.attempts, result)]
             /\ due' = due \ {c.id}
             /\ batch' = [batch EXCEPT ![w] = batch[w] \ {c}]
          \/ /\ c.id \notin Rows
             /\ batch' = [batch EXCEPT ![w] = {}]
             /\ UNCHANGED <<row, due>>
      BY <1>5 DEF HandleRow
  <2>2. UNCHANGED redelivered
      BY <1>5 DEF HandleRow
  <2>3. CASE c.id \notin Rows
    <3>1. \A v \in Workers : batch'[v] \subseteq batch[v]
        BY <2>1, <2>3 DEF TypeOK
    <3>2. UNCHANGED <<row, due>>
        BY <2>1, <2>3
    <3> QED BY <2>2, <3>1, <3>2 DEF ClaimsAgree, Agrees, Rows
  <2>4. CASE c.id \in Rows
    <3>1. PICK result \in attemptDelivery :
             row' = [row EXCEPT ![c.id] = AfterAttempt(row[c.id], c.attempts, result)]
        BY <2>1, <2>4
    <3>2. /\ c.attempts <= Delays /\ row[c.id].attempts <= c.attempts /\ c.attempts \in Nat
          /\ row[c.id] \in RowRecords
          /\ \A d \in Deliveries \ {c.id} : row'[d] = row[d]
          /\ \/ row'[c.id].status = "DELIVERED" /\ row'[c.id].attempts = row[c.id].attempts
             \/ row'[c.id].status = "RETRYING" /\ row'[c.id].attempts = row[c.id].attempts + 1 /\ c.attempts < Delays
             \/ row'[c.id].status = "FAILED" /\ row'[c.id].attempts = row[c.id].attempts + 1 /\ c.attempts = Delays
        BY <2>4, <3>1, TurnEnds
    <3>3. row[c.id].attempts \in Nat
        BY <3>2 DEF RowRecords
    <3>4. row'[c.id].status \in Open => row'[c.id].attempts <= Delays
        BY <3>2, <3>3 DEF Open
    <3>5. \A d \in Rows' : row'[d].status \in Open => row'[d].attempts <= Delays
        BY <3>2, <3>4 DEF ClaimsAgree, Rows
    <3>6. due' = due \ {c.id} /\ batch' = [batch EXCEPT ![w] = batch[w] \ {c}]
        BY <2>1, <2>4
    <3>7. \A d \in due' : row'[d].status \in Open
        BY <3>2, <3>6 DEF ClaimsAgree, TypeOK, Rows
    <3>8. \A v \in Workers : batch'[v] = batch[w] \ {c}
        BY <3>6 DEF OnePass, TypeOK
    <3>9. ASSUME NEW b \in batch[w] \ {c} PROVE Agrees(b)'
      <4>1. b.id \in Deliveries \ {c.id}
          BY DEF ClaimsAgree, TypeOK, Claims
      <4>2. row'[b.id] = row[b.id]
          BY <3>2, <4>1
      <4>3. Agrees(b)
          BY DEF ClaimsAgree
      <4> QED BY <2>2, <4>1, <4>2, <4>3 DEF Agrees, Rows
    <3> QED BY <3>5, <3>7, <3>8, <3>9 DEF ClaimsAgree
  <2> QED BY <2>3, <2>4
<1>6. ASSUME NEW w \in Workers, LoseBatch(w) PROVE ClaimsAgree'
  <2>1. \A v \in Workers : batch'[v] \subseteq batch[v]
      BY <1>6 DEF LoseBatch, TypeOK
  <2> QED BY <1>6, <2>1 DEF LoseBatch, ClaimsAgree, Agrees, Rows
<1>7. ASSUME NEW d \in Deliveries, BecomesDue(d) PROVE ClaimsAgree'
    BY <1>7 DEF BecomesDue, ClaimsAgree, Agrees, Rows
<1>8. ASSUME NEW d \in Deliveries, Redeliver(d) PROVE ClaimsAgree'
  <2> DEFINE new == [row[d] EXCEPT !.status = "PENDING", !.attempts = 0]
  <2>1. /\ row' = [row EXCEPT ![d] = new] /\ d \in Rows /\ due' = due \cup {d}
        /\ UNCHANGED batch /\ redelivered' = redelivered + 1
      BY <1>8 DEF Redeliver
  <2>2. new.status = "PENDING" /\ new.attempts = 0 /\ new \in RowRecords
      BY <2>1, RowIsRecord DEF RowRecords, Open
  <2> HIDE DEF new
  <2>3. row'[d] = new /\ \A x \in Deliveries \ {d} : row'[x] = row[x]
      BY <2>1 DEF TypeOK
  <2>4. redelivered' # 0
      BY <2>1 DEF TypeOK
  <2>5. ASSUME NEW w \in Workers, NEW c \in batch[w] PROVE Agrees(c)'
    <3>1. c.id \in Deliveries /\ c.attempts \in Nat
        BY DEF TypeOK, Claims
    <3>2. Agrees(c)
        BY DEF ClaimsAgree
    <3>3. CASE c.id = d
      <4>1. c.id \in Rows'
          BY <2>2, <2>3, <3>1, <3>3, NoRowAssumption DEF Rows
      <4> QED BY <2>2, <2>3, <2>4, <3>1, <3>3, <4>1 DEF Agrees, Open
    <3>4. CASE c.id # d
        BY <2>3, <2>4, <3>1, <3>2, <3>4 DEF Agrees, Rows
    <3> QED BY <3>3, <3>4
  <2>6. \A x \in due' : row'[x].status \in Open
      BY <2>1, <2>2, <2>3 DEF ClaimsAgree, Open, TypeOK, Rows
  <2>7. \A x \in Rows' : row'[x].status \in Open => row'[x].attempts <= Delays
      BY <2>2, <2>3 DEF ClaimsAgree, Rows
  <2> QED BY <2>1, <2>5, <2>6, <2>7 DEF ClaimsAgree
<1> QED BY <1>1, <1>2, <1>3, <1>4, <1>5, <1>6, <1>7, <1>8
        DEF Next, vars, PlanChanges, CreateEndpoint, UpdateEndpoint

LEMMA BudgetStep ==
    ASSUME TypeOK, TypeOK', ClaimsAgree, RetryBudget, [Next]_vars
    PROVE  RetryBudget'
<1> USE DelaysAssumption
<1>1. CASE UNCHANGED row
    BY <1>1 DEF RetryBudget, Rows
<1>2. ASSUME NEW e \in Endpoints, DeleteEndpoint(e) PROVE RetryBudget'
    BY <1>2 DEF DeleteEndpoint, RetryBudget, Rows
<1>3. ASSUME NEW event \in Events, Dispatch(event) PROVE RetryBudget'
  <2>1. PICK new \in SUBSET Unwritten :
              /\ \A d \in new : \E e \in Matching(event) : row'[d] = NewRow(e)
              /\ \A d \in Deliveries \ new : row'[d] = row[d]
      BY <1>3, DispatchWrites
  <2>2. \A d \in new : row'[d].attempts = 0
      BY <2>1, NewRowTyped DEF Matching
  <2> QED BY <2>1, <2>2 DEF RetryBudget, Rows
<1>4. ASSUME NEW w \in Workers, HandleRow(w) PROVE RetryBudget'
  <2>1. CASE UNCHANGED row
      BY <1>1, <2>1
  <2>2. ASSUME NEW c \in batch[w], c.id \in Rows, NEW result \in attemptDelivery,
               row' = [row EXCEPT ![c.id] = AfterAttempt(row[c.id], c.attempts, result)]
        PROVE  RetryBudget'
    <3>1. /\ c.attempts <= Delays /\ row[c.id].attempts <= c.attempts /\ c.attempts \in Nat
          /\ row[c.id] \in RowRecords
          /\ \A d \in Deliveries \ {c.id} : row'[d] = row[d]
          /\ \/ row'[c.id].attempts = row[c.id].attempts
             \/ row'[c.id].attempts = row[c.id].attempts + 1
        BY <2>2, TurnEnds
    <3>2. row[c.id].attempts \in Nat
        BY <3>1 DEF RowRecords
    <3>3. row'[c.id].attempts <= Delays + 1
        BY <3>1, <3>2
    <3> QED BY <3>1, <3>3 DEF RetryBudget, Rows
  <2> QED BY <1>4, <2>1, <2>2 DEF HandleRow
<1>5. ASSUME NEW d \in Deliveries, Redeliver(d) PROVE RetryBudget'
  <2> DEFINE new == [row[d] EXCEPT !.status = "PENDING", !.attempts = 0]
  <2>1. row' = [row EXCEPT ![d] = new] /\ d \in Rows
      BY <1>5 DEF Redeliver
  <2>2. new.attempts = 0
      BY <2>1, RowIsRecord DEF RowRecords
  <2> HIDE DEF new
  <2> QED BY <2>1, <2>2 DEF RetryBudget, Rows, TypeOK
<1> QED BY <1>1, <1>2, <1>3, <1>4, <1>5
        DEF Next, vars, PlanChanges, CreateEndpoint, UpdateEndpoint, Claim, LoseBatch, BecomesDue

LEMMA OnePassInit == Init => ClaimsAgree /\ RetryBudget
BY DEF Init, ClaimsAgree, RetryBudget, Rows

(* With one pass at a time, what a pass read when it claimed its rows still    *)
(* holds of them when it handles them, up to redeliveries by hand.            *)
THEOREM ClaimsStayTrue == ASSUME OnePass PROVE Spec => []ClaimsAgree
<1>1. TypeOK /\ TypeOK' /\ ClaimsAgree /\ [Next]_vars => ClaimsAgree'
    BY AgreeStep
<1> QED BY <1>1, TypeCorrect, OnePassInit, PTL DEF Spec

(* With one pass at a time no row is attempted more often than the backoff     *)
(* table allows, whatever is redelivered, deleted or lost on the way.         *)
THEOREM BudgetKept == ASSUME OnePass PROVE Spec => []RetryBudget
<1>1. TypeOK /\ TypeOK' /\ ClaimsAgree /\ RetryBudget /\ [Next]_vars => RetryBudget'
    BY BudgetStep
<1> QED BY <1>1, TypeCorrect, ClaimsStayTrue, OnePassInit, PTL DEF Spec

-----------------------------------------------------------------------------
(* The refinement.                                                          *)

(* The stage of a row depends on the row alone, and of a record on its status. *)
LEMMA StageOfRecord ==
    ASSUME NEW r \in RowRecords
    PROVE  /\ r.status \in Open => StageOf(r) = "waiting"
           /\ r.status = "DELIVERED" => StageOf(r) = "delivered"
           /\ r.status = "FAILED" => StageOf(r) = "failed"
           /\ SpentOf(r) = r.attempts
<1>1. r \notin {NoRow, Gone}
    BY NoRowAssumption
<1>2. SpentOf(r) = r.attempts
    BY <1>1 DEF SpentOf
<1>3. ASSUME r.status \in Open PROVE StageOf(r) = "waiting"
    BY <1>1, <1>3 DEF StageOf, Open
<1>4. ASSUME r.status = "DELIVERED" PROVE StageOf(r) = "delivered"
    BY <1>1, <1>4 DEF StageOf, Open
<1>5. ASSUME r.status = "FAILED" PROVE StageOf(r) = "failed"
    BY <1>1, <1>5 DEF StageOf, Open
<1> QED BY <1>2, <1>3, <1>4, <1>5

LEMMA StageOfMarker ==
    /\ StageOf(NoRow) = "absent" /\ StageOf(Gone) = "removed"
    /\ SpentOf(NoRow) = 0 /\ SpentOf(Gone) = 0
BY NoRowAssumption DEF StageOf, SpentOf

(* Rows are what is neither absent nor removed. *)
LEMMA AbsentIsUnwritten ==
    ASSUME TypeOK, NEW d \in Deliveries
    PROVE  stages[d] = "absent" <=> row[d] = NoRow
<1>1. CASE row[d] = NoRow
    BY <1>1, StageOfMarker DEF stages
<1>2. CASE row[d] = Gone
    BY <1>2, StageOfMarker, NoRowAssumption DEF stages
<1>3. CASE row[d] \in RowRecords
  <2>1. StageOf(row[d]) \in {"waiting", "delivered", "failed"}
      BY <1>3, StageOfRecord DEF RowRecords
  <2> QED BY <1>3, <2>1, NoRowAssumption DEF stages
<1> QED BY <1>1, <1>2, <1>3 DEF TypeOK

LEMMA InitPromised == Init => Promise!Init
BY StageOfMarker DEF Init, Promise!Init, stages, spents

(* Every step of a single pass, of an administrator or of a service is a step   *)
(* of the promise, or changes nothing a client can see.                       *)
LEMMA StepPromised ==
    ASSUME TypeOK, TypeOK', ClaimsAgree, [Next]_vars
    PROVE  [Promise!Next]_Promise!outboxVars
<1>1. CASE UNCHANGED <<row, redelivered>>
    BY <1>1 DEF Promise!outboxVars, stages, spents
<1>2. ASSUME NEW e \in Endpoints, DeleteEndpoint(e) PROVE Promise!Next
  <2>1. RowsOf(e) \in SUBSET (Deliveries \ Promise!In("absent"))
      BY AbsentIsUnwritten DEF RowsOf, Rows, Promise!In
  <2>2. stages' = [d \in Deliveries |-> IF d \in RowsOf(e) THEN "removed" ELSE stages[d]]
      BY <1>2, StageOfMarker DEF DeleteEndpoint, stages
  <2>3. spents' = [d \in Deliveries |-> IF d \in RowsOf(e) THEN 0 ELSE spents[d]]
      BY <1>2, StageOfMarker DEF DeleteEndpoint, spents
  <2>4. (redelivered > 0)' = (redelivered > 0)
      BY <1>2 DEF DeleteEndpoint
  <2>5. Promise!Remove(RowsOf(e))
      BY <2>2, <2>3, <2>4 DEF Promise!Remove
  <2> QED BY <2>1, <2>5 DEF Promise!Next
<1>3. ASSUME NEW event \in Events, Dispatch(event) PROVE Promise!Next
  <2>1. PICK new \in SUBSET Unwritten :
              /\ \A d \in new : \E e \in Matching(event) : row'[d] = NewRow(e)
              /\ \A d \in Deliveries \ new : row'[d] = row[d]
      BY <1>3, DispatchWrites
  <2>2. \A d \in new : StageOf(row'[d]) = "waiting" /\ SpentOf(row'[d]) = 0
      BY <2>1, NewRowTyped, StageOfRecord DEF Matching, Open
  <2>3. \A d \in new : d \in Deliveries /\ row[d] = NoRow
      BY <2>1 DEF Unwritten
  <2>4. stages' = [d \in Deliveries |-> IF d \in new THEN "waiting" ELSE stages[d]]
      BY <2>1, <2>2 DEF stages
  <2>5. spents' = spents
      BY <2>1, <2>2, <2>3, StageOfMarker DEF spents
  <2>6. (redelivered > 0)' = (redelivered > 0)
      BY <1>3 DEF Dispatch
  <2>7. Promise!Write(new)
      BY <2>4, <2>5, <2>6 DEF Promise!Write
  <2>8. new \in SUBSET Promise!In("absent")
      BY <2>3, AbsentIsUnwritten DEF Promise!In
  <2> QED BY <2>7, <2>8 DEF Promise!Next
<1>4. ASSUME NEW w \in Workers, HandleRow(w) PROVE [Promise!Next]_Promise!outboxVars
  <2>1. UNCHANGED redelivered
      BY <1>4 DEF HandleRow
  <2>2. CASE UNCHANGED row
      BY <1>1, <2>1, <2>2
  <2>3. ASSUME NEW c \in batch[w], c.id \in Rows, NEW result \in attemptDelivery,
               row' = [row EXCEPT ![c.id] = AfterAttempt(row[c.id], c.attempts, result)]
        PROVE  Promise!Attempt(c.id)
    <3>0. (redelivered > 0)' = (redelivered > 0)
        BY <2>1
    <3>1. /\ c.id \in Deliveries /\ c.attempts \in Nat /\ c.attempts <= Delays
          /\ row[c.id] \in RowRecords /\ row[c.id].status \in Open
          /\ row[c.id].attempts <= c.attempts
          /\ redelivered = 0 => row[c.id].attempts = c.attempts
          /\ row'[c.id] \in RowRecords
          /\ \A x \in Deliveries \ {c.id} : row'[x] = row[x]
          /\ \/ row'[c.id].status = "DELIVERED" /\ row'[c.id].attempts = row[c.id].attempts
             \/ row'[c.id].status = "RETRYING" /\ row'[c.id].attempts = row[c.id].attempts + 1 /\ c.attempts < Delays
             \/ row'[c.id].status = "FAILED" /\ row'[c.id].attempts = row[c.id].attempts + 1 /\ c.attempts = Delays
        BY <2>3, TurnEnds
    <3>2. stages[c.id] = "waiting" /\ spents[c.id] = row[c.id].attempts
        BY <3>1, StageOfRecord DEF stages, spents
    <3>3. spents' = [spents EXCEPT ![c.id] = SpentOf(row'[c.id])] /\ stages' = [stages EXCEPT ![c.id] = StageOf(row'[c.id])]
        BY <3>1 DEF stages, spents
    <3>4. SpentOf(row'[c.id]) = row'[c.id].attempts /\ row[c.id].attempts \in Nat
        BY <3>1, StageOfRecord DEF RowRecords
    <3>5. CASE row'[c.id].status = "DELIVERED" /\ row'[c.id].attempts = row[c.id].attempts
      <4>1. stages' = [stages EXCEPT ![c.id] = "delivered"]
          BY <3>1, <3>3, <3>5, StageOfRecord
      <4>2. spents' = spents
          BY <3>1, <3>2, <3>3, <3>4, <3>5 DEF spents
      <4> QED BY <3>0, <3>2, <4>1, <4>2 DEF Promise!Attempt, Promise!Deliver
    <3>6. CASE row'[c.id].status = "RETRYING" /\ row'[c.id].attempts = row[c.id].attempts + 1 /\ c.attempts < Delays
      <4>1. stages' = stages
          BY <3>1, <3>2, <3>3, <3>6, StageOfRecord DEF stages, Open
      <4>2. spents' = [spents EXCEPT ![c.id] = spents[c.id] + 1]
          BY <3>2, <3>3, <3>4, <3>6
      <4>3. spents[c.id] < Delays
          BY <3>1, <3>2, <3>4, <3>6, DelaysAssumption
      <4> QED BY <3>0, <3>2, <4>1, <4>2, <4>3 DEF Promise!Attempt, Promise!Refuse
    <3>7. CASE row'[c.id].status = "FAILED" /\ row'[c.id].attempts = row[c.id].attempts + 1 /\ c.attempts = Delays
      <4>1. stages' = [stages EXCEPT ![c.id] = "failed"]
          BY <3>1, <3>3, <3>7, StageOfRecord
      <4>2. spents' = [spents EXCEPT ![c.id] = spents[c.id] + 1]
          BY <3>2, <3>3, <3>4, <3>7
      <4>3. redelivered \in Nat
          BY BoundsAssumption DEF TypeOK
      <4>4. spents[c.id] = Delays \/ redelivered > 0
          BY <3>1, <3>2, <3>7, <4>3
      <4> QED BY <3>0, <3>2, <4>1, <4>2, <4>4 DEF Promise!Attempt, Promise!GiveUp
    <3> QED BY <3>1, <3>5, <3>6, <3>7
  <2>4. \A d \in Rows : d \in Deliveries
      BY DEF Rows
  <2> QED BY <1>4, <2>2, <2>3, <2>4 DEF HandleRow, Promise!Next
<1>5. ASSUME NEW d \in Deliveries, Redeliver(d) PROVE Promise!Next
  <2> DEFINE new == [row[d] EXCEPT !.status = "PENDING", !.attempts = 0]
  <2>1. row' = [row EXCEPT ![d] = new] /\ d \in Rows /\ redelivered' = redelivered + 1
      BY <1>5 DEF Redeliver
  <2>2. new \in RowRecords /\ new.status = "PENDING" /\ new.attempts = 0 /\ row[d] \in RowRecords
      BY <2>1, RowIsRecord DEF RowRecords, Open
  <2> HIDE DEF new
  <2>3. StageOf(new) = "waiting" /\ SpentOf(new) = 0
      BY <2>2, StageOfRecord DEF Open
  <2>4. stages[d] \in {"waiting", "delivered", "failed"}
      BY <2>2, StageOfRecord DEF stages, RowRecords
  <2>5. stages' = [stages EXCEPT ![d] = "waiting"] /\ spents' = [spents EXCEPT ![d] = 0]
      BY <2>1, <2>3 DEF stages, spents, TypeOK
  <2>6. redelivered' > 0
      BY <2>1, BoundsAssumption DEF TypeOK
  <2>7. (redelivered > 0)' = TRUE
      BY <2>6
  <2>8. Promise!Requeue(d)
      BY <2>4, <2>5, <2>7 DEF Promise!Requeue
  <2> QED BY <2>8 DEF Promise!Next
<1> QED BY <1>1, <1>2, <1>3, <1>4, <1>5
        DEF Next, vars, PlanChanges, CreateEndpoint, UpdateEndpoint, Claim, LoseBatch, BecomesDue

(* With one pass at a time the outbox implements the safety of its promise:    *)
(* a row is retried until it is delivered or the table is exhausted, and none  *)
(* is failed early, revived without a redelivery, or lost.                    *)
THEOREM PromiseKept ==
    ASSUME OnePass PROVE Spec => Promise!Init /\ [][Promise!Next]_Promise!outboxVars
<1>1. TypeOK /\ TypeOK' /\ ClaimsAgree /\ [Next]_vars => [Promise!Next]_Promise!outboxVars
    BY StepPromised
<1> QED BY <1>1, InitPromised, TypeCorrect, ClaimsStayTrue, PTL DEF Spec
=============================================================================
