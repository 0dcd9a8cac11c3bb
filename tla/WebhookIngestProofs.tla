------------------------ MODULE WebhookIngestProofs -------------------------
(***************************************************************************)
(* Webhook ingest for every number of identities, rows, threads, upsets    *)
(* and ticks, and for every TTL.                                           *)
(***************************************************************************)
EXTENDS WebhookIngest, FiniteSetTheorems, TLAPS

USE DEF Threads, JobIds, Times, Unseen

\* TypeOK speaks of the functions' values; a step needs their domains too.
RowShapes ==
  /\ row \in [JobIds -> [type : {"none", "webhook", "poster_rename"},
                         item : Items \cup {NoItem}, of : Nat, sighted : Times \cup {Unseen}]]
  /\ state \in [JobIds -> {"absent", "pending", "running", "success", "error"}]
  /\ holder \in [JobIds -> Threads \cup {NoThread}]
  /\ attempts \in [JobIds -> Nat]
  /\ result \in [JobIds -> {"none", "done", "retry queued"}]
  /\ repeats \in [JobIds -> Nat]

Counts == upsets \in 0..MaxUpsets /\ lost \subseteq Items

RequestShape ==
  request \in [step : {"idle", "sighted", "rolling_back"}, item : Items \cup {NoItem},
               sighted : Times \cup {Unseen}]

Shapes == RowShapes /\ RequestShape /\ Counts /\ up \in BOOLEAN

\* While the process runs, the rows at work are the running ones; each has
\* used an attempt.  After its end nobody holds a row.
Working ==
  /\ \A j \in JobIds : state[j] = "running" => attempts[j] > 0
  /\ \A j \in JobIds : Held(j) => up /\ state[j] = "running"

\* The one delivery in hand is on record with the time it was sighted at.
InHand ==
  /\ request.step = "idle" => request = Waiting
  /\ request.step # "idle" =>
       /\ request.item \in Items /\ request.sighted \in Times
       /\ seen[request.item] = request.sighted

TypeInv == TypeOK /\ Shapes /\ Working /\ InHand

LEMMA InitTypeInv == Init => TypeInv
BY WebhookAssumption
DEF Init, Queue!Init, TypeInv, TypeOK, Shapes, RowShapes, Counts, RequestShape, Working,
     InHand, Waiting, NoJob, Held, PoolOf

\* What a row's insertion does to the queue.
LEMMA Inserted ==
  ASSUME TypeInv, NEW j \in JobIds, NEW r, Insert(j, r)
  PROVE  /\ state[j] = "absent" /\ row[j].type = "none" /\ holder[j] = NoThread
         /\ state' = [state EXCEPT ![j] = "pending"]
         /\ row' = [row EXCEPT ![j] = r]
         /\ UNCHANGED <<holder, attempts>>
         /\ \A k \in JobIds : k < j <=> state[k] # "absent"
BY DEF TypeInv, TypeOK, Working, Held, Insert, Queue!Submit, Queue!Move

\* A step that does not touch the queue.
LEMMA QueueAlone ==
  ASSUME TypeInv, UNCHANGED <<row, state, holder, attempts, result, up, queued, repeats>>,
         RequestShape', Counts', InHand',
         now' \in Times, events' \in 0..MaxEvents, seen' \in [Items -> Times \cup {Unseen}],
         owed' \subseteq Items
  PROVE  TypeInv'
BY DEF TypeInv, TypeOK, Shapes, RowShapes, RequestShape, Counts, Working, Held, PoolOf

\* TypeOK, a row at a time.
RowOK(j) ==
  /\ row[j].type \in {"none", "webhook", "poster_rename"}
  /\ row[j].type = "none" <=> state[j] = "absent"
  /\ state[j] \in {"absent", "pending", "running", "success", "error"}
  /\ holder[j] \in PoolOf(j) \cup {NoThread}
  /\ attempts[j] \in 0..MaxAttempts
  /\ result[j] \in {"none", "done", "retry queued"}
  /\ repeats[j] \in Nat

Scalars ==
  /\ now \in Times /\ events \in 0..MaxEvents
  /\ seen \in [Items -> Times \cup {Unseen}]
  /\ owed \subseteq Items

LEMMA TypedByRow ==
  RequestShape => (TypeOK <=> /\ Scalars /\ Counts
                              /\ \A j \in JobIds : RowOK(j)
                              /\ \A j \in queued : j \in JobIds /\ Held(j))
BY DEF TypeOK, Scalars, Counts, RowOK, RequestShape

LEMMA TypedByRowNext ==
  RequestShape' => (TypeOK' <=> /\ Scalars' /\ Counts'
                                /\ \A j \in JobIds : RowOK(j)'
                                /\ \A j \in queued' : j \in JobIds /\ Held(j)')
BY DEF TypeOK, Scalars, Counts, RowOK, RequestShape

\* Senders, the clock and process_poster_webhook up to the enqueue.
LEMMA DeliveryTypes ==
  ASSUME TypeInv,
         \/ Tick \/ EnqueueFails \/ RollBack \/ RollBackFails
         \/ \E i \in Items : Happens(i) \/ Debounce(i) \/ Sight(i)
  PROVE  TypeInv'
<1> USE DEF clocks, ingest, queue, bodies, faults
<1>1. UNCHANGED <<row, state, holder, attempts, result, up, queued, repeats>>
  BY DEF Tick, EnqueueFails, RollBack, RollBackFails, Happens, Debounce, Sight
<1>2. now \in Times /\ events \in 0..MaxEvents /\ seen \in [Items -> Times \cup {Unseen}]
      /\ owed \subseteq Items
  BY DEF TypeInv, TypeOK
<1>3. RequestShape /\ Counts /\ InHand BY DEF TypeInv, Shapes
<1>4. CASE Tick
  <2>1. now' \in Times BY <1>2, <1>4, WebhookAssumption DEF Tick
  <2>2. RequestShape' /\ Counts' BY <1>3, <1>4 DEF Tick, RequestShape, Counts
  <2>3. InHand' BY <1>3, <1>4 DEF Tick, InHand
  <2> QED BY <1>1, <1>2, <1>4, <2>1, <2>2, <2>3, QueueAlone DEF Tick
<1>5. CASE EnqueueFails
  <2>1. /\ request.step = "sighted" /\ request' = [request EXCEPT !.step = "rolling_back"]
        /\ upsets < MaxUpsets /\ upsets' = upsets + 1
        /\ UNCHANGED <<now, events, seen, owed, lost>>
    BY <1>5 DEF EnqueueFails, Upset
  <2>2. RequestShape' BY <1>3, <2>1 DEF RequestShape
  <2>3. Counts' BY <1>3, <2>1, WebhookAssumption DEF Counts
  <2>4. /\ request'.step = "rolling_back" /\ request'.item = request.item
        /\ request'.sighted = request.sighted
    BY <1>3, <2>1 DEF RequestShape
  <2>5. InHand' BY <1>3, <2>1, <2>4 DEF InHand
  <2> QED BY <1>1, <1>2, <2>1, <2>2, <2>3, <2>5, QueueAlone
<1>6. CASE RollBack \/ RollBackFails
  <2>1. /\ request' = Waiting /\ request.step = "rolling_back"
        /\ \/ UNCHANGED <<upsets, lost>>
           \/ /\ upsets < MaxUpsets /\ upsets' = upsets + 1
              /\ lost' = lost \cup {request.item}
        /\ seen' = seen \/ seen' = [seen EXCEPT ![request.item] = Unseen]
        /\ UNCHANGED <<now, events, owed>>
    BY <1>6 DEF RollBack, RollBackFails, Upset
  <2>2. seen' \in [Items -> Times \cup {Unseen}] BY <1>2, <2>1
  <2>3. RequestShape' BY <2>1 DEF RequestShape, Waiting
  <2>4. Counts' BY <1>3, <2>1, WebhookAssumption DEF Counts, InHand
  <2>5. InHand' BY <2>1 DEF InHand, Waiting
  <2> QED BY <1>1, <1>2, <2>1, <2>2, <2>3, <2>4, <2>5, QueueAlone
<1>7. ASSUME NEW i \in Items, Happens(i) PROVE TypeInv'
  <2>1. /\ events < MaxEvents /\ events' = events + 1 /\ owed' = owed \cup {i}
        /\ UNCHANGED <<now, seen, request, upsets, lost>>
    BY <1>7 DEF Happens
  <2>2. events' \in 0..MaxEvents /\ owed' \subseteq Items
    BY <1>2, <2>1, WebhookAssumption
  <2>3. RequestShape' /\ Counts' BY <1>3, <2>1 DEF RequestShape, Counts
  <2>4. InHand' BY <1>3, <2>1 DEF InHand
  <2> QED BY <1>1, <1>2, <2>1, <2>2, <2>3, <2>4, QueueAlone
<1>8. Swept \in [Items -> Times \cup {Unseen}] BY <1>2 DEF Swept
<1>9. ASSUME NEW i \in Items, Debounce(i) PROVE TypeInv'
  <2>1. /\ request = Waiting /\ seen' = Swept /\ owed' = owed \ {i}
        /\ UNCHANGED <<now, events, request, upsets, lost>>
    BY <1>9 DEF Debounce
  <2>2. RequestShape' /\ Counts' BY <1>3, <2>1 DEF RequestShape, Counts
  <2>3. InHand' BY <2>1 DEF InHand, Waiting
  <2> QED BY <1>1, <1>2, <1>8, <2>1, <2>2, <2>3, QueueAlone
<1>10. ASSUME NEW i \in Items, Sight(i) PROVE TypeInv'
  <2>1. /\ seen' = [Swept EXCEPT ![i] = now]
        /\ request' = [step |-> "sighted", item |-> i, sighted |-> now]
        /\ lost' = lost \ {i}
        /\ UNCHANGED <<now, events, owed, upsets>>
    BY <1>10 DEF Sight
  <2>2. RequestShape' BY <1>2, <2>1 DEF RequestShape
  <2>3. Counts' BY <1>3, <2>1 DEF Counts
  <2>4. InHand' BY <1>2, <1>8, <2>1 DEF InHand
  <2> QED BY <1>1, <1>2, <1>8, <2>1, <2>2, <2>3, <2>4, QueueAlone
<1> QED BY <1>4, <1>5, <1>6, <1>7, <1>9, <1>10

\* What the invariant says of the parts the queue's steps change.
LEMMA Parts ==
  ASSUME TypeInv
  PROVE  /\ Scalars /\ RowShapes /\ RequestShape /\ Counts /\ up \in BOOLEAN /\ InHand
         /\ \A j \in JobIds : RowOK(j)
         /\ \A j \in queued : j \in JobIds /\ Held(j)
BY TypedByRow DEF TypeInv, Shapes

LEMMA Whole ==
  ASSUME Scalars', RowShapes', RequestShape', Counts', up' \in BOOLEAN, InHand', Working',
         \A j \in JobIds : RowOK(j)',
         \A j \in queued' : j \in JobIds /\ Held(j)'
  PROVE  TypeInv'
BY TypedByRowNext DEF TypeInv, Shapes

Records == [type : {"none", "webhook", "poster_rename"}, item : Items \cup {NoItem}, of : Nat,
            sighted : Times \cup {Unseen}]

\* A new row, of either type, leaves the rows well formed.
LEMMA InsertTypes ==
  ASSUME TypeInv, NEW j \in JobIds, NEW r \in Records, r.type \in {"webhook", "poster_rename"},
         Insert(j, r), UNCHANGED <<result, up, repeats>>
  PROVE  /\ RowShapes' /\ Working'
         /\ \A i \in JobIds : RowOK(i)'
         /\ \A i \in JobIds : Held(i)' <=> Held(i)
<1>1. /\ state[j] = "absent" /\ holder[j] = NoThread
      /\ state' = [state EXCEPT ![j] = "pending"] /\ row' = [row EXCEPT ![j] = r]
      /\ UNCHANGED <<holder, attempts>>
  BY Inserted
<1>2. RowShapes BY Parts
<1>3. RowShapes' BY <1>1, <1>2 DEF RowShapes, Records
<1>4. Working' BY <1>1, <1>2 DEF TypeInv, Working, Held, RowShapes
<1>5. ASSUME NEW i \in JobIds PROVE RowOK(i)'
  <2>1. RowOK(i) BY Parts
  <2>2. CASE i = j BY <1>1, <1>2, <2>1, <2>2 DEF RowOK, RowShapes, PoolOf
  <2>3. CASE i # j BY <1>1, <1>2, <2>1, <2>3 DEF RowOK, RowShapes, PoolOf
  <2> QED BY <2>2, <2>3
<1> QED BY <1>1, <1>3, <1>4, <1>5 DEF Held

LEMMA AcceptTypes ==
  ASSUME TypeInv, NEW j \in JobIds, Accept(j) PROVE TypeInv'
<1> DEFINE r == [type |-> "webhook", item |-> request.item, of |-> j, sighted |-> request.sighted]
<1>1. /\ Insert(j, r) /\ request' = Waiting /\ owed' \subseteq owed
      /\ UNCHANGED <<now, events, seen, queued, result, repeats, up, upsets, lost>>
  BY DEF Accept, clocks, bodies, faults
<1>2. Scalars /\ RequestShape /\ Counts /\ up \in BOOLEAN
      /\ \A i \in queued : i \in JobIds /\ Held(i)
  BY Parts
<1>3. r \in Records /\ r.type = "webhook"
  BY <1>2, WebhookAssumption DEF RequestShape, Records
<1> HIDE DEF r
<1>4. /\ RowShapes' /\ Working'
      /\ \A i \in JobIds : RowOK(i)'
      /\ \A i \in JobIds : Held(i)' <=> Held(i)
  BY <1>1, <1>3, InsertTypes
<1>5. RequestShape' /\ InHand' BY <1>1 DEF InHand, RequestShape, Waiting
<1>6. Scalars' /\ Counts' /\ up' \in BOOLEAN BY <1>1, <1>2 DEF Scalars, Counts
<1>7. \A i \in queued' : i \in JobIds /\ Held(i)' BY <1>1, <1>2, <1>4
<1> QED BY <1>4, <1>5, <1>6, <1>7, Whole

\* The end of a body, and what is left of its row.
LEMMA Settled ==
  ASSUME TypeInv, NEW j \in JobIds, NEW to, NEW said, Settle(j, to, said)
  PROVE  /\ holder[j] # NoThread /\ state[j] = "running"
         /\ to \in {"pending", "success", "error"}
         /\ state' = [state EXCEPT ![j] = to] /\ holder' = [holder EXCEPT ![j] = NoThread]
         /\ queued' = queued \ {j} /\ result' = [result EXCEPT ![j] = said]
         /\ UNCHANGED <<now, events, seen, owed, request, row, attempts, up>>
<1>1. /\ state'[j] = to /\ \E s \in {"success", "error", "pending"} : state' = [state EXCEPT ![j] = s]
      /\ holder' = [holder EXCEPT ![j] = NoThread]
      /\ queued' = queued \ {j} /\ result' = [result EXCEPT ![j] = said]
      /\ UNCHANGED <<now, events, seen, owed, request, row, attempts, up>>
      /\ holder[j] # NoThread
  BY DEF Settle, Queue!Settle, Queue!Move, Queue!Free, clocks, ingest
<1>2. RowShapes BY Parts
<1>3. to \in {"pending", "success", "error"} /\ state' = [state EXCEPT ![j] = to]
  BY <1>1, <1>2 DEF RowShapes
<1>4. state[j] = "running" BY <1>1 DEF TypeInv, Working, Held
<1> QED BY <1>1, <1>3, <1>4

LEMMA SettleTypes ==
  ASSUME TypeInv, NEW j \in JobIds, NEW to, NEW said \in {"none", "done", "retry queued"},
         Settle(j, to, said), Counts', repeats' \in [JobIds -> Nat]
  PROVE  TypeInv'
<1>1. /\ holder[j] # NoThread /\ state[j] = "running"
      /\ to \in {"pending", "success", "error"}
      /\ state' = [state EXCEPT ![j] = to] /\ holder' = [holder EXCEPT ![j] = NoThread]
      /\ queued' = queued \ {j} /\ result' = [result EXCEPT ![j] = said]
      /\ UNCHANGED <<now, events, seen, owed, request, row, attempts, up>>
  BY Settled
<1>2. /\ Scalars /\ RowShapes /\ RequestShape /\ Counts /\ up \in BOOLEAN /\ InHand
      /\ \A i \in queued : i \in JobIds /\ Held(i)
  BY Parts
<1>3. RowShapes' BY <1>1, <1>2 DEF RowShapes
<1>4. Working' BY <1>1, <1>2 DEF TypeInv, Working, Held, RowShapes
<1>5. Scalars' /\ RequestShape' /\ Counts' /\ up' \in BOOLEAN /\ InHand'
  BY <1>1, <1>2 DEF Scalars, RequestShape, Counts, InHand
<1>6. ASSUME NEW i \in JobIds PROVE RowOK(i)'
  <2>1. RowOK(i) BY Parts
  <2>2. CASE i = j BY <1>1, <1>2, <2>1, <2>2 DEF RowOK, RowShapes, PoolOf
  <2>3. CASE i # j BY <1>1, <1>2, <2>1, <2>3 DEF RowOK, RowShapes, PoolOf
  <2> QED BY <2>2, <2>3
<1>7. \A i \in queued' : i \in JobIds /\ Held(i)' BY <1>1, <1>2 DEF Held, RowShapes
<1> QED BY <1>3, <1>4, <1>5, <1>6, <1>7, Whole

LEMMA RetryTypes ==
  ASSUME TypeInv, NEW j \in JobIds, NEW k \in JobIds, QueueRetry(j, k) PROVE TypeInv'
<1> DEFINE r == [row[j] EXCEPT !.type = "poster_rename", !.of = j]
<1>1. /\ Held(j) /\ Insert(k, r) /\ queued' = queued \cup {j}
      /\ UNCHANGED <<now, events, seen, owed, request, result, repeats, up, upsets, lost>>
  BY DEF QueueRetry, clocks, ingest, faults
<1>2. /\ Scalars /\ RowShapes /\ RequestShape /\ Counts /\ up \in BOOLEAN /\ InHand
      /\ \A i \in queued : i \in JobIds /\ Held(i)
  BY Parts
<1>3. row[j] \in Records BY <1>2 DEF RowShapes, Records
<1>4. r \in Records /\ r.type = "poster_rename"
  <2>1. j \in Nat BY WebhookAssumption
  <2> DEFINE renamed == [row[j] EXCEPT !.type = "poster_rename"]
  <2>2. renamed \in Records /\ renamed.type = "poster_rename" BY <1>3 DEF Records
  <2>3. r = [renamed EXCEPT !.of = j] OBVIOUS
  <2> HIDE DEF renamed, r
  <2> QED BY <2>1, <2>2, <2>3 DEF Records
<1> HIDE DEF r
<1>5. /\ RowShapes' /\ Working'
      /\ \A i \in JobIds : RowOK(i)'
      /\ \A i \in JobIds : Held(i)' <=> Held(i)
  BY <1>1, <1>4, InsertTypes
<1>6. Scalars' /\ RequestShape' /\ Counts' /\ up' \in BOOLEAN /\ InHand'
  BY <1>1, <1>2 DEF Scalars, RequestShape, Counts, InHand
<1>7. \A i \in queued' : i \in JobIds /\ Held(i)' BY <1>1, <1>2, <1>5
<1> QED BY <1>5, <1>6, <1>7, Whole

\* What was asked for and forgotten is counted, a row at a time.
LEMMA ForgottenTypes ==
  ASSUME RowShapes, NEW J PROVE Forgotten(J) \in [JobIds -> Nat]
<1> SUFFICES ASSUME NEW j \in JobIds
             PROVE  (IF j \in queued \cap J THEN repeats[j] + 1 ELSE repeats[j]) \in Nat
  BY DEF Forgotten
<1>1. repeats[j] \in Nat BY DEF RowShapes
<1> QED BY <1>1

LEMMA UpsetCounts ==
  ASSUME Counts, Upset, lost' \subseteq Items PROVE Counts'
BY WebhookAssumption DEF Counts, Upset

LEMMA WorkTypes ==
  ASSUME TypeInv, NEW j \in JobIds, Work(j) PROVE TypeInv'
<1>a. /\ Scalars /\ RowShapes /\ RequestShape /\ Counts /\ up \in BOOLEAN /\ InHand
      /\ \A i \in JobIds : RowOK(i)
      /\ \A i \in queued : i \in JobIds /\ Held(i)
  BY Parts
<1>b. ASSUME UNCHANGED <<repeats, faults>> PROVE Counts' /\ repeats' \in [JobIds -> Nat]
  BY <1>a, <1>b DEF Counts, RowShapes, faults
<1>1. CASE Succeed(j) BY <1>1, <1>b, SettleTypes DEF Succeed, Complete
<1>2. CASE SucceedWithRetry(j) BY <1>2, <1>b, SettleTypes DEF SucceedWithRetry, Complete
<1>3. CASE Fail(j) BY <1>3, <1>b, SettleTypes DEF Fail, Retried
<1>4. ASSUME NEW k \in JobIds, QueueRetry(j, k) PROVE TypeInv' BY <1>4, RetryTypes
<1>5. CASE RetryNotQueued(j)
  <2>1. /\ Held(j) /\ queued' = queued \cup {j} /\ Upset
        /\ UNCHANGED <<now, events, seen, owed, request, row, state, holder, attempts, result,
                       repeats, up, lost>>
    BY <1>5 DEF RetryNotQueued, clocks, ingest, queue
  <2>2. lost' \subseteq Items BY <1>a, <2>1 DEF Counts
  <2>3. RowShapes' /\ Working' BY <1>a, <2>1 DEF RowShapes, TypeInv, Working, Held
  <2>4. Scalars' /\ RequestShape' /\ Counts' /\ up' \in BOOLEAN /\ InHand'
    BY <1>a, <2>1, <2>2, UpsetCounts DEF Scalars, RequestShape, InHand
  <2>5. \A i \in JobIds : RowOK(i)' BY <1>a, <2>1 DEF RowOK, PoolOf
  <2>6. \A i \in queued' : i \in JobIds /\ Held(i)' BY <1>a, <2>1 DEF Held
  <2> QED BY <2>3, <2>4, <2>5, <2>6, Whole
<1>6. CASE CompleteFails(j)
  <2>1. repeats' \in [JobIds -> Nat] BY <1>a, <1>6, ForgottenTypes DEF CompleteFails
  <2>2. Counts' BY <1>a, <1>6, UpsetCounts DEF CompleteFails, Counts
  <2> QED BY <1>6, <2>1, <2>2, SettleTypes DEF CompleteFails, Retried
<1>7. CASE Abandon(j)
  <2>1. /\ Upset /\ repeats' = Forgotten({j}) /\ queued' = queued \ {j}
        /\ holder' = [holder EXCEPT ![j] = NoThread]
        /\ UNCHANGED <<now, events, seen, owed, request, row, state, attempts, result, up, lost>>
    BY <1>7 DEF Abandon, Queue!Abandon, clocks, ingest
  <2>2. lost' \subseteq Items /\ repeats' \in [JobIds -> Nat]
    BY <1>a, <2>1, ForgottenTypes DEF Counts
  <2>3. RowShapes' BY <1>a, <2>1, <2>2 DEF RowShapes
  <2>4. Working' BY <1>a, <2>1 DEF RowShapes, TypeInv, Working, Held
  <2>5. Scalars' /\ RequestShape' /\ Counts' /\ up' \in BOOLEAN /\ InHand'
    BY <1>a, <2>1, <2>2, UpsetCounts DEF Scalars, RequestShape, InHand
  <2>6. \A i \in JobIds : RowOK(i)' BY <1>a, <2>1, <2>2 DEF RowOK, RowShapes, PoolOf
  <2>7. \A i \in queued' : i \in JobIds /\ Held(i)' BY <1>a, <2>1 DEF Held, RowShapes
  <2> QED BY <2>3, <2>4, <2>5, <2>6, <2>7, Whole
<1> QED BY <1>1, <1>2, <1>3, <1>4, <1>5, <1>6, <1>7 DEF Work

LEMMA ReopenTypes ==
  ASSUME TypeInv, NEW j \in JobIds, Reopen(j) PROVE TypeInv'
<1>1. /\ Upset /\ holder[j] = NoThread /\ state[j] \in {"success", "error"}
      /\ state' = [state EXCEPT ![j] = "pending"]
      /\ attempts' = [attempts EXCEPT ![j] = 0] /\ result' = [result EXCEPT ![j] = "none"]
      /\ repeats' = repeats \/ repeats' = [repeats EXCEPT ![j] = @ + 1]
      /\ UNCHANGED <<now, events, seen, owed, request, row, holder, queued, up, lost>>
  BY DEF Reopen, Queue!Reopen, Queue!Move, Queue!Free, clocks, ingest
<1>2. /\ Scalars /\ RowShapes /\ RequestShape /\ Counts /\ up \in BOOLEAN /\ InHand
      /\ \A i \in queued : i \in JobIds /\ Held(i)
  BY Parts
<1>3. lost' \subseteq Items BY <1>1, <1>2 DEF Counts
<1>4. repeats' \in [JobIds -> Nat]
  <2>1. repeats \in [JobIds -> Nat] BY <1>2 DEF RowShapes
  <2>2. repeats[j] + 1 \in Nat BY <2>1
  <2> QED BY <1>1, <2>1, <2>2
<1>5. RowShapes' BY <1>1, <1>2, <1>4 DEF RowShapes
<1>6. Working' BY <1>1, <1>2 DEF TypeInv, Working, Held, RowShapes
<1>7. Scalars' /\ RequestShape' /\ Counts' /\ up' \in BOOLEAN /\ InHand'
  BY <1>1, <1>2, <1>3, UpsetCounts DEF Scalars, RequestShape, InHand
<1>8. ASSUME NEW i \in JobIds PROVE RowOK(i)'
  <2>1. RowOK(i) /\ 0 \in 0..MaxAttempts BY Parts, WebhookAssumption
  <2>2. CASE i = j BY <1>1, <1>2, <1>4, <2>1, <2>2 DEF RowOK, RowShapes, PoolOf
  <2>3. CASE i # j BY <1>1, <1>2, <1>4, <2>1, <2>3 DEF RowOK, RowShapes, PoolOf
  <2> QED BY <2>2, <2>3
<1>9. \A i \in queued' : i \in JobIds /\ Held(i)' BY <1>1, <1>2 DEF Held
<1> QED BY <1>5, <1>6, <1>7, <1>8, <1>9, Whole

LEMMA TakeTypes ==
  ASSUME TypeInv, NEW j \in JobIds, NEW t \in Threads, Take(j, t) PROVE TypeInv'
<1>1. /\ up /\ t \in PoolOf(j) /\ attempts[j] < MaxAttempts /\ state[j] = "pending"
      /\ state' = [state EXCEPT ![j] = "running"]
      /\ holder' = [holder EXCEPT ![j] = t] /\ attempts' = [attempts EXCEPT ![j] = @ + 1]
      /\ UNCHANGED <<now, events, seen, owed, request, row, queued, result, repeats, up,
                     upsets, lost>>
  BY DEF Take, Queue!Take, Queue!Move, clocks, ingest, bodies, faults
<1>2. /\ Scalars /\ RowShapes /\ RequestShape /\ Counts /\ up \in BOOLEAN /\ InHand
      /\ \A i \in queued : i \in JobIds /\ Held(i)
  BY Parts
<1> HIDE DEF Threads
<1>a. /\ attempts \in [JobIds -> Nat] /\ holder \in [JobIds -> Threads \cup {NoThread}]
      /\ state \in [JobIds -> {"absent", "pending", "running", "success", "error"}]
  BY <1>2 DEF RowShapes
<1>b. attempts' \in [JobIds -> Nat] /\ attempts'[j] = attempts[j] + 1 BY <1>1, <1>a
<1>c. holder' \in [JobIds -> Threads \cup {NoThread}] /\ holder'[j] = t BY <1>1, <1>a
<1>d. /\ state' \in [JobIds -> {"absent", "pending", "running", "success", "error"}]
      /\ state'[j] = "running"
  BY <1>1, <1>a
<1>3. RowShapes' BY <1>1, <1>2, <1>b, <1>c, <1>d DEF RowShapes
<1>4. Working'
  <2>1. ASSUME NEW i \in JobIds, state'[i] = "running" PROVE attempts'[i] > 0
    BY <1>1, <1>a, <2>1 DEF TypeInv, Working
  <2>2. ASSUME NEW i \in JobIds, Held(i)' PROVE up' /\ state'[i] = "running"
    BY <1>1, <1>a, <2>2 DEF TypeInv, Working, Held
  <2> QED BY <2>1, <2>2 DEF Working
<1>5. Scalars' /\ RequestShape' /\ Counts' /\ up' \in BOOLEAN /\ InHand'
  BY <1>1, <1>2 DEF Scalars, RequestShape, Counts, InHand
<1>6. ASSUME NEW i \in JobIds PROVE RowOK(i)'
  <2>1. RowOK(i) BY Parts
  <2>2. CASE i = j
    <3>1. attempts'[i] \in 0..MaxAttempts BY <1>1, <1>a, <2>2, WebhookAssumption
    <3>2. PoolOf(i)' = PoolOf(i) BY <1>1 DEF PoolOf
    <3> QED BY <1>1, <1>c, <1>d, <2>1, <2>2, <3>1, <3>2 DEF RowOK
  <2>3. CASE i # j BY <1>1, <1>2, <2>1, <2>3 DEF RowOK, RowShapes, PoolOf
  <2> QED BY <2>2, <2>3
<1>7. t # NoThread BY WebhookAssumption
<1>8. \A i \in queued' : i \in JobIds /\ Held(i)' BY <1>1, <1>2, <1>7 DEF Held, RowShapes
<1> QED BY <1>3, <1>4, <1>5, <1>6, <1>8, Whole

LEMMA ProcessTypes ==
  ASSUME TypeInv, Crash \/ Restart PROVE TypeInv'
<1>1. /\ Scalars /\ RowShapes /\ RequestShape /\ Counts /\ up \in BOOLEAN /\ InHand
      /\ \A i \in JobIds : RowOK(i)
      /\ \A i \in queued : i \in JobIds /\ Held(i)
  BY Parts
<1>2. CASE Crash
  <2>1. /\ Upset /\ up' = FALSE /\ request' = Waiting /\ queued' = {}
        /\ holder' = [j \in JobIds |-> NoThread] /\ repeats' = Forgotten(JobIds)
        /\ lost' = IF request = Waiting THEN lost ELSE lost \cup {request.item}
        /\ UNCHANGED <<now, events, seen, owed, row, state, attempts, result>>
    BY <1>2 DEF Crash, Queue!Crash, clocks
  <2>a. repeats' \in [JobIds -> Nat] BY <1>1, <2>1, ForgottenTypes
  <2>b. lost' \subseteq Items
    <3>1. CASE request = Waiting BY <1>1, <2>1, <3>1 DEF Counts
    <3>2. CASE request # Waiting BY <1>1, <2>1, <3>2 DEF Counts, InHand
    <3> QED BY <3>1, <3>2
  <2>2. RowShapes' BY <1>1, <2>1, <2>a DEF RowShapes
  <2>3. Working' BY <2>1 DEF TypeInv, Working, Held
  <2>4. RequestShape' /\ InHand' BY <2>1 DEF InHand, RequestShape, Waiting
  <2>5. Scalars' /\ up' \in BOOLEAN BY <1>1, <2>1 DEF Scalars
  <2>8. Counts' BY <1>1, <2>1, <2>b, UpsetCounts
  <2>6. \A i \in JobIds : RowOK(i)' BY <1>1, <2>1, <2>a DEF RowOK, PoolOf
  <2>7. \A i \in queued' : i \in JobIds /\ Held(i)' BY <2>1
  <2> QED BY <2>2, <2>3, <2>4, <2>5, <2>6, <2>7, <2>8, Whole
<1>3. CASE Restart
  <2> DEFINE stuck == {j \in JobIds : state[j] = "running"}
  <2>1. /\ ~up /\ up' = TRUE
        /\ state' = [j \in JobIds |-> IF j \in stuck THEN "pending" ELSE state[j]]
        /\ attempts' = [j \in JobIds |-> IF j \in stuck THEN attempts[j] - 1 ELSE attempts[j]]
        /\ UNCHANGED <<now, events, seen, owed, request, row, holder, queued, result, repeats,
                       upsets, lost>>
    BY <1>3 DEF Restart, Queue!Recover, GivenBack, clocks, ingest, bodies, faults
  <2>2. \A j \in stuck : attempts[j] > 0 BY DEF TypeInv, Working
  <2>a. ASSUME NEW i \in JobIds PROVE attempts'[i] \in Nat /\ attempts'[i] <= attempts[i]
    <3>1. attempts[i] \in Nat BY <1>1 DEF RowShapes
    <3>2. CASE i \in stuck
      <4>1. attempts'[i] = attempts[i] - 1 /\ attempts[i] > 0 BY <2>1, <2>2, <3>2
      <4> QED BY <3>1, <4>1
    <3>3. CASE i \notin stuck
      <4>1. attempts'[i] = attempts[i] BY <2>1, <3>3
      <4> QED BY <3>1, <4>1
    <3> QED BY <3>2, <3>3
  <2>b. attempts' \in [JobIds -> Nat] BY <2>1, <2>a
  <2>c. state' \in [JobIds -> {"absent", "pending", "running", "success", "error"}]
    BY <1>1, <2>1 DEF RowShapes
  <2>3. RowShapes' BY <1>1, <2>1, <2>b, <2>c DEF RowShapes
  <2>4. \A j \in JobIds : ~Held(j) BY <2>1 DEF TypeInv, Working
  <2>5. \A j \in JobIds : ~Held(j)' BY <2>1, <2>4 DEF Held
  <2>6. \A j \in JobIds : state'[j] # "running" BY <2>1
  <2>7. Working' BY <2>5, <2>6 DEF Working
  <2>8. Scalars' /\ RequestShape' /\ Counts' /\ up' \in BOOLEAN /\ InHand'
    BY <1>1, <2>1 DEF Scalars, RequestShape, Counts, InHand
  <2>9. ASSUME NEW i \in JobIds PROVE RowOK(i)'
    <3>1. RowOK(i) BY <1>1
    <3>2. PoolOf(i)' = PoolOf(i) BY <2>1 DEF PoolOf
    <3>3. attempts'[i] \in 0..MaxAttempts
      <4>1. attempts[i] \in 0..MaxAttempts BY <3>1 DEF RowOK
      <4>2. attempts'[i] \in Nat /\ attempts'[i] <= attempts[i] BY <2>a
      <4> QED BY <4>1, <4>2, WebhookAssumption
    <3>4. state'[i] = state[i] \/ (state[i] = "running" /\ state'[i] = "pending") BY <2>1
    <3> QED BY <2>1, <3>1, <3>2, <3>3, <3>4 DEF RowOK
  <2>10. \A i \in queued' : i \in JobIds /\ Held(i)' BY <1>1, <2>1, <2>4
  <2> QED BY <2>3, <2>7, <2>8, <2>9, <2>10, Whole
<1> QED BY <1>2, <1>3

LEMMA StepTypeInv == TypeInv /\ [Next]_vars => TypeInv'
<1> SUFFICES ASSUME TypeInv, [Next]_vars PROVE TypeInv' OBVIOUS
<1>1. CASE Next
  BY <1>1, DeliveryTypes, AcceptTypes, WorkTypes, ReopenTypes, TakeTypes, ProcessTypes DEF Next
<1>2. CASE UNCHANGED vars
  BY <1>2 DEF vars, clocks, ingest, queue, bodies, faults, TypeInv, TypeOK, Shapes, RowShapes, Counts,
              RequestShape, Working, InHand, Held, PoolOf
<1> QED BY <1>1, <1>2

\* Every row, thread, delivery and record has its type throughout: a row has
\* a type exactly once it exists, only a thread of its pool works on it, and
\* no row is tried more than max_attempts times, given-back attempts included.
THEOREM IngestTypes == Spec => []TypeOK
<1>1. TypeInv => TypeOK BY DEF TypeInv
<1> QED BY <1>1, InitTypeInv, StepTypeInv, PTL DEF Spec

---------------------------------------------------------------------------
(* Deliveries of one identity are worked on once.                          *)

IsWebhook(j) == row[j].type = "webhook"

\* Time and the record: a webhook job was sighted at a time that has come, and
\* an identity's record is no older than its newest job, or that job is past
\* the TTL.  This is what lets is_duplicate forget.
Recorded ==
  /\ \A j \in JobIds : IsWebhook(j) =>
       /\ row[j].item \in Items /\ row[j].sighted \in Times /\ row[j].sighted <= now
       /\ IF seen[row[j].item] = Unseen THEN row[j].sighted + TTL < now
                                        ELSE row[j].sighted <= seen[row[j].item]
  /\ \A i \in Items : seen[i] <= now

\* The delivery in hand is past the TTL of every job of its identity.
FarApart ==
  request.step # "idle" =>
    /\ request.sighted <= now
    /\ \A j \in JobIds : IsWebhook(j) /\ row[j].item = request.item
         => row[j].sighted + TTL < request.sighted

Spaced ==
  \A j, k \in JobIds :
    /\ IsWebhook(j) /\ IsWebhook(k) /\ row[j].item = row[k].item /\ j < k
    => row[k].sighted > row[j].sighted + TTL

OnceInv == Recorded /\ FarApart /\ Spaced

LEMMA InitOnceInv == Init => OnceInv
BY WebhookAssumption
DEF Init, OnceInv, Recorded, FarApart, Spaced, IsWebhook, NoJob, Waiting

\* The webhook rows are as they were.
SameWork ==
  \A j \in JobIds : (IsWebhook(j)' <=> IsWebhook(j)) /\ (IsWebhook(j) => row'[j] = row[j])

\* The delivery in hand, if there still is one, is the same.
SameRequest ==
  request'.step # "idle" =>
    request.step # "idle" /\ request'.item = request.item /\ request'.sighted = request.sighted

LEMMA OnceRests ==
  ASSUME TypeInv, OnceInv, SameWork, SameRequest, UNCHANGED seen, now' \in Times, now' >= now
  PROVE  OnceInv'
<1>1. /\ now \in Times /\ seen \in [Items -> Times \cup {Unseen}]
      /\ \A j \in JobIds : row[j].sighted \in Times \cup {Unseen}
      /\ request.sighted \in Times \cup {Unseen} /\ TTL \in Nat
  BY WebhookAssumption DEF TypeInv, TypeOK, Shapes, RowShapes
<1> USE DEF OnceInv, SameWork
<1>2. Recorded' BY <1>1, WebhookAssumption DEF Recorded
<1>3. FarApart' BY <1>1, WebhookAssumption DEF FarApart, SameRequest
<1>4. Spaced' BY <1>1 DEF Spaced
<1> QED BY <1>2, <1>3, <1>4

\* Only an accepted delivery adds work; the rows of retries do not count.
LEMMA WorkRests ==
  ASSUME TypeInv,
         \/ Tick \/ EnqueueFails \/ RollBack \/ RollBackFails \/ Crash \/ Restart
         \/ \E i \in Items : Happens(i) \/ Debounce(i) \/ Sight(i)
         \/ \E j \in JobIds : Work(j) \/ Reopen(j)
         \/ \E j \in JobIds, t \in Threads : Take(j, t)
  PROVE  SameWork
<1> USE DEF clocks, ingest, queue, faults
<1>1. ASSUME UNCHANGED row PROVE SameWork BY <1>1 DEF SameWork, IsWebhook
<1>2. ASSUME NEW j \in JobIds, NEW k \in JobIds, QueueRetry(j, k) PROVE SameWork
  <2> DEFINE r == [row[j] EXCEPT !.type = "poster_rename", !.of = j]
  <2>1. Insert(k, r) BY <1>2 DEF QueueRetry
  <2>2. row[k].type = "none" /\ row' = [row EXCEPT ![k] = r] BY <2>1, Inserted
  <2>3. row \in [JobIds -> Records] BY DEF TypeInv, Shapes, RowShapes, Records
  <2>4. r.type = "poster_rename" BY <2>3 DEF Records
  <2> HIDE DEF r
  <2> QED BY <2>2, <2>3, <2>4 DEF SameWork, IsWebhook
<1>3. ASSUME NEW j \in JobIds, Work(j) PROVE SameWork
  <2>1. ASSUME Succeed(j) \/ SucceedWithRetry(j) \/ Fail(j) \/ CompleteFails(j) PROVE UNCHANGED row
    BY <2>1 DEF Succeed, SucceedWithRetry, Fail, CompleteFails, Complete, Retried, Settle
  <2>2. ASSUME RetryNotQueued(j) \/ Abandon(j) PROVE UNCHANGED row
    BY <2>2 DEF RetryNotQueued, Abandon
  <2> QED BY <1>1, <1>2, <1>3, <2>1, <2>2 DEF Work
<1>4. ASSUME NEW j \in JobIds, Reopen(j) \/ \E t \in Threads : Take(j, t) PROVE UNCHANGED row
  BY <1>4 DEF Take, Reopen
<1>5. ASSUME \/ Tick \/ EnqueueFails \/ RollBack \/ RollBackFails \/ Crash \/ Restart
             \/ \E i \in Items : Happens(i) \/ Debounce(i) \/ Sight(i)
      PROVE  UNCHANGED row
  BY <1>5 DEF Tick, EnqueueFails, RollBack, RollBackFails, Crash, Restart, Happens, Debounce, Sight
<1> QED BY <1>1, <1>3, <1>4, <1>5

\* These leave the record, and the delivery in hand, alone.
LEMMA RecordRests ==
  ASSUME TypeInv,
         \/ Tick \/ EnqueueFails \/ RollBackFails \/ Crash \/ Restart
         \/ \E i \in Items : Happens(i)
         \/ \E j \in JobIds : Work(j) \/ Reopen(j)
         \/ \E j \in JobIds, t \in Threads : Take(j, t)
  PROVE  UNCHANGED seen /\ SameRequest
<1> USE DEF clocks, ingest, queue, faults
<1>1. RequestShape BY Parts
<1>2. ASSUME UNCHANGED request \/ request' = Waiting PROVE SameRequest
  BY <1>2 DEF SameRequest, Waiting
<1>3. ASSUME EnqueueFails PROVE UNCHANGED seen /\ SameRequest
  BY <1>1, <1>3 DEF EnqueueFails, SameRequest, RequestShape
<1>4. ASSUME Tick \/ RollBackFails \/ Crash \/ Restart \/ \E i \in Items : Happens(i)
      PROVE  UNCHANGED seen /\ (UNCHANGED request \/ request' = Waiting)
  BY <1>4 DEF Tick, RollBackFails, Crash, Restart, Happens
<1>5. ASSUME NEW j \in JobIds, Work(j) \/ Reopen(j) PROVE UNCHANGED <<seen, request>>
  BY <1>5 DEF Work, Succeed, SucceedWithRetry, Fail, CompleteFails, Complete, Retried, Settle,
              Abandon, RetryNotQueued, QueueRetry, Reopen
<1>6. ASSUME NEW j \in JobIds, NEW t \in Threads, Take(j, t) PROVE UNCHANGED <<seen, request>>
  BY <1>6 DEF Take
<1> QED BY <1>2, <1>3, <1>4, <1>5, <1>6

LEMMA OnlyTickTells ==
  ASSUME TypeInv, Next
  PROVE  now' \in Times /\ (now' = now \/ now' = now + 1)
<1>1. now \in Times BY Parts DEF Scalars
<1>2. CASE Tick BY <1>1, <1>2, WebhookAssumption DEF Tick
<1>3. ASSUME NEW j \in JobIds, Work(j) \/ Reopen(j) PROVE UNCHANGED now
  BY <1>3 DEF Work, Succeed, SucceedWithRetry, Fail, CompleteFails, Complete, Retried, Settle,
              Abandon, RetryNotQueued, QueueRetry, Reopen, clocks
<1>4. CASE ~Tick
  <2>1. UNCHANGED now
    BY <1>3, <1>4 DEF Next, EnqueueFails, RollBack, RollBackFails, Crash, Restart, Happens, Debounce,
                      Sight, Accept, Take, clocks
  <2> QED BY <1>1, <2>1
<1> QED BY <1>2, <1>4

LEMMA AcceptOnce ==
  ASSUME TypeInv, OnceInv, NEW j \in JobIds, Accept(j) PROVE OnceInv'
<1> DEFINE r == [type |-> "webhook", item |-> request.item, of |-> j, sighted |-> request.sighted]
<1>1. /\ Insert(j, r) /\ request' = Waiting /\ UNCHANGED <<now, seen>> /\ request.step # "idle"
  BY DEF Accept, clocks
<1>2. /\ row' = [row EXCEPT ![j] = r] /\ row[j].type = "none"
      /\ \A k \in JobIds : k < j <=> state[k] # "absent"
  BY <1>1, Inserted
<1>3. /\ now \in Times /\ TTL \in Nat /\ row \in [JobIds -> Records]
      /\ request.item \in Items /\ request.sighted \in Times /\ seen[request.item] = request.sighted
      /\ \A k \in JobIds : row[k].type = "none" <=> state[k] = "absent"
  BY <1>1, WebhookAssumption DEF TypeInv, TypeOK, Shapes, RowShapes, Records, InHand
<1>4. row'[j] = r /\ \A k \in JobIds \ {j} : row'[k] = row[k] BY <1>2, <1>3
<1>5. /\ r.type = "webhook" /\ r.item = request.item /\ r.sighted = request.sighted OBVIOUS
<1> HIDE DEF r
<1>6. \A k \in JobIds : k < j => row[k].type # "none" BY <1>2, <1>3
<1>7. \A k \in JobIds : k > j => ~IsWebhook(k)
  <2> SUFFICES ASSUME NEW k \in JobIds, k > j PROVE row[k].type = "none" BY DEF IsWebhook
  <2>1. ~(k < j) BY WebhookAssumption
  <2> QED BY <1>2, <1>3, <2>1
<1>8. \A k \in JobIds : row[k].sighted \in Times \cup {Unseen} BY <1>3 DEF Records
<1> USE DEF OnceInv, IsWebhook
<1>9. Recorded' BY <1>1, <1>3, <1>4, <1>5, <1>8 DEF Recorded, FarApart
<1>10. FarApart' BY <1>1 DEF FarApart, Waiting
<1>11. ASSUME NEW h \in JobIds, NEW k \in JobIds, IsWebhook(h)', IsWebhook(k)',
              row'[h].item = row'[k].item, h < k
       PROVE  row'[k].sighted > row'[h].sighted + TTL
  <2>1. CASE h # j /\ k # j BY <1>4, <1>11, <2>1 DEF Spaced
  <2>2. CASE h = j
    <3>1. k > j /\ k # j BY <1>11, <2>2, WebhookAssumption
    <3> QED BY <1>4, <1>7, <1>11, <3>1
  <2>3. CASE k = j
    <3>1. h # j BY <1>11, <2>3, WebhookAssumption
    <3> QED BY <1>1, <1>3, <1>4, <1>5, <1>8, <1>11, <2>3, <3>1 DEF FarApart
  <2> QED BY <2>1, <2>2, <2>3
<1>12. Spaced' BY <1>11 DEF Spaced
<1> QED BY <1>9, <1>10, <1>12

\* is_duplicate and the rollback: what the sweep or the deletion forgets is
\* past the TTL.
LEMMA RecordOnce ==
  ASSUME TypeInv, OnceInv, RollBack \/ \E i \in Items : Debounce(i) \/ Sight(i)
  PROVE  OnceInv'
<1> USE DEF OnceInv
<1>1. /\ now \in Times /\ TTL \in Nat /\ seen \in [Items -> Times \cup {Unseen}]
      /\ row \in [JobIds -> Records] /\ RequestShape
  BY WebhookAssumption DEF TypeInv, TypeOK, Shapes, RowShapes, Records
<1>2. \A k \in JobIds : row[k].sighted \in Times \cup {Unseen} BY <1>1 DEF Records
<1>3. UNCHANGED <<row, now>> BY DEF RollBack, Debounce, Sight, queue, clocks
<1>4. Spaced' BY <1>3 DEF Spaced, IsWebhook
<1>5. CASE RollBack
  <2>1. /\ request.step # "idle" /\ request' = Waiting
        /\ seen' = [seen EXCEPT ![request.item] = Unseen]
    BY <1>5 DEF RollBack
  <2>2. request.item \in Items /\ request.sighted \in Times BY <2>1 DEF TypeInv, InHand
  <2>3. Recorded'
    <3>1. \A i \in Items : seen'[i] <= now' BY <1>1, <1>3, <2>1, <2>2 DEF Recorded
    <3>2. ASSUME NEW j \in JobIds, IsWebhook(j)
          PROVE  /\ row[j].item \in Items /\ row[j].sighted \in Times /\ row[j].sighted <= now
                 /\ IF seen'[row[j].item] = Unseen THEN row[j].sighted + TTL < now
                                                   ELSE row[j].sighted <= seen'[row[j].item]
      <4>1. CASE row[j].item = request.item
        BY <1>1, <1>2, <2>1, <2>2, <3>2, <4>1 DEF Recorded, FarApart
      <4>2. CASE row[j].item # request.item
        BY <1>1, <1>2, <2>1, <2>2, <3>2, <4>2 DEF Recorded
      <4> QED BY <4>1, <4>2
    <3> QED BY <1>3, <3>1, <3>2 DEF Recorded, IsWebhook
  <2>4. FarApart' BY <2>1 DEF FarApart, Waiting
  <2> QED BY <1>4, <2>3, <2>4
<1>6. \A i \in Items : Swept[i] \in {Unseen, seen[i]} BY DEF Swept
<1>7. ASSUME NEW i \in Items, Swept[i] = Unseen, NEW j \in JobIds, IsWebhook(j), row[j].item = i
      PROVE  row[j].sighted + TTL < now
  BY <1>1, <1>2, <1>7 DEF Swept, Expired, Recorded
<1>8. ASSUME NEW i \in Items, Debounce(i) PROVE OnceInv'
  <2>1. request = Waiting /\ request' = request /\ seen' = Swept
    BY <1>8 DEF Debounce
  <2>2. \A h \in Items : seen'[h] <= now' BY <1>1, <1>3, <1>6, <2>1 DEF Recorded
  <2>3. ASSUME NEW j \in JobIds, IsWebhook(j)
        PROVE  /\ row[j].item \in Items /\ row[j].sighted \in Times /\ row[j].sighted <= now
               /\ IF seen'[row[j].item] = Unseen THEN row[j].sighted + TTL < now
                                                 ELSE row[j].sighted <= seen'[row[j].item]
    BY <1>1, <1>6, <1>7, <2>1, <2>3 DEF Recorded
  <2>4. Recorded' BY <1>3, <2>2, <2>3 DEF Recorded, IsWebhook
  <2>5. FarApart' BY <2>1 DEF FarApart, Waiting
  <2> QED BY <1>4, <2>4, <2>5
<1>9. ASSUME NEW i \in Items, Sight(i) PROVE OnceInv'
  <2>1. /\ Swept[i] = Unseen /\ seen' = [Swept EXCEPT ![i] = now]
        /\ request' = [step |-> "sighted", item |-> i, sighted |-> now]
    BY <1>9 DEF Sight
  <2>2. /\ seen'[i] = now /\ \A h \in Items \ {i} : seen'[h] = Swept[h]
    BY <2>1 DEF Swept
  <2>3. \A h \in Items : seen'[h] <= now' BY <1>1, <1>3, <1>6, <2>2 DEF Recorded
  <2>4. ASSUME NEW j \in JobIds, IsWebhook(j)
        PROVE  /\ row[j].item \in Items /\ row[j].sighted \in Times /\ row[j].sighted <= now
               /\ IF seen'[row[j].item] = Unseen THEN row[j].sighted + TTL < now
                                                 ELSE row[j].sighted <= seen'[row[j].item]
    <3>1. row[j].item \in Items /\ row[j].sighted \in Times /\ row[j].sighted <= now
      BY <2>4 DEF Recorded
    <3>2. CASE row[j].item = i BY <1>1, <2>2, <3>1, <3>2
    <3>3. CASE row[j].item # i BY <1>1, <1>6, <1>7, <2>2, <2>4, <3>1, <3>3 DEF Recorded
    <3> QED BY <3>1, <3>2, <3>3
  <2>5. Recorded' BY <1>3, <2>3, <2>4 DEF Recorded, IsWebhook
  <2>6. FarApart' BY <1>1, <1>3, <1>7, <2>1 DEF FarApart, IsWebhook
  <2> QED BY <1>4, <2>5, <2>6
<1> QED BY <1>5, <1>8, <1>9

LEMMA StepOnceInv == TypeInv /\ OnceInv /\ [Next]_vars => OnceInv'
<1> SUFFICES ASSUME TypeInv, OnceInv, [Next]_vars PROVE OnceInv' OBVIOUS
<1>1. now \in Times BY Parts DEF Scalars
<1>2. CASE \/ Tick \/ EnqueueFails \/ RollBackFails \/ Crash \/ Restart
           \/ \E i \in Items : Happens(i)
           \/ \E j \in JobIds : Work(j) \/ Reopen(j)
           \/ \E j \in JobIds, t \in Threads : Take(j, t)
  <2>1. SameWork BY <1>2, WorkRests
  <2>2. UNCHANGED seen /\ SameRequest BY <1>2, RecordRests
  <2>3. Next BY <1>2 DEF Next
  <2>4. now' \in Times /\ now' >= now BY <1>1, <2>3, OnlyTickTells, WebhookAssumption
  <2> QED BY <2>1, <2>2, <2>4, OnceRests
<1>3. CASE UNCHANGED vars
  BY <1>3 DEF vars, clocks, ingest, queue, OnceInv, Recorded, FarApart, Spaced, IsWebhook
<1> QED BY <1>2, <1>3, AcceptOnce, RecordOnce DEF Next

---------------------------------------------------------------------------
(* A webhook job leaves one retry of its upload behind.                    *)

\* A body of the row has asked for its retry, and the row knows of it.
Own(j) == IF j \in queued \/ result[j] = "retry queued" THEN 1 ELSE 0

\* How many upload retries a job has left behind: one for each time that it was
\* run again after a body had asked, and the one its row knows of.
Bounded == \A j \in JobIds : Cardinality(Retries(j)) <= repeats[j] + Own(j)

\* Only a job that is over says that its retry is queued.
Told == \A j \in JobIds : result[j] = "retry queued" => state[j] = "success"

RetryInv == Bounded /\ Told

LEMMA RetriesFinite ==
  \A j \in JobIds : IsFiniteSet(Retries(j)) /\ Cardinality(Retries(j)) \in Nat
<1> SUFFICES ASSUME NEW j \in JobIds PROVE IsFiniteSet(Retries(j)) /\ Cardinality(Retries(j)) \in Nat
  OBVIOUS
<1>1. IsFiniteSet(JobIds) BY FS_Interval, WebhookAssumption
<1>2. Retries(j) \subseteq JobIds BY DEF Retries
<1> QED BY <1>1, <1>2, FS_Subset, FS_CardinalityType

LEMMA InitRetryInv == Init => RetryInv
<1> SUFFICES ASSUME Init PROVE RetryInv OBVIOUS
<1>1. \A j \in JobIds : Retries(j) = {} BY DEF Init, NoJob, Retries
<1>2. \A j \in JobIds : repeats[j] = 0 /\ Own(j) = 0 BY DEF Init, Own
<1>3. \A j \in JobIds : Cardinality(Retries(j)) = 0 BY <1>1, FS_EmptySet
<1>4. Told BY DEF Init, Told
<1> QED BY <1>2, <1>3, <1>4 DEF RetryInv, Bounded

\* What a row knows of is not forgotten without being counted.
Counted(j) == repeats[j] + Own(j) <= repeats'[j] + Own(j)'

LEMMA KeepsCount ==
  ASSUME NEW j \in JobIds, repeats[j] \in Nat,
         \/ repeats'[j] = repeats[j] /\ (Own(j)' = Own(j) \/ Own(j) = 0 \/ Own(j)' = 1)
         \/ repeats'[j] = repeats[j] + 1
  PROVE  Counted(j)
<1>1. Own(j) \in {0, 1} /\ Own(j)' \in {0, 1} BY DEF Own
<1> QED BY <1>1 DEF Counted

LEMMA RetriesRest ==
  ASSUME TypeInv, TypeInv', RetryInv,
         \A j \in JobIds : Retries(j)' = Retries(j),
         \A j \in JobIds : Counted(j)
  PROVE  Bounded'
<1> SUFFICES ASSUME NEW j \in JobIds PROVE Cardinality(Retries(j)') <= repeats'[j] + Own(j)'
  BY DEF Bounded
<1>1. Cardinality(Retries(j)) <= repeats[j] + Own(j) /\ Cardinality(Retries(j)) \in Nat
  BY RetriesFinite DEF RetryInv, Bounded
<1>2. repeats[j] \in Nat /\ repeats'[j] \in Nat BY DEF TypeInv, Shapes, RowShapes
<1>3. Own(j) \in {0, 1} /\ Own(j)' \in {0, 1} BY DEF Own
<1> QED BY <1>1, <1>2, <1>3 DEF Counted

LEMMA QueueRetryRetries ==
  ASSUME TypeInv, RetryInv, NEW j \in JobIds, NEW k \in JobIds, QueueRetry(j, k) PROVE RetryInv'
<1> DEFINE r == [row[j] EXCEPT !.type = "poster_rename", !.of = j]
<1>1. /\ Held(j) /\ j \notin queued /\ Insert(k, r) /\ queued' = queued \cup {j}
      /\ UNCHANGED <<result, repeats>>
  BY DEF QueueRetry
<1>2. /\ row[k].type = "none" /\ row' = [row EXCEPT ![k] = r]
      /\ state[k] = "absent" /\ state' = [state EXCEPT ![k] = "pending"]
  BY <1>1, Inserted
<1>3. /\ row \in [JobIds -> Records] /\ repeats \in [JobIds -> Nat] /\ state[j] = "running"
      /\ state \in [JobIds -> {"absent", "pending", "running", "success", "error"}]
  BY <1>1 DEF TypeInv, Shapes, RowShapes, Records, Working
<1>4. r.type = "poster_rename" /\ r.of = j BY <1>3 DEF Records
<1> HIDE DEF r
<1>5. Retries(j)' = Retries(j) \cup {k} BY <1>2, <1>3, <1>4 DEF Retries
<1>6. \A i \in JobIds \ {j} : Retries(i)' = Retries(i) BY <1>2, <1>3, <1>4 DEF Retries
<1>7. Told' BY <1>1, <1>2, <1>3 DEF RetryInv, Told
<1>8. ASSUME NEW i \in JobIds PROVE Cardinality(Retries(i)') <= repeats'[i] + Own(i)'
  <2>a. IsFiniteSet(Retries(i)) BY RetriesFinite
  <2>1. /\ Cardinality(Retries(i)) <= repeats[i] + Own(i) /\ Cardinality(Retries(i)) \in Nat
        /\ repeats[i] \in Nat
    BY <1>3, RetriesFinite DEF RetryInv, Bounded
  <2>2. CASE i = j
    <3>1. Own(j) = 0 /\ Own(j)' = 1
      <4>1. result[j] # "retry queued" BY <1>3 DEF RetryInv, Told
      <4> QED BY <1>1, <4>1 DEF Own
    <3>2. Cardinality(Retries(j)') <= Cardinality(Retries(j)) + 1
      BY <1>5, <2>a, <2>2, FS_AddElement, FS_CardinalityType
    <3>3. Cardinality(Retries(j)') \in Nat
      BY <1>5, <2>a, <2>2, FS_AddElement, FS_CardinalityType
    <3> QED BY <1>1, <2>1, <2>2, <3>1, <3>2, <3>3
  <2>3. CASE i # j
    <3>1. Own(i)' = Own(i) BY <1>1, <2>3 DEF Own
    <3> QED BY <1>1, <1>6, <2>1, <2>3, <3>1
  <2> QED BY <2>2, <2>3
<1> QED BY <1>7, <1>8 DEF RetryInv, Bounded

\* No other step adds a retry.
LEMMA RetriesSame ==
  ASSUME TypeInv, UNCHANGED row \/ \E j \in JobIds : Accept(j)
  PROVE  \A j \in JobIds : Retries(j)' = Retries(j)
<1>1. CASE UNCHANGED row BY <1>1 DEF Retries
<1>2. ASSUME NEW k \in JobIds, Accept(k) PROVE \A j \in JobIds : Retries(j)' = Retries(j)
  <2> DEFINE r == [type |-> "webhook", item |-> request.item, of |-> k, sighted |-> request.sighted]
  <2>1. Insert(k, r) BY <1>2 DEF Accept
  <2>2. row[k].type = "none" /\ row' = [row EXCEPT ![k] = r] BY <2>1, Inserted
  <2>3. r.type = "webhook" OBVIOUS
  <2>4. row \in [JobIds -> Records] BY DEF TypeInv, Shapes, RowShapes, Records
  <2> HIDE DEF r
  <2> QED BY <2>2, <2>3, <2>4 DEF Retries
<1> QED BY <1>1, <1>2

\* A body's end: what it asked for is in its result, or was not asked for, or is counted.
LEMMA SettleRetries ==
  ASSUME TypeInv, TypeInv', RetryInv, NEW j \in JobIds, NEW to, NEW said, Settle(j, to, said),
         said = "retry queued" => to = "success",
         \/ (j \in queued => said = "retry queued") /\ UNCHANGED repeats
         \/ repeats' = Forgotten({j})
  PROVE  RetryInv'
<1>1. /\ state[j] = "running" /\ state' = [state EXCEPT ![j] = to]
      /\ queued' = queued \ {j} /\ result' = [result EXCEPT ![j] = said] /\ UNCHANGED row
  BY Settled
<1>2. /\ state \in [JobIds -> {"absent", "pending", "running", "success", "error"}]
      /\ result \in [JobIds -> {"none", "done", "retry queued"}] /\ repeats \in [JobIds -> Nat]
  BY DEF TypeInv, Shapes, RowShapes
<1>3. Told' BY <1>1, <1>2 DEF RetryInv, Told
<1>4. result[j] # "retry queued" BY <1>1 DEF RetryInv, Told
<1>5. ASSUME NEW i \in JobIds PROVE Counted(i)
  <2>1. CASE i = j
    <3>1. CASE (j \in queued => said = "retry queued") /\ UNCHANGED repeats
      <4>1. Own(j) = 0 \/ Own(j)' = 1 BY <1>1, <1>2, <1>4, <3>1 DEF Own
      <4> QED BY <1>2, <2>1, <3>1, <4>1, KeepsCount
    <3>2. CASE repeats' = Forgotten({j})
      <4>1. CASE j \in queued
        <5>1. repeats'[j] = repeats[j] + 1 BY <3>2, <4>1 DEF Forgotten
        <5> QED BY <1>2, <2>1, <5>1, KeepsCount
      <4>2. CASE j \notin queued
        <5>1. repeats'[j] = repeats[j] /\ Own(j) = 0 BY <1>4, <3>2, <4>2 DEF Forgotten, Own
        <5> QED BY <1>2, <2>1, <5>1, KeepsCount
      <4> QED BY <4>1, <4>2
    <3> QED BY <3>1, <3>2
  <2>2. CASE i # j
    <3>1. repeats'[i] = repeats[i] BY <2>2 DEF Forgotten
    <3>2. Own(i)' = Own(i) BY <1>1, <1>2, <2>2 DEF Own
    <3> QED BY <1>2, <3>1, <3>2, KeepsCount
  <2> QED BY <2>1, <2>2
<1> QED BY <1>1, <1>3, <1>5, RetriesSame, RetriesRest DEF RetryInv

LEMMA StepRetryInv == TypeInv /\ TypeInv' /\ RetryInv /\ [Next]_vars => RetryInv'
<1> SUFFICES ASSUME TypeInv, TypeInv', RetryInv, [Next]_vars PROVE RetryInv' OBVIOUS
<1>1. /\ state \in [JobIds -> {"absent", "pending", "running", "success", "error"}]
      /\ result \in [JobIds -> {"none", "done", "retry queued"}] /\ repeats \in [JobIds -> Nat]
      /\ \A j \in queued : j \in JobIds /\ Held(j)
  BY Parts DEF RowShapes
<1> USE DEF clocks, ingest, queue, bodies, faults
\* Neither a row's end nor what it knows of changes.
<1>2. ASSUME UNCHANGED <<queued, result, repeats>>, UNCHANGED row \/ \E j \in JobIds : Accept(j),
             \A j \in JobIds : state[j] = "success" => state'[j] = "success"
      PROVE  RetryInv'
  <2>1. ASSUME NEW j \in JobIds PROVE Counted(j)
    <3>1. repeats'[j] = repeats[j] /\ Own(j)' = Own(j) BY <1>2 DEF Own
    <3> QED BY <1>1, <3>1, KeepsCount
  <2>2. Told' BY <1>2 DEF RetryInv, Told
  <2> QED BY <1>2, <2>1, <2>2, RetriesSame, RetriesRest DEF RetryInv
<1>3. CASE UNCHANGED vars BY <1>2, <1>3 DEF vars
<1>4. CASE \/ Tick \/ EnqueueFails \/ RollBack \/ RollBackFails
           \/ \E i \in Items : Happens(i) \/ Debounce(i) \/ Sight(i)
  BY <1>2, <1>4 DEF Tick, EnqueueFails, RollBack, RollBackFails, Happens, Debounce, Sight
<1>5. CASE Crash
  <2>1. UNCHANGED <<row, state, result>> /\ queued' = {} /\ repeats' = Forgotten(JobIds)
    BY <1>5 DEF Crash, Queue!Crash
  <2>2. ASSUME NEW j \in JobIds PROVE Counted(j)
    <3>1. CASE j \in queued
      <4>1. repeats'[j] = repeats[j] + 1 BY <2>1, <3>1 DEF Forgotten
      <4> QED BY <1>1, <4>1, KeepsCount
    <3>2. CASE j \notin queued
      <4>1. repeats'[j] = repeats[j] /\ Own(j)' = Own(j) BY <2>1, <3>2 DEF Forgotten, Own
      <4> QED BY <1>1, <4>1, KeepsCount
    <3> QED BY <3>1, <3>2
  <2>3. Told' BY <2>1 DEF RetryInv, Told
  <2> QED BY <2>1, <2>2, <2>3, RetriesSame, RetriesRest DEF RetryInv
<1>6. CASE Restart
  <2>1. /\ UNCHANGED <<row, queued, result, repeats>>
        /\ \A j \in JobIds : state[j] = "success" => state'[j] = "success"
    BY <1>6 DEF Restart, Queue!Recover
  <2> QED BY <1>2, <2>1
<1>7. ASSUME NEW j \in JobIds, Accept(j) PROVE RetryInv'
  <2> DEFINE r == [type |-> "webhook", item |-> request.item, of |-> j, sighted |-> request.sighted]
  <2>1. Insert(j, r) /\ UNCHANGED <<queued, result, repeats>> BY <1>7 DEF Accept
  <2>2. state[j] = "absent" /\ state' = [state EXCEPT ![j] = "pending"] BY <2>1, Inserted
  <2>3. \A i \in JobIds : state[i] = "success" => state'[i] = "success" BY <1>1, <2>2
  <2> QED BY <1>2, <1>7, <2>1, <2>3
<1>8. ASSUME NEW j \in JobIds, NEW t \in Threads, Take(j, t) PROVE RetryInv'
  <2>1. /\ UNCHANGED <<row, queued, result, repeats>> /\ state[j] = "pending"
        /\ state' = [state EXCEPT ![j] = "running"]
    BY <1>8 DEF Take, Queue!Take, Queue!Move
  <2>2. \A i \in JobIds : state[i] = "success" => state'[i] = "success" BY <1>1, <2>1
  <2> QED BY <1>2, <2>1, <2>2
<1>9. ASSUME NEW j \in JobIds, Work(j) PROVE RetryInv'
  <2>1. CASE Succeed(j) BY <2>1, SettleRetries DEF Succeed, Complete
  <2>2. CASE SucceedWithRetry(j) BY <2>2, SettleRetries DEF SucceedWithRetry, Complete
  <2>3. CASE Fail(j) BY <2>3, SettleRetries DEF Fail, Retried
  <2>4. ASSUME NEW k \in JobIds, QueueRetry(j, k) PROVE RetryInv' BY <2>4, QueueRetryRetries
  <2>5. CASE RetryNotQueued(j)
    <3>1. UNCHANGED <<row, state, result, repeats>> /\ queued' = queued \cup {j}
      BY <2>5 DEF RetryNotQueued
    <3>2. ASSUME NEW i \in JobIds PROVE Counted(i)
      <4>1. repeats'[i] = repeats[i] /\ (Own(i)' = Own(i) \/ Own(i)' = 1) BY <3>1 DEF Own
      <4> QED BY <1>1, <4>1, KeepsCount
    <3>3. Told' BY <3>1 DEF RetryInv, Told
    <3> QED BY <3>1, <3>2, <3>3, RetriesSame, RetriesRest DEF RetryInv
  <2>6. CASE CompleteFails(j) BY <2>6, SettleRetries DEF CompleteFails, Retried
  <2>7. CASE Abandon(j)
    <3>1. /\ UNCHANGED <<row, state, result>>
          /\ queued' = queued \ {j} /\ repeats' = Forgotten({j})
      BY <2>7 DEF Abandon, Queue!Abandon
    <3>2. ASSUME NEW i \in JobIds PROVE Counted(i)
      <4>1. CASE i = j /\ j \in queued
        <5>1. repeats'[j] = repeats[j] + 1 BY <3>1, <4>1 DEF Forgotten
        <5> QED BY <1>1, <4>1, <5>1, KeepsCount
      <4>2. CASE i # j \/ j \notin queued
        <5>1. repeats'[i] = repeats[i] /\ Own(i)' = Own(i) BY <3>1, <4>2 DEF Forgotten, Own
        <5> QED BY <1>1, <5>1, KeepsCount
      <4> QED BY <4>1, <4>2
    <3>3. Told' BY <3>1 DEF RetryInv, Told
    <3> QED BY <3>1, <3>2, <3>3, RetriesSame, RetriesRest DEF RetryInv
  <2> QED BY <1>9, <2>1, <2>2, <2>3, <2>4, <2>5, <2>6, <2>7 DEF Work
<1>10. ASSUME NEW j \in JobIds, Reopen(j) PROVE RetryInv'
  <2>1. /\ UNCHANGED <<row, queued>> /\ state[j] \in {"success", "error"} /\ holder[j] = NoThread
        /\ state' = [state EXCEPT ![j] = "pending"] /\ result' = [result EXCEPT ![j] = "none"]
        /\ repeats' = IF result[j] = "retry queued" THEN [repeats EXCEPT ![j] = @ + 1] ELSE repeats
    BY <1>10 DEF Reopen, Queue!Reopen, Queue!Move, Queue!Free
  <2>2. j \notin queued BY <1>1, <2>1 DEF Held
  <2>3. ASSUME NEW i \in JobIds PROVE Counted(i)
    <3>1. CASE i = j /\ result[j] = "retry queued"
      <4>1. repeats'[j] = repeats[j] + 1 BY <1>1, <2>1, <3>1
      <4> QED BY <1>1, <3>1, <4>1, KeepsCount
    <3>2. CASE i # j \/ result[j] # "retry queued"
      <4>1. repeats'[i] = repeats[i] BY <1>1, <2>1, <3>2
      <4>2. Own(i)' = Own(i) BY <1>1, <2>1, <2>2, <3>2 DEF Own
      <4> QED BY <1>1, <4>1, <4>2, KeepsCount
    <3> QED BY <3>1, <3>2
  <2>4. Told' BY <1>1, <2>1 DEF RetryInv, Told
  <2> QED BY <2>1, <2>3, <2>4, RetriesSame, RetriesRest DEF RetryInv
<1> QED BY <1>3, <1>4, <1>5, <1>6, <1>7, <1>8, <1>9, <1>10 DEF Next

\* A delivery's work is done once by its webhook job and once more, at most, by
\* the retry of its upload: deliveries of one identity that are worked on are
\* further apart than the TTL, and a job leaves one retry behind, plus one for
\* each time that it was run again after a body of its had asked for the retry:
\* a crash, an end that could not be written, or a user started it again.
THEOREM IngestWorksOnce == Spec => []WorkedOnce
<1>1. OnceInv => NoDuplicateWork BY DEF OnceInv, Spaced, NoDuplicateWork, Webhooks, IsWebhook
<1>2. TypeInv /\ RetryInv => OneUploadRetry
  <2> SUFFICES ASSUME TypeInv, RetryInv, NEW j \in JobIds
               PROVE  Cardinality(Retries(j)) <= 1 + repeats[j]
    BY DEF OneUploadRetry
  <2>1. repeats[j] \in Nat /\ Cardinality(Retries(j)) \in Nat BY Parts, RetriesFinite DEF RowShapes
  <2>2. Cardinality(Retries(j)) <= repeats[j] + Own(j) /\ Own(j) \in {0, 1}
    BY DEF RetryInv, Bounded, Own
  <2> QED BY <2>1, <2>2
<1>3. TypeInv /\ OnceInv /\ RetryInv => WorkedOnce BY <1>1, <1>2 DEF WorkedOnce
<1>4. Init => TypeInv /\ OnceInv /\ RetryInv BY InitTypeInv, InitOnceInv, InitRetryInv
<1>5. TypeInv /\ OnceInv /\ RetryInv /\ [Next]_vars => (TypeInv /\ OnceInv /\ RetryInv)'
  BY StepTypeInv, StepOnceInv, StepRetryInv
<1> QED BY <1>3, <1>4, <1>5, PTL DEF Spec

---------------------------------------------------------------------------
(* What is on record was accepted, but for two faults.                     *)

InHandFor(i) == request.step # "idle" /\ request.item = i

\* An identity on record was accepted, or is the delivery in hand.
Backed == \A i \in Items \ lost : seen[i] # Unseen => Accepted(i) \/ InHandFor(i)

LEMMA InitBacked == Init => Backed
BY DEF Init, Backed

LEMMA AcceptedStays ==
  ASSUME SameWork, NEW i \in Items, UNCHANGED seen[i], Accepted(i) PROVE Accepted(i)'
BY DEF Accepted, Webhooks, SameWork, IsWebhook

LEMMA BackedRests ==
  ASSUME Backed, SameWork, UNCHANGED <<seen, request, lost>> PROVE Backed'
<1> SUFFICES ASSUME NEW i \in Items \ lost, seen[i] # Unseen PROVE Accepted(i)' \/ InHandFor(i)
  BY DEF Backed, InHandFor
<1>1. Accepted(i) \/ InHandFor(i) BY DEF Backed
<1> QED BY <1>1, AcceptedStays

LEMMA StepBacked == TypeInv /\ Backed /\ [Next]_vars => Backed'
<1> SUFFICES ASSUME TypeInv, Backed, [Next]_vars PROVE Backed' OBVIOUS
<1> USE DEF clocks, ingest, queue, bodies, faults
<1>1. RequestShape /\ InHand /\ seen \in [Items -> Times \cup {Unseen}] /\ now \in Times
  BY Parts DEF Scalars
<1>2. CASE Tick \/ Restart \/ \E i \in Items : Happens(i)
  <2>1. SameWork BY <1>2, WorkRests
  <2>2. UNCHANGED <<seen, request, lost>> BY <1>2 DEF Tick, Restart, Happens
  <2> QED BY <2>1, <2>2, BackedRests
<1>3. ASSUME NEW j \in JobIds, Work(j) \/ Reopen(j) PROVE Backed'
  <2>1. SameWork BY <1>3, WorkRests
  <2>2. UNCHANGED <<seen, request, lost>>
    BY <1>3 DEF Work, Succeed, SucceedWithRetry, Fail, CompleteFails, Complete, Retried, Settle,
                Abandon, RetryNotQueued, QueueRetry, Reopen
  <2> QED BY <2>1, <2>2, BackedRests
<1>4. ASSUME NEW j \in JobIds, NEW t \in Threads, Take(j, t) PROVE Backed'
  <2>1. SameWork BY <1>4, WorkRests
  <2>2. UNCHANGED <<seen, request, lost>> BY <1>4 DEF Take
  <2> QED BY <2>1, <2>2, BackedRests
<1>5. CASE EnqueueFails
  <2>1. SameWork BY <1>5, WorkRests
  <2>2. /\ UNCHANGED <<seen, lost>> /\ request.step = "sighted"
        /\ request'.step = "rolling_back" /\ request'.item = request.item
    BY <1>1, <1>5 DEF EnqueueFails, RequestShape
  <2> SUFFICES ASSUME NEW i \in Items \ lost, seen[i] # Unseen
               PROVE  Accepted(i)' \/ request.item = i
    BY <2>2 DEF Backed, InHandFor
  <2>3. Accepted(i) \/ request.item = i BY DEF Backed, InHandFor
  <2> QED BY <2>1, <2>2, <2>3, AcceptedStays
<1>6. CASE RollBack
  <2>1. SameWork BY <1>6, WorkRests
  <2>2. UNCHANGED lost /\ seen' = [seen EXCEPT ![request.item] = Unseen]
    BY <1>6 DEF RollBack
  <2> SUFFICES ASSUME NEW i \in Items \ lost, seen'[i] # Unseen PROVE Accepted(i)'
    BY <2>2 DEF Backed
  <2>3. i # request.item /\ UNCHANGED seen[i] BY <1>1, <2>2
  <2> QED BY <2>1, <2>3, AcceptedStays DEF Backed, InHandFor
<1>7. CASE RollBackFails \/ Crash
  <2>1. SameWork BY <1>7, WorkRests
  <2>2. UNCHANGED seen /\ \A i \in Items \ lost' : i \notin lost /\ ~InHandFor(i)
    BY <1>1, <1>7 DEF RollBackFails, Crash, InHand, InHandFor, Waiting
  <2> SUFFICES ASSUME NEW i \in Items \ lost', seen[i] # Unseen PROVE Accepted(i)'
    BY <2>2 DEF Backed
  <2> QED BY <2>1, <2>2, AcceptedStays DEF Backed
<1>8. ASSUME NEW i \in Items, Debounce(i) PROVE Backed'
  <2>1. SameWork BY <1>8, WorkRests
  <2>2. UNCHANGED <<request, lost>> /\ seen' = Swept BY <1>8 DEF Debounce
  <2> SUFFICES ASSUME NEW h \in Items \ lost, seen'[h] # Unseen
               PROVE  Accepted(h)' \/ InHandFor(h)
    BY <2>2 DEF Backed, InHandFor
  <2>3. UNCHANGED seen[h] BY <2>2 DEF Swept
  <2> QED BY <2>1, <2>3, AcceptedStays DEF Backed
<1>9. ASSUME NEW i \in Items, Sight(i) PROVE Backed'
  <2>1. SameWork BY <1>9, WorkRests
  <2>2. /\ lost' = lost \ {i} /\ request.step = "idle"
        /\ request'.step = "sighted" /\ request'.item = i
        /\ \A h \in Items \ {i} : seen'[h] = Swept[h]
    BY <1>9 DEF Sight, Waiting, Swept
  <2> SUFFICES ASSUME NEW h \in Items \ {i}, h \notin lost, seen'[h] # Unseen
               PROVE  Accepted(h)'
    BY <2>2 DEF Backed, InHandFor
  <2>3. UNCHANGED seen[h] BY <2>2 DEF Swept
  <2> QED BY <2>1, <2>2, <2>3, AcceptedStays DEF Backed, InHandFor
<1>10. ASSUME NEW j \in JobIds, Accept(j) PROVE Backed'
  <2> DEFINE r == [type |-> "webhook", item |-> request.item, of |-> j, sighted |-> request.sighted]
  <2>1. Insert(j, r) /\ UNCHANGED <<seen, lost>> /\ request.step = "sighted"
    BY <1>10 DEF Accept
  <2>2. row[j].type = "none" /\ row' = [row EXCEPT ![j] = r] BY <2>1, Inserted
  <2>3. /\ row \in [JobIds -> Records]
        /\ request.item \in Items /\ seen[request.item] = request.sighted
    BY <2>1 DEF TypeInv, Shapes, RowShapes, Records, InHand
  <2>4. row'[j] = r BY <2>2, <2>3
  <2>5. ASSUME NEW i \in Items, i = request.item PROVE Accepted(i)'
    <3>1. seen'[i] = r.sighted BY <2>1, <2>3, <2>5
    <3>2. row'[j].type = "webhook" /\ row'[j].item = i /\ row'[j].sighted = r.sighted
      BY <2>4, <2>5
    <3> QED BY <3>1, <3>2 DEF Accepted, Webhooks
  <2>6. ASSUME NEW i \in Items, Accepted(i) PROVE Accepted(i)'
    <3>1. PICK k \in JobIds : IsWebhook(k) /\ row[k].item = i /\ row[k].sighted = seen[i]
      BY <2>6 DEF Accepted, Webhooks, IsWebhook
    <3>2. k # j BY <2>2, <3>1 DEF IsWebhook
    <3>3. row'[k] = row[k] BY <2>2, <2>3, <3>2
    <3> QED BY <2>1, <3>1, <3>3 DEF Accepted, Webhooks, IsWebhook
  <2> SUFFICES ASSUME NEW i \in Items \ lost, seen[i] # Unseen PROVE Accepted(i)'
    BY <2>1 DEF Backed
  <2>7. Accepted(i) \/ request.item = i BY DEF Backed, InHandFor
  <2> QED BY <2>5, <2>6, <2>7
<1>11. CASE UNCHANGED vars
  <2>1. SameWork /\ UNCHANGED <<seen, request, lost>> BY <1>11 DEF vars, SameWork, IsWebhook
  <2> QED BY <2>1, BackedRests
<1> QED BY <1>2, <1>3, <1>4, <1>5, <1>6, <1>7, <1>8, <1>9, <1>10, <1>11 DEF Next

\* An identity on record that no crash in mid-delivery and no failed rollback
\* left behind has the webhook job its delivery was promised, so that debouncing
\* the next delivery loses nothing.
THEOREM IngestLosesNothing == Spec => []OnlyFaultsLoseEvents
<1>1. Backed => OnlyFaultsLoseEvents BY DEF Backed, InHandFor, OnlyFaultsLoseEvents, Waiting
<1> QED BY <1>1, InitTypeInv, InitBacked, StepTypeInv, StepBacked, PTL DEF Spec

---------------------------------------------------------------------------
(* Everything ingest does to the queue is what JobLedger allows.           *)

LEMMA StepQueue == TypeInv /\ [Next]_vars => [Queue!Next]_(Queue!ledger)
<1> SUFFICES ASSUME TypeInv, [Next]_vars PROVE [Queue!Next]_(Queue!ledger) OBVIOUS
<1> USE DEF clocks, ingest, queue, faults, Queue!ledger
<1>1. CASE \/ Tick \/ EnqueueFails \/ RollBack \/ RollBackFails \/ UNCHANGED vars
           \/ \E i \in Items : Happens(i) \/ Debounce(i) \/ Sight(i)
  BY <1>1 DEF Tick, EnqueueFails, RollBack, RollBackFails, Happens, Debounce, Sight, vars
<1>2. CASE Crash BY <1>2 DEF Crash, Queue!Next
<1>3. CASE Restart
  <2>1. {j \in JobIds : state[j] = "running"} \in SUBSET JobIds OBVIOUS
  <2> QED BY <1>3, <2>1 DEF Restart, Queue!Next
<1>4. ASSUME NEW j \in JobIds, Accept(j) PROVE Queue!Next
  BY <1>4 DEF Accept, Insert, Queue!Next
<1>5. ASSUME NEW j \in JobIds, Work(j) \/ Reopen(j) PROVE [Queue!Next]_(Queue!ledger)
  <2>1. ASSUME RetryNotQueued(j) PROVE UNCHANGED <<state, holder>> BY <2>1 DEF RetryNotQueued
  <2>2. ASSUME NEW k \in JobIds, QueueRetry(j, k) PROVE Queue!Submit(k)
    BY <2>2 DEF QueueRetry, Insert
  <2>3. ASSUME Succeed(j) \/ SucceedWithRetry(j) \/ Fail(j) \/ CompleteFails(j) PROVE Queue!Settle(j)
    BY <2>3 DEF Succeed, SucceedWithRetry, Fail, CompleteFails, Complete, Retried, Settle
  <2>4. ASSUME Abandon(j) PROVE Queue!Abandon(j) BY <2>4 DEF Abandon
  <2>5. ASSUME Reopen(j) PROVE Queue!Reopen(j) BY <2>5 DEF Reopen
  <2> QED BY <1>5, <2>1, <2>2, <2>3, <2>4, <2>5 DEF Work, Queue!Next
<1>6. ASSUME NEW j \in JobIds, NEW t \in Threads, Take(j, t) PROVE Queue!Next
  BY <1>6 DEF Take, Queue!Next
<1> QED BY <1>1, <1>2, <1>3, <1>4, <1>5, <1>6 DEF Next

\* The queue ingest is written against is the one JobQueue implements: every
\* behaviour of ingest is one of JobLedger's.
THEOREM IngestKeepsLedger == Spec => Queue!Spec
<1>1. Init => Queue!Init BY DEF Init
<1> QED BY <1>1, InitTypeInv, StepTypeInv, StepQueue, PTL DEF Spec, Queue!Spec

=============================================================================
