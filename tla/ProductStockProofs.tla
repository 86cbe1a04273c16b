------------------------- MODULE ProductStockProofs -------------------------
(***************************************************************************)
(* Theorems about ProductStock, for any stock values and number of events. *)
(***************************************************************************)
EXTENDS ProductStock, TLAPS

(* What jobs carry: a row they read was consistent when they read it, and one
   that only writes over a row has read one. *)
HeldOK ==
  \A a \in Actor :
    /\ Consistent(job[a].held)
    /\ pc[a] = "write" /\ job[a].kind \in NeedsRow => job[a].held # NoRow

(* The goroutines: their types, what they hold, and the flag. *)
JobInv ==
  /\ pc \in [Actor -> Step] /\ job \in [Actor -> Job] /\ running \in BOOLEAN
  /\ HeldOK
  /\ FlagHeld

(* The rest: MoySklad, the row, the cache and the counters. *)
DataInv ==
  /\ ms \in [there : BOOLEAN, stock : Int]
  /\ row \in Row \cup {NoRow} /\ RowConsistent
  /\ cache \in Int \cup {NoEntry}
  /\ sold \in Nat /\ events \in 0..MaxEvents /\ sold <= events

IInv == JobInv /\ DataInv

LEMMA RowNotNoRow == NoRow \notin Row /\ NoEntry \notin Int
  BY StockAssumption DEF StockAssumption, Row

LEMMA NoJobTyped == NoJob \in Job /\ Consistent(NoJob.held)
  BY DEF NoJob, Job, Kind, Consistent

LEMMA FreshConsistent ==
  ASSUME NEW s \in Int
  PROVE  Fresh(s) \in Row /\ Consistent(Fresh(s))
  BY DEF Fresh, StatusFor, Row, Consistent

(* Whatever a job computes from the row it read is a consistent row. *)
LEMMA NewRowConsistent ==
  ASSUME NEW j \in Job, Consistent(j.held),
         j.kind \in NeedsRow => j.held # NoRow
  PROVE  NewRow(j) \in Row /\ Consistent(NewRow(j))
<1>1. StockFor(j) \in Int
  BY DEF StockFor, ReportedOrZero, NotNegative, Job, Row
<1>2. CASE j.kind = "image"
  BY <1>2 DEF NewRow, NeedsRow, Job
<1>3. CASE j.kind = "delete"
  BY <1>3 DEF NewRow, Row, Consistent
<1>4. CASE j.kind = "report"
  <2>1. j.held \in Row
    BY <1>4 DEF NeedsRow, Job
  <2>2. NewRow(j) = [Fresh(StockFor(j)) EXCEPT !.active = j.held.active]
    BY <1>4 DEF NewRow
  <2> QED
    BY <1>1, <2>1, <2>2 DEF Fresh, StatusFor, Row, Consistent
<1>5. CASE j.kind \notin {"image", "delete", "report"}
  <2>1. NewRow(j) = Fresh(StockFor(j))
    BY <1>5 DEF NewRow
  <2> QED
    BY <1>1, <2>1, FreshConsistent
<1> QED
  BY <1>2, <1>3, <1>4, <1>5

(* A goroutine that goes on, or that ends and releases the flag. *)
LEMMA GoKeepsJobInv ==
  ASSUME JobInv,
         NEW a \in Actor, NEW s \in Step, NEW j \in Job,
         Go(a, s, j),
         Consistent(j.held), s = "write" /\ j.kind \in NeedsRow => j.held # NoRow,
         pc[a] # "idle" \/ a \notin {"backup", "producer"},
         \/ s # "idle" /\ running' = running
         \/ s = "idle" /\ Release(a)
  PROVE  JobInv'
<1>1. pc' \in [Actor -> Step] /\ job' \in [Actor -> Job] /\ running' \in BOOLEAN
  BY DEF JobInv, Go, Release
<1>2. \A b \in Actor : pc'[b] = (IF b = a THEN s ELSE pc[b])
                    /\ job'[b] = (IF b = a THEN j ELSE job[b])
  BY DEF JobInv, Go
<1>3. HeldOK'
  BY <1>2 DEF JobInv, HeldOK, Consistent
<1>4. FlagHeld'
  <2>1. /\ pc'["backup"] = IF a = "backup" THEN s ELSE pc["backup"]
        /\ pc'["producer"] = IF a = "producer" THEN s ELSE pc["producer"]
    BY <1>2 DEF Actor
  <2>2. CASE s # "idle" /\ running' = running
    BY <2>1, <2>2 DEF JobInv, FlagHeld
  <2>3. CASE s = "idle" /\ a \in {"backup", "producer"}
    <3>1. running' = FALSE
      BY <2>3 DEF Release, JobInv
    <3> QED
      BY <2>1, <2>3, <3>1 DEF JobInv, FlagHeld
  <2>4. CASE s = "idle" /\ a \notin {"backup", "producer"}
    <3>1. running' = running
      BY <2>4 DEF Release, JobInv
    <3> QED
      BY <2>1, <2>4, <3>1 DEF JobInv, FlagHeld
  <2> QED
    BY <2>2, <2>3, <2>4
<1> QED
  BY <1>1, <1>3, <1>4 DEF JobInv

LEMMA LeaveKeepsJobInv ==
  ASSUME JobInv, NEW a \in Actor, Leave(a),
         pc[a] # "idle" \/ a \notin {"backup", "producer"}
  PROVE  JobInv'
  BY GoKeepsJobInv, NoJobTyped DEF Leave, Step

LEMMA DoneKeepsJobInv ==
  ASSUME JobInv, NEW a \in Actor, Done(a), pc[a] # "idle"
  PROVE  JobInv'
<1>1. CASE job[a].kind \in {"delta", "full"}
  <2>1. [NoJob EXCEPT !.kind = job[a].kind] \in Job
        /\ [NoJob EXCEPT !.kind = job[a].kind].held = NoRow
    BY <1>1, NoJobTyped DEF NoJob, Job, Kind
  <2> QED
    BY <1>1, <2>1, GoKeepsJobInv DEF Done, Step, Consistent
<1>2. CASE job[a].kind \notin {"delta", "full"}
  BY <1>2, LeaveKeepsJobInv DEF Done
<1> QED
  BY <1>1, <1>2

LEMMA AfterSetKeepsJobInv ==
  ASSUME JobInv, NEW a \in Actor, AfterSet(a), pc[a] # "idle"
  PROVE  JobInv'
<1>1. [NoJob EXCEPT !.kind = "entity"] \in Job
      /\ [NoJob EXCEPT !.kind = "entity"].held = NoRow
  BY NoJobTyped DEF NoJob, Job, Kind
<1>2. CASE job[a].kind = "entity" /\ job[a].held # NoRow
  BY <1>1, <1>2, GoKeepsJobInv DEF AfterSet, Step, Consistent
<1>3. CASE ~(job[a].kind = "entity" /\ job[a].held # NoRow)
  BY <1>3, DoneKeepsJobInv DEF AfterSet
<1> QED
  BY <1>2, <1>3

LEMMA ContinueKeepsIInv ==
  ASSUME IInv, NEW a \in Actor, Continue(a)
  PROVE  IInv'
<1> USE DEF IInv
<1>a. pc \in [Actor -> Step] /\ job \in [Actor -> Job] /\ job[a] \in Job
  BY DEF JobInv
<1>1. CASE FetchStock(a)
  <2>1. Reported \in Int \cup {NoEntry}
    BY DEF Reported, DataInv
  <2>2. DEFINE j == [job[a] EXCEPT !.stock = Reported]
  <2>3. j \in Job /\ j.held = job[a].held
    BY <1>a, <2>1 DEF Job
  <2>4. Consistent(j.held)
    BY <2>3 DEF JobInv, HeldOK
  <2>5. pc[a] = "stock" BY <1>1 DEF FetchStock
  <2>6. JobInv'
    <3>1. CASE job[a].kind # "report"
      BY <1>1, <2>3, <2>4, <2>5, <3>1, GoKeepsJobInv DEF FetchStock, Step
    <3>2. CASE job[a].kind = "report" /\ ms.there
      BY <1>1, <2>3, <2>4, <2>5, <3>2, GoKeepsJobInv DEF FetchStock, Step
    <3>3. CASE job[a].kind = "report" /\ ~ms.there
      BY <1>1, <2>5, <3>3, LeaveKeepsJobInv DEF FetchStock
    <3> QED BY <3>1, <3>2, <3>3
  <2> QED
    BY <1>1, <2>6 DEF FetchStock, DataInv, RowConsistent
<1>2. CASE List(a)
  <2>1. pc[a] = "list" BY <1>2 DEF List
  <2>2. CASE Leave(a)
    BY <1>2, <2>1, <2>2, LeaveKeepsJobInv DEF List, DataInv, RowConsistent
  <2>3. CASE Go(a, IF a = "producer" THEN "push" ELSE "read", job[a]) /\ UNCHANGED running
    <3>1. JobInv'
      BY <1>a, <2>1, <2>3, GoKeepsJobInv DEF Step, JobInv, HeldOK
    <3> QED
      BY <1>2, <3>1 DEF List, DataInv, RowConsistent
  <2> QED
    BY <1>2, <2>2, <2>3 DEF List
<1>3. CASE ReadRow(a)
  <2>1. pc[a] = "read" BY <1>3 DEF ReadRow
  <2>2. JobInv'
    <3>1. CASE row = NoRow /\ job[a].kind \in NeedsRow
      BY <1>3, <2>1, <3>1, DoneKeepsJobInv DEF ReadRow
    <3>2. CASE row # NoRow /\ job[a].kind = "read"
      <4> DEFINE j == [job[a] EXCEPT !.stock = row.stock]
      <4>1. row \in Row /\ row.stock \in Int
        BY <3>2 DEF DataInv, Row
      <4>2. j \in Job /\ j.held = job[a].held
        BY <1>a, <4>1 DEF Job
      <4>3. Go(a, "cache", j) /\ running' = running
        BY <1>3, <3>2 DEF ReadRow
      <4>4. Consistent(j.held)
        BY <4>2 DEF JobInv, HeldOK
      <4> QED
        BY <2>1, <4>2, <4>3, <4>4, GoKeepsJobInv DEF Step
    <3>3. CASE ~(row = NoRow /\ job[a].kind \in NeedsRow)
               /\ ~(row # NoRow /\ job[a].kind = "read")
      <4> DEFINE j == [job[a] EXCEPT !.held = row]
      <4>1. j \in Job /\ j.held = row /\ j.kind = job[a].kind
        BY <1>a DEF Job, DataInv
      <4>2. Go(a, "write", j) /\ running' = running
        BY <1>3, <3>3 DEF ReadRow
      <4>3. Consistent(j.held) /\ (j.kind \in NeedsRow => j.held # NoRow)
        BY <3>3, <4>1 DEF DataInv, RowConsistent
      <4> QED
        BY <2>1, <4>1, <4>2, <4>3, GoKeepsJobInv DEF Step
    <3> QED BY <3>1, <3>2, <3>3
  <2> QED
    BY <1>3, <2>2 DEF ReadRow, DataInv, RowConsistent
<1>4. CASE WriteRow(a)
  <2>1. pc[a] = "write" /\ Consistent(job[a].held)
        /\ (job[a].kind \in NeedsRow => job[a].held # NoRow)
    BY <1>4 DEF WriteRow, JobInv, HeldOK
  <2>2. CASE job[a].held = NoRow /\ row # NoRow
    <3>1. UNCHANGED row /\ Done(a)
      BY <1>4, <2>2 DEF WriteRow
    <3> QED
      BY <1>4, <2>1, <3>1, DoneKeepsJobInv DEF WriteRow, DataInv, RowConsistent
  <2>3. CASE ~(job[a].held = NoRow /\ row # NoRow)
    <3> DEFINE new == NewRow(job[a])
               held == IF job[a].kind = "entity" /\ job[a].held # NoRow
                         THEN job[a].held ELSE NoRow
               j == [kind |-> job[a].kind, stock |-> new.stock, held |-> held]
    <3>1. new \in Row /\ Consistent(new)
      BY <1>a, <2>1, NewRowConsistent
    <3>2. row' = new
      BY <1>4, <2>3 DEF WriteRow
    <3>3. DataInv'
      BY <1>4, <3>1, <3>2 DEF WriteRow, DataInv, RowConsistent
    <3>4. JobInv'
      <4>1. CASE job[a].kind = "image"
        BY <1>4, <2>1, <2>3, <4>1, DoneKeepsJobInv DEF WriteRow
      <4>2. CASE job[a].kind = "delete"
        <5>1. [NoJob EXCEPT !.kind = "delete"] \in Job
              /\ [NoJob EXCEPT !.kind = "delete"].held = NoRow
          BY NoJobTyped DEF NoJob, Job, Kind
        <5> QED
          BY <1>4, <2>1, <2>3, <4>2, <5>1, GoKeepsJobInv DEF WriteRow, Step, Consistent
      <4>3. CASE job[a].kind \notin {"image", "delete"}
        <5>1. j \in Job /\ Consistent(j.held)
          BY <1>a, <2>1, <3>1 DEF Job, Row, Consistent
        <5>2. Go(a, "cache", j) /\ running' = running
          BY <1>4, <2>3, <4>3 DEF WriteRow
        <5> QED
          BY <2>1, <5>1, <5>2, GoKeepsJobInv DEF Step
      <4> QED BY <4>1, <4>2, <4>3
    <3> QED BY <3>3, <3>4
  <2> QED BY <2>2, <2>3
<1>5. CASE SetStock(a)
  <2>1. JobInv'
    BY <1>5, AfterSetKeepsJobInv DEF SetStock
  <2> QED
    BY <1>5, <1>a, <2>1 DEF SetStock, DataInv, RowConsistent, Job
<1>6. CASE DropEntry(a)
  <2>1. JobInv'
    BY <1>6, DoneKeepsJobInv DEF DropEntry
  <2> QED
    BY <1>6, <2>1 DEF DropEntry, DataInv, RowConsistent
<1>7. CASE Finish(a)
  <2>1. JobInv'
    BY <1>7, LeaveKeepsJobInv DEF Finish
  <2> QED
    BY <1>7, <2>1 DEF Finish, DataInv, RowConsistent
<1> QED
  BY <1>1, <1>2, <1>3, <1>4, <1>5, <1>6, <1>7 DEF Continue

(* A job that an idle goroutine begins, with or without a change of the flag. *)
LEMMA BeginKeepsJobInv ==
  ASSUME JobInv, NEW a \in Actor, NEW s \in {"stock", "list", "read"}, NEW k \in Kind,
         Begin(a, s, k),
         \/ a \notin {"backup", "producer"} /\ running' = running
         \/ a \in {"backup", "producer"} /\ running = FALSE /\ running' = TRUE
  PROVE  JobInv'
<1> DEFINE j == [NoJob EXCEPT !.kind = k]
<1>1. j \in Job /\ j.held = NoRow
  BY NoJobTyped DEF NoJob, Job
<1>2. Go(a, s, j) /\ pc[a] = "idle"
  BY DEF Begin
<1>3. CASE a \notin {"backup", "producer"} /\ running' = running
  BY <1>1, <1>2, <1>3, GoKeepsJobInv DEF Step, Consistent
<1>4. CASE a \in {"backup", "producer"} /\ running = FALSE /\ running' = TRUE
  <2>1. pc' \in [Actor -> Step] /\ job' \in [Actor -> Job] /\ running' \in BOOLEAN
    BY <1>1, <1>2, <1>4 DEF JobInv, Go, Step
  <2>2. \A b \in Actor : pc'[b] = (IF b = a THEN s ELSE pc[b])
                      /\ job'[b] = (IF b = a THEN j ELSE job[b])
    BY <1>2 DEF JobInv, Go
  <2>3. HeldOK'
    BY <1>1, <2>2 DEF JobInv, HeldOK, Consistent
  <2>4. pc["backup"] = "idle" /\ pc["producer"] = "idle"
    BY <1>4 DEF JobInv, FlagHeld
  <2>5. FlagHeld'
    BY <1>4, <2>2, <2>4 DEF FlagHeld, Actor
  <2> QED
    BY <2>1, <2>3, <2>5 DEF JobInv
<1> QED
  BY <1>3, <1>4

(* The transaction of an order. *)
LEMMA TakeKeeps ==
  ASSUME IInv, NEW n \in {1, -1}, row # NoRow, Take(n), running' = running
  PROVE  JobInv' /\ row' \in Row /\ Consistent(row')
<1> DEFINE new == [row EXCEPT !.stock = @ - n, !.status = StatusFor(row.stock - n)]
           j == [kind |-> "order", stock |-> new.stock, held |-> NoRow]
<1>1. row \in Row /\ row.stock \in Int
  BY DEF IInv, DataInv, Row
<1>2. row.stock - n \in Int
  BY <1>1
<1>3. new \in Row /\ Consistent(new)
  BY <1>1, <1>2 DEF Row, StatusFor, Consistent
<1>4. j \in Job /\ Consistent(j.held)
  BY <1>3 DEF Job, Kind, Row, Consistent
<1>5. row' = new /\ Go("order", "cache", j) /\ pc["order"] = "idle"
  BY DEF Take
<1>6. JobInv'
  BY <1>4, <1>5, GoKeepsJobInv DEF IInv, Actor, Step, Kind, NeedsRow
<1> QED
  BY <1>3, <1>5, <1>6

LEMMA NextKeepsIInv ==
  ASSUME IInv, [Next]_vars
  PROVE  IInv'
<1> USE DEF IInv
<1>1. CASE UNCHANGED vars
  BY <1>1 DEF vars, JobInv, HeldOK, FlagHeld, DataInv, RowConsistent, Consistent
<1>2. CASE Edit
  <2>1. ms' \in [there : BOOLEAN, stock : Int]
    BY <1>2, StockAssumption DEF Edit, DataInv, StockAssumption
  <2>2. JobInv'
    BY <1>2 DEF Edit, JobInv, HeldOK, FlagHeld
  <2> QED
    BY <1>2, <2>1, <2>2, StockAssumption
       DEF Edit, Counted, DataInv, RowConsistent, StockAssumption
<1>3. CASE Expire
  BY <1>3 DEF Expire, JobInv, HeldOK, FlagHeld, DataInv, RowConsistent
<1>4. CASE Miss
  <2>1. JobInv'
    BY <1>4, BeginKeepsJobInv DEF Miss, Actor, Kind
  <2> QED
    BY <1>4, <2>1, StockAssumption DEF Miss, Counted, DataInv, RowConsistent, StockAssumption
<1>5. CASE Restart
  <2>1. \A a \in Actor : pc'[a] = "idle" /\ job'[a] = NoJob
    BY <1>5 DEF Restart
  <2>2. pc' \in [Actor -> Step] /\ job' \in [Actor -> Job] /\ running' = FALSE
    BY <1>5, NoJobTyped DEF Restart, Step
  <2>3. JobInv'
    BY <2>1, <2>2, NoJobTyped DEF JobInv, HeldOK, FlagHeld, Actor
  <2> QED
    BY <1>5, <2>3, StockAssumption DEF Restart, Counted, DataInv, RowConsistent, StockAssumption
<1>6. CASE PushTask
  <2>1. pc["producer"] = "push" /\ pc["pool"] = "idle"
    BY <1>6 DEF PushTask
  <2>2. /\ pc' \in [Actor -> Step] /\ job' \in [Actor -> Job] /\ running' \in BOOLEAN
    BY <1>6, NoJobTyped DEF PushTask, JobInv, Step, Actor, Release
  <2>3. \A b \in Actor :
          /\ pc'[b] = (IF b = "pool" THEN "read" ELSE IF b = "producer" THEN "idle" ELSE pc[b])
          /\ job'[b] = (IF b = "pool" THEN job["producer"]
                         ELSE IF b = "producer" THEN NoJob ELSE job[b])
    BY <1>6 DEF PushTask, JobInv
  <2>4. HeldOK'
    BY <2>3, NoJobTyped DEF JobInv, HeldOK, Actor
  <2>5. running' = FALSE
    BY <1>6 DEF PushTask, Release, JobInv
  <2>6. FlagHeld'
    BY <2>1, <2>3, <2>5 DEF JobInv, FlagHeld, Actor
  <2> QED
    BY <1>6, <2>2, <2>4, <2>6 DEF PushTask, JobInv, DataInv, RowConsistent
<1>7. CASE SyncOnce
  <2>1. running = FALSE /\ running' = TRUE
    BY <1>7 DEF SyncOnce, JobInv
  <2>2. JobInv'
    BY <1>7, <2>1, BeginKeepsJobInv DEF SyncOnce, BeginSync, Actor, Kind
  <2> QED
    BY <1>7, <2>2, StockAssumption DEF SyncOnce, Counted, DataInv, RowConsistent, StockAssumption
<1>8. CASE AdminSync
  <2>1. JobInv'
    BY <1>8, BeginKeepsJobInv DEF AdminSync, BeginSync, Actor, Kind
  <2> QED
    BY <1>8, <2>1, StockAssumption DEF AdminSync, Counted, DataInv, RowConsistent, StockAssumption
<1>9. CASE Reseed
  <2>1. running = FALSE /\ running' = TRUE
    BY <1>9 DEF Reseed, JobInv
  <2>2. JobInv'
    BY <1>9, <2>1, BeginKeepsJobInv DEF Reseed, Actor, Kind
  <2> QED
    BY <1>9, <2>2 DEF Reseed, DataInv, RowConsistent
<1>10. CASE TakeWebhook
  <2>1. JobInv'
    BY <1>10, BeginKeepsJobInv DEF TakeWebhook, Actor, Kind
  <2> QED
    BY <1>10, <2>1, StockAssumption DEF TakeWebhook, Counted, DataInv, RowConsistent, StockAssumption
<1>11. CASE SyncImages
  <2>1. JobInv'
    BY <1>11, BeginKeepsJobInv DEF SyncImages, Actor, Kind
  <2> QED
    BY <1>11, <2>1, StockAssumption DEF SyncImages, Counted, DataInv, RowConsistent, StockAssumption
<1>12. CASE CreateOrder
  <2>1. JobInv' /\ row' \in Row /\ Consistent(row')
    BY <1>12, TakeKeeps DEF CreateOrder
  <2> QED
    BY <1>12, <2>1, StockAssumption
       DEF CreateOrder, Take, Counted, DataInv, RowConsistent, StockAssumption
<1>13. CASE RestoreOrder
  <2>1. JobInv' /\ row' \in Row /\ Consistent(row')
    BY <1>13, TakeKeeps DEF RestoreOrder
  <2> QED
    BY <1>13, <2>1 DEF RestoreOrder, Take, DataInv, RowConsistent
<1>14. CASE CompleteOrder
  BY <1>14 DEF CompleteOrder, JobInv, HeldOK, FlagHeld, DataInv, RowConsistent
<1>15. ASSUME NEW a \in Actor, Fail(a) PROVE IInv'
  <2>1. JobInv'
    <3>1. CASE pc[a] \in {"stock", "list"} /\ Leave(a)
      BY <3>1, LeaveKeepsJobInv
    <3>2. CASE pc[a] \in {"read", "write", "drop"} /\ Done(a)
      BY <3>2, DoneKeepsJobInv
    <3>3. CASE pc[a] = "cache" /\ AfterSet(a)
      BY <3>3, AfterSetKeepsJobInv
    <3> QED
      BY <1>15, <3>1, <3>2, <3>3 DEF Fail
  <2> QED
    BY <1>15, <2>1, StockAssumption DEF Fail, Counted, DataInv, RowConsistent, StockAssumption
<1> QED
  BY <1>1, <1>2, <1>3, <1>4, <1>5, <1>6, <1>7, <1>8, <1>9, <1>10, <1>11, <1>12,
     <1>13, <1>14, <1>15, ContinueKeepsIInv DEF Next

(***************************************************************************)
(* The theorems                                                            *)
(***************************************************************************)
(* In every state, whatever the jobs have read and not yet written back, the
   row, the flag and all that jobs carry are in order. *)
THEOREM StockInvariant == Spec => []IInv
<1>1. Init => IInv
  <2> SUFFICES ASSUME Init PROVE IInv
    OBVIOUS
  <2>1. \A a \in Actor : pc[a] = "idle" /\ job[a] = NoJob
    BY DEF Init
  <2>2. JobInv
    BY <2>1, NoJobTyped DEF Init, JobInv, HeldOK, FlagHeld, Step, Actor
  <2>3. DataInv
    <3>1. ms \in [there : BOOLEAN, stock : Int]
      BY StockAssumption DEF Init, StockAssumption
    <3>2. row \in Row \cup {NoRow} /\ RowConsistent
      BY DEF Init, RowConsistent, Consistent
    <3>3. events = 0 /\ sold = 0 /\ cache = NoEntry /\ MaxEvents \in Nat
      BY StockAssumption DEF Init, StockAssumption
    <3> QED
      BY <3>1, <3>2, <3>3 DEF DataInv
  <2> QED BY <2>2, <2>3 DEF IInv
<1>2. IInv /\ [Next]_vars => IInv'
  BY NextKeepsIInv
<1> QED
  BY <1>1, <1>2, PTL DEF Spec

(* Every variable keeps its type: jobs of every kind write whole rows. *)
THEOREM StockTyped == Spec => []TypeOK
<1>1. IInv => TypeOK
  BY StockAssumption DEF IInv, JobInv, DataInv, TypeOK, StockAssumption
<1> QED
  BY <1>1, StockInvariant, PTL

(* No interleaving of syncs, webhooks, image downloads and orders leaves a row
   whose status contradicts its stock, for any stock values MoySklad reports. *)
THEOREM RowConsistentAlways == Spec => []RowConsistent
<1>1. IInv => RowConsistent
  BY DEF IInv, DataInv
<1> QED
  BY <1>1, StockInvariant, PTL

(* syncRunning is neither leaked nor shared. *)
THEOREM FlagHeldAlways == Spec => []FlagHeld
<1>1. IInv => FlagHeld
  BY DEF IInv, JobInv
<1> QED
  BY <1>1, StockInvariant, PTL
=============================================================================
