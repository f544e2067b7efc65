--------------------------- MODULE SchedulerProofs ---------------------------
EXTENDS SchedulerProps, SequenceTheorems, TLAPS

\* What a queue insertion yields: the new item at its position, the rest in order.
LEMMA InsertAtProperties ==
  ASSUME NEW s \in Seq(Items), NEW i \in 1..(Len(s) + 1), NEW e \in Items
  PROVE  /\ Len(InsertAt(s, i, e)) = Len(s) + 1
         /\ InsertAt(s, i, e) = [j \in 1..(Len(s) + 1) |-> IF j < i THEN s[j] ELSE IF j = i THEN e ELSE s[j - 1]]
PROOF
<1> DEFINE front == SubSeq(s, 1, i - 1)
           back == SubSeq(s, i, Len(s))
<1>1. Len(s) \in Nat /\ i \in Int
  BY LenProperties
<1>2. \A j \in 1..Len(s) : s[j] \in Items
  BY ElementOfSeq
<1>3. /\ front \in Seq(Items) /\ Len(front) = i - 1
      /\ \A j \in 1..(i - 1) : front[j] = s[j]
  <2>1. \A j \in 1..(i - 1) : s[j] \in Items
    BY <1>1, <1>2
  <2> HIDE DEF front
  <2>2. /\ front \in Seq(Items) /\ Len(front) = IF 1 <= i - 1 THEN (i - 1) - 1 + 1 ELSE 0
        /\ \A j \in 1..((i - 1) - 1 + 1) : front[j] = s[1 + j - 1]
    BY <1>1, <2>1, SubSeqProperties DEF front
  <2> QED BY <1>1, <2>2
<1>4. /\ back \in Seq(Items) /\ Len(back) = Len(s) - i + 1
      /\ \A j \in 1..(Len(s) - i + 1) : back[j] = s[i + j - 1]
  <2>1. \A j \in i..Len(s) : s[j] \in Items
    BY <1>1, <1>2
  <2>2. /\ back \in Seq(Items) /\ Len(back) = IF i <= Len(s) THEN Len(s) - i + 1 ELSE 0
        /\ \A j \in 1..(Len(s) - i + 1) : back[j] = s[i + j - 1]
    BY <1>1, <2>1, SubSeqProperties
  <2> QED BY <1>1, <2>2
<1>5. InsertAt(s, i, e) = (front \o <<e>>) \o back
  BY DEF InsertAt
<1> HIDE DEF front, back
<1>6. <<e>> \in Seq(Items) /\ Len(<<e>>) = 1 /\ <<e>>[1] = e
  OBVIOUS
<1>7. /\ front \o <<e>> \in Seq(Items) /\ Len(front \o <<e>>) = i
      /\ \A j \in 1..i : (front \o <<e>>)[j] = IF j <= i - 1 THEN front[j] ELSE <<e>>[j - (i - 1)]
  BY <1>1, <1>3, <1>6, ConcatProperties
<1>8. /\ InsertAt(s, i, e) \in Seq(Items) /\ Len(InsertAt(s, i, e)) = i + (Len(s) - i + 1)
      /\ \A j \in 1..(i + (Len(s) - i + 1)) :
           InsertAt(s, i, e)[j] = IF j <= i THEN (front \o <<e>>)[j] ELSE back[j - i]
  BY SMTT(30), <1>1, <1>4, <1>5, <1>7, ConcatProperties
<1>9. ASSUME NEW j \in 1..(Len(s) + 1)
      PROVE  InsertAt(s, i, e)[j] = IF j < i THEN s[j] ELSE IF j = i THEN e ELSE s[j - 1]
  <2>1. j \in 1..(i + (Len(s) - i + 1)) /\ i \in Nat
    BY <1>1
  <2>2. InsertAt(s, i, e)[j] = IF j <= i THEN (front \o <<e>>)[j] ELSE back[j - i]
    BY <1>8, <2>1
  <2>3. CASE j < i
    BY <1>1, <1>3, <1>7, <2>1, <2>2, <2>3
  <2>4. CASE j = i
    BY <1>1, <1>6, <1>7, <2>1, <2>2, <2>4
  <2>5. CASE j > i
    <3>1. j - i \in 1..(Len(s) - i + 1) /\ i + (j - i) - 1 = j - 1
      BY <1>1, <2>1, <2>5
    <3>2. back[j - i] = s[j - 1]
      BY <1>4, <3>1
    <3> QED BY <1>1, <2>1, <2>2, <2>5, <3>2
  <2> QED BY <1>1, <2>1, <2>3, <2>4, <2>5
<1>10. DOMAIN InsertAt(s, i, e) = 1..(Len(s) + 1)
  BY <1>1, <1>8, LenProperties
<1> QED BY <1>1, <1>8, <1>9, <1>10

\* The queue an admission leaves.
LEMMA Inserted ==
  ASSUME NEW s \in Seq(Items), NEW i \in 1..(Len(s) + 1), NEW e \in Items, NEW new, new = InsertAt(s, i, e)
  PROVE  /\ new \in Seq(Items) /\ Len(new) = Len(s) + 1
         /\ Len(s) \in Nat /\ DOMAIN s = 1..Len(s) /\ DOMAIN new = 1..(Len(s) + 1)
         /\ \A j \in DOMAIN new : new[j] = e \/ \E m \in DOMAIN s : new[j] = s[m]
PROOF
<1>1. /\ Len(new) = Len(s) + 1
      /\ new = [j \in 1..(Len(s) + 1) |-> IF j < i THEN s[j] ELSE IF j = i THEN e ELSE s[j - 1]]
  BY InsertAtProperties
<1>2. Len(s) \in Nat /\ DOMAIN s = 1..Len(s) /\ DOMAIN new = 1..(Len(s) + 1)
  BY <1>1, LenProperties
<1>3. \A j \in DOMAIN s : s[j] \in Items
  BY <1>2, ElementOfSeq
<1>4. ASSUME NEW j \in DOMAIN new PROVE new[j] \in Items /\ (new[j] = e \/ \E m \in DOMAIN s : new[j] = s[m])
  <2>1. CASE j < i
    BY <1>1, <1>2, <1>3, <2>1
  <2>2. CASE j = i
    BY <1>1, <1>2, <2>2
  <2>3. CASE j > i
    <3>1. j - 1 \in DOMAIN s /\ new[j] = s[j - 1]
      BY <1>1, <1>2, <2>3
    <3> QED BY <1>3, <3>1
  <2> QED BY <1>2, <2>1, <2>2, <2>3
<1>5. new \in Seq(Items)
  BY <1>1, <1>2, <1>4, SeqDef
<1> QED BY <1>1, <1>2, <1>4, <1>5

-----------------------------------------------------------------------------
(* The queue.                                                              *)

\* What the queue's invariant looks at.
queueVars == <<run_requests, queue, loop, config, programs, now, requested>>

\* A step that changes none of it keeps the invariant.
LEMMA QueueFrame == QueueInd /\ UNCHANGED queueVars => QueueInd'
  BY DEF QueueInd, QueueTypes, ConfigOK, QueueOK, QueueInv, WithinCap, ManualFirst, OneOccurrenceQueued,
         ManualFifo, RequestsOrdered, Scheduled, queueVars, config

\* No step of a run touches what the queue's invariant looks at.
LEMMA RunTaskStepFrame == ASSUME NEW t \in Slots PROVE RunTaskStep(t) => UNCHANGED queueVars
PROOF
<1>1. RunTaskStep(t) => TaskUnchanged
  BY DEF RunTaskStep, RunBegins, RainDelayRead, WeatherDecided, TerminalRecorded, ZonesFetched, RunInserted,
         SetupFails, StepZonesFetched, ZoneStarts, StartFails, StartReplies, StartRepliesUntracked, StepStarted,
         StepSlept, StepEnds, RunStops, RunFinished, RunCrashes, InFlightCancelled, HandlerFails,
         CancelUnstarted, CancelSetup, CancelRun, CancelHandler
<1> QED BY <1>1 DEF TaskUnchanged, queueVars

\* Requests leave, none comes; the queue stays.
LEMMA QueueShrink ==
  ASSUME QueueInd, QueueTypes', queue' = queue, requested' = requested,
         loop.reqs' \subseteq loop.reqs, run_requests' \subseteq run_requests
  PROVE  QueueInd'
  BY DEF QueueInd, QueueInv, WithinCap, ManualFirst, OneOccurrenceQueued, ManualFifo, RequestsOrdered, Scheduled

\* The head leaves the queue.
LEMMA QueueTail ==
  ASSUME QueueInd, QueueTypes', queue # <<>>, queue' = Tail(queue), requested' = requested,
         loop.reqs' = loop.reqs, run_requests' = run_requests
  PROVE  QueueInd'
PROOF
<1>1. queue \in Seq(Items) /\ Len(queue) \in Nat /\ DOMAIN queue = 1..Len(queue)
  BY LenProperties DEF QueueInd, QueueTypes, QueueOK
<1>2. /\ queue' \in Seq(Items) /\ Len(queue') = Len(queue) - 1 /\ DOMAIN queue' = 1..(Len(queue) - 1)
      /\ \A i \in 1..(Len(queue) - 1) : queue'[i] = queue[i + 1] /\ i + 1 \in DOMAIN queue
  BY <1>1, HeadTailProperties, LenProperties
<1>3. WithinCap'
  BY <1>1, <1>2, CapAssumption DEF QueueInd, QueueInv, WithinCap
<1>4. ManualFirst' /\ ManualFifo'
  BY SMTT(30), <1>1, <1>2 DEF QueueInd, QueueInv, ManualFirst, ManualFifo, Scheduled
<1>5. OneOccurrenceQueued'
  BY <1>1, <1>2 DEF QueueInd, QueueInv, OneOccurrenceQueued, Scheduled
<1>6. RequestsOrdered'
  BY <1>1, <1>2 DEF QueueInd, RequestsOrdered, Scheduled
<1> QED BY <1>3, <1>4, <1>5, <1>6 DEF QueueInd, QueueInv

\* An occurrence joins the queue at the end, a request before the occurrences.
LEMMA AdmitOccurrenceQueue == QueueInd /\ AdmitOccurrence => QueueInd'
PROOF
<1> SUFFICES ASSUME QueueInd, AdmitOccurrence PROVE QueueInd'
  OBVIOUS
<1>1. PICK occ \in loop.work :
        /\ ~Misses(loop.program, occ)
        /\ queue' = Append(queue, Item(loop.program, occ, 0, <<>>))
        /\ loop' = Examined(occ)
  BY DEF AdmitOccurrence
<1> DEFINE item == Item(loop.program, occ, 0, <<>>)
<1>2. item \in Items /\ item.program = loop.program /\ item.at = occ /\ Scheduled(item)
  BY <1>1 DEF QueueInd, QueueTypes, QueueOK, Loops, Items, Item, Times, Scheduled, None
<1> HIDE DEF item
<1>3. queue \in Seq(Items) /\ Len(queue) \in Nat /\ DOMAIN queue = 1..Len(queue)
  BY LenProperties DEF QueueInd, QueueTypes, QueueOK
<1>4. /\ queue' \in Seq(Items) /\ DOMAIN queue' = 1..(Len(queue) + 1) /\ Len(queue') = Len(queue) + 1
      /\ \A i \in 1..Len(queue) : queue'[i] = queue[i]
      /\ queue'[Len(queue) + 1] = item
  BY <1>1, <1>2, <1>3, AppendProperties, LenProperties DEF item
<1>5. /\ loop' \in Loops /\ loop'.reqs = loop.reqs
      /\ UNCHANGED <<run_requests, config, programs, now, requested>>
  BY <1>1 DEF AdmitOccurrence, EvaluateUnchanged, LoopUnchanged, Examined, QueueInd, QueueTypes, QueueOK,
              Loops, LoopPcs
<1>6. QueueTypes'
  BY <1>4, <1>5 DEF QueueInd, QueueTypes, ConfigOK, QueueOK, config
<1>7. Len(queue) < QueueCap /\ \A i \in DOMAIN queue : Scheduled(queue[i]) => queue[i].program # loop.program
  BY <1>1, <1>3, CapAssumption DEF Misses, QueuedOccurrence
<1>8. WithinCap'
  BY <1>3, <1>4, <1>7, CapAssumption DEF WithinCap
<1>9. ManualFirst' /\ ManualFifo'
  BY <1>2, <1>3, <1>4 DEF QueueInd, QueueInv, ManualFirst, ManualFifo, Scheduled
<1>10. OneOccurrenceQueued'
  BY <1>2, <1>3, <1>4, <1>7 DEF QueueInd, QueueInv, OneOccurrenceQueued, Scheduled
<1>11. RequestsOrdered'
  BY <1>2, <1>3, <1>4, <1>5 DEF QueueInd, RequestsOrdered, Scheduled
<1> QED BY <1>6, <1>8, <1>9, <1>10, <1>11 DEF QueueInd, QueueInv

\* Admitting the oldest claimed request keeps the queue's order and cap.
LEMMA AdmitRequestQueue ==
  ASSUME NEW req \in loop.reqs PROVE QueueInd /\ AdmitRequest(req) => QueueInd'
PROOF
<1> SUFFICES ASSUME QueueInd, AdmitRequest(req) PROVE QueueInd'
  OBVIOUS
<1>1. queue \in Seq(Items) /\ Len(queue) \in Nat /\ DOMAIN queue = 1..Len(queue)
  BY LenProperties DEF QueueInd, QueueTypes, QueueOK
<1>2. PICK i \in 1..(Len(queue) + 1) : FirstScheduled(queue, i) /\ queue' = InsertAt(queue, i, req)
  BY DEF AdmitRequest
<1>3. /\ req \in Items /\ req.at = None /\ ~Scheduled(req) /\ req.req <= requested
      /\ \A r \in loop.reqs : r.req = req.req => r = req
      /\ \A r \in loop.reqs : req.req <= r.req
      /\ \A r \in run_requests : req.req < r.req
      /\ \A j \in DOMAIN queue : ~Scheduled(queue[j]) => queue[j].req < req.req
  BY DEF QueueInd, QueueTypes, QueueOK, Loops, RequestsOrdered, Scheduled, AdmitRequest, Oldest
<1>4. /\ queue' \in Seq(Items) /\ Len(queue') = Len(queue) + 1 /\ DOMAIN queue' = 1..(Len(queue) + 1)
      /\ \A j \in 1..(Len(queue) + 1) :
           queue'[j] = IF j < i THEN queue[j] ELSE IF j = i THEN req ELSE queue[j - 1]
  <2>1. req \in Items /\ queue' = InsertAt(queue, i, req)
    BY <1>2, <1>3
  <2>2. queue' \in Seq(Items) /\ Len(queue') = Len(queue) + 1 /\ DOMAIN queue' = 1..(Len(queue) + 1)
    BY <1>1, <2>1, Inserted
  <2>3. queue' = [j \in 1..(Len(queue) + 1) |-> IF j < i THEN queue[j] ELSE IF j = i THEN req ELSE queue[j - 1]]
    BY <1>1, <2>1, InsertAtProperties
  <2> QED BY <2>2, <2>3
<1>5. /\ \A j \in 1..Len(queue) : j < i => ~Scheduled(queue[j])
      /\ \A j \in 1..Len(queue) : j >= i => Scheduled(queue[j])
  <2>1. (\A j \in 1..(i - 1) : ~Scheduled(queue[j])) /\ (i <= Len(queue) => Scheduled(queue[i]))
    BY <1>2 DEF FirstScheduled
  <2> QED BY <1>1, <2>1 DEF QueueInd, QueueInv, ManualFirst
<1>6. /\ loop' \in Loops /\ loop'.reqs = loop.reqs \ {req} /\ Len(queue) < QueueCap
      /\ UNCHANGED <<run_requests, config, programs, now, requested>>
  BY DEF AdmitRequest, AdmitUnchanged, LoopUnchanged, Handled, QueueInd, QueueTypes, QueueOK, Loops, LoopPcs
<1>7. QueueTypes'
  BY <1>4, <1>6 DEF QueueInd, QueueTypes, ConfigOK, QueueOK, config
<1>8. WithinCap'
  BY <1>1, <1>4, <1>6, CapAssumption DEF WithinCap
<1>9. ManualFirst'
  BY <1>1, <1>3, <1>4, <1>5 DEF ManualFirst, Scheduled
<1>10. OneOccurrenceQueued'
  <2> DEFINE old(j) == IF j < i THEN j ELSE j - 1
  <2>1. ASSUME NEW j \in DOMAIN queue', Scheduled(queue'[j])
        PROVE  j # i /\ old(j) \in DOMAIN queue /\ queue'[j] = queue[old(j)]
    BY <1>1, <1>3, <1>4, <2>1
  <2>2. \A j, k \in DOMAIN queue' : j # i /\ k # i /\ old(j) = old(k) => j = k
    BY <1>1, <1>4
  <2> HIDE DEF old
  <2> QED BY <2>1, <2>2 DEF QueueInd, QueueInv, OneOccurrenceQueued, Scheduled
<1>11. ManualFifo'
  BY <1>1, <1>3, <1>4, <1>5 DEF QueueInd, QueueInv, ManualFifo, Scheduled
<1>12. RequestsOrdered'
  <2>1. \A r \in loop.reqs : r # req => req.req < r.req
    BY <1>3 DEF QueueInd, QueueTypes, QueueOK, Loops, Items
  <2>2. \A r \in loop'.reqs \cup run_requests : req.req < r.req
    BY <1>3, <1>6, <2>1
  <2>3. \A j \in DOMAIN queue' : ~Scheduled(queue'[j]) =>
          \/ queue'[j] = req
          \/ \E k \in DOMAIN queue : queue'[j] = queue[k] /\ ~Scheduled(queue[k])
    <3>1. ASSUME NEW j \in DOMAIN queue', j # i
          PROVE  \E k \in DOMAIN queue : queue'[j] = queue[k]
      <4>1. CASE j < i
        BY <1>1, <1>4, <4>1
      <4>2. CASE j > i
        <5>1. j - 1 \in DOMAIN queue /\ queue'[j] = queue[j - 1]
          BY <1>1, <1>4, <4>2
        <5> QED BY <5>1
      <4> QED BY <1>1, <1>4, <3>1, <4>1, <4>2
    <3>2. queue'[i] = req
      BY <1>1, <1>4
    <3> QED BY <3>1, <3>2
  <2>4. loop'.reqs \subseteq loop.reqs /\ run_requests' = run_requests /\ requested' = requested
    BY <1>6
  <2>5. \A j \in DOMAIN queue' : ~Scheduled(queue'[j]) =>
          queue'[j].req <= requested' /\ \A r \in loop'.reqs \cup run_requests' : queue'[j].req < r.req
    BY <1>3, <2>2, <2>3, <2>4 DEF QueueInd, RequestsOrdered
  <2> QED BY <2>4, <2>5 DEF QueueInd, RequestsOrdered, Scheduled
<1> QED BY <1>7, <1>8, <1>9, <1>10, <1>11, <1>12 DEF QueueInd, QueueInv

\* A step of the loop that admits nothing.
LEMMA LoopStepQueue ==
  ASSUME QueueInd, loop' \in Loops, loop'.reqs \subseteq loop.reqs, run_requests' \subseteq run_requests,
         UNCHANGED <<queue, programs, now, requested>>, ConfigOK'
  PROVE  QueueInd'
PROOF
<1>1. QueueTypes'
  BY DEF QueueInd, QueueTypes, QueueOK
<1> QED BY <1>1, QueueShrink

\* The tick's steps that move no request: orphans and refresh.
LEMMA TickQueue ==
  ASSUME QueueInd,
         \/ TickBegins \/ FinalizeOrphans \/ FinalizeFails \/ FetchPrograms \/ FetchSteps \/ ReadRunKeys
         \/ RefreshFails \/ RefreshDone
  PROVE  QueueInd'
PROOF
<1> USE DEF QueueInd, QueueTypes, ConfigOK, QueueOK
<1>1. /\ \A n \in Nat : [loop EXCEPT !.now = n] \in Loops /\ [loop EXCEPT !.now = n].reqs = loop.reqs
      /\ \A l \in Loops : \A b \in BOOLEAN : Evaluating(l, b) \in Loops /\ Evaluating(l, b).reqs = l.reqs
      /\ \A l \in Loops : Refreshing(l) \in Loops /\ Refreshing(l).reqs = l.reqs
      /\ \A l \in Loops : \A pc \in LoopPcs : [l EXCEPT !.pc = pc] \in Loops /\ [l EXCEPT !.pc = pc].reqs = l.reqs
  <2>1. \A l \in Loops : \A pc \in LoopPcs : [l EXCEPT !.pc = pc] \in Loops /\ [l EXCEPT !.pc = pc].reqs = l.reqs
    BY DEF Loops
  <2>2. \A n \in Nat : [loop EXCEPT !.now = n] \in Loops /\ [loop EXCEPT !.now = n].reqs = loop.reqs
    BY DEF Loops
  <2>3. \A l \in Loops : \A b \in BOOLEAN : Evaluating(l, b) \in Loops /\ Evaluating(l, b).reqs = l.reqs
    BY DEF Evaluating, Loops, LoopPcs
  <2>4. \A l \in Loops : Refreshing(l) \in Loops /\ Refreshing(l).reqs = l.reqs
    <3> SUFFICES ASSUME NEW l \in Loops PROVE Refreshing(l) \in Loops /\ Refreshing(l).reqs = l.reqs
      OBVIOUS
    <3>1. Refreshing(l) = [l EXCEPT !.pc = "fetch_programs"] \/ Refreshing(l) = Evaluating(l, ready)
      BY DEF Refreshing
    <3>2. "fetch_programs" \in LoopPcs /\ ready \in BOOLEAN
      BY DEF LoopPcs
    <3> QED BY ZenonT(60), <2>1, <2>3, <3>1, <3>2
  <2> QED BY <2>1, <2>2, <2>3, <2>4
<1>2. /\ loop \in Loops /\ now \in Nat /\ ready \in BOOLEAN
      /\ {"finalize", "wait", "run_keys", "claim"} \subseteq LoopPcs
  BY DEF LoopPcs
<1>3. CASE TickBegins
  <2>1. PICK l \in Loops : l.reqs = loop.reqs /\ (loop' = Refreshing(l) \/ loop' = [l EXCEPT !.pc = "finalize"])
    BY <1>1, <1>2, <1>3 DEF TickBegins
  <2>2. "finalize" \in LoopPcs
    BY <1>2
  <2>3. loop' \in Loops /\ loop'.reqs = loop.reqs
    <3>1. CASE loop' = Refreshing(l)
      <4>1. Refreshing(l) \in Loops /\ Refreshing(l).reqs = l.reqs
        BY <1>1
      <4> QED BY <2>1, <3>1, <4>1
    <3>2. CASE loop' = [l EXCEPT !.pc = "finalize"]
      BY <1>1, <2>1, <2>2, <3>2
    <3> QED BY <2>1, <3>1, <3>2
  <2> QED BY <1>3, <2>3, LoopStepQueue DEF TickBegins, config
<1>4. CASE FinalizeOrphans
  BY <1>1, <1>2, <1>4, LoopStepQueue DEF FinalizeOrphans, LoopUnchanged
<1>5. CASE FinalizeFails
  BY <1>1, <1>2, <1>5, LoopStepQueue DEF FinalizeFails, LoopUnchanged, config
<1>6. CASE FetchPrograms
  <2>1. loop' = [loop EXCEPT !.pc = "fetch_steps", !.rows = programs]
    BY <1>6 DEF FetchPrograms
  <2>2. loop' \in Loops /\ loop'.reqs = loop.reqs
    BY <1>2, <2>1 DEF Loops, LoopPcs
  <2> QED BY <1>6, <2>2, LoopStepQueue DEF FetchPrograms, LoopUnchanged, config
<1>10. CASE FetchSteps
  <2>1. ASSUME NEW p \in Programs PROVE Fetched(p) \in Versions
    <3>1. loop.rows[p] \in Versions /\ programs[p].steps \in Seq(Zones) /\ <<>> \in Seq(Zones)
      BY <1>2 DEF Loops, Versions
    <3> QED BY <3>1 DEF Fetched, Versions
  <2>2. loop' = [loop EXCEPT !.pc = "run_keys", !.rows = InitialPrograms]
    BY <1>10 DEF FetchSteps
  <2>3. loop' \in Loops /\ loop'.reqs = loop.reqs
    BY <1>2, <2>2, DataAssumption DEF Loops, LoopPcs
  <2>4. cache' \in [Programs -> Versions]
    BY <1>10, <2>1 DEF FetchSteps
  <2> QED BY <1>10, <2>3, <2>4, LoopStepQueue DEF FetchSteps, LoopUnchanged
<1>7. CASE ReadRunKeys
  BY <1>1, <1>2, <1>7, LoopStepQueue DEF ReadRunKeys, LoopUnchanged, config
<1>8. CASE RefreshFails
  <2>1. PICK l \in Loops : l.reqs = loop.reqs /\ loop' = Evaluating(l, ready)
    <3> DEFINE l == [loop EXCEPT !.rows = InitialPrograms]
    <3>1. l \in Loops /\ l.reqs = loop.reqs
      BY <1>2, DataAssumption DEF Loops
    <3>2. loop' = Evaluating(l, ready)
      BY <1>8 DEF RefreshFails
    <3> HIDE DEF l
    <3> QED BY <3>1, <3>2
  <2>2. loop' \in Loops /\ loop'.reqs = loop.reqs
    BY <1>1, <1>2, <2>1
  <2> QED BY <1>8, <2>2, LoopStepQueue DEF RefreshFails, LoopUnchanged, config
<1>9. CASE RefreshDone
  BY <1>1, <1>2, <1>9, LoopStepQueue DEF RefreshDone, LoopUnchanged, Loops, Times
<1> QED BY <1>3, <1>4, <1>5, <1>6, <1>10, <1>7, <1>8, <1>9

\* The claimed requests were the table's: all older than the next one.
LEMMA ClaimQueue == ASSUME QueueInd, ClaimRequests PROVE QueueInd'
PROOF
<1>1. /\ loop' = [loop EXCEPT !.pc = "admit", !.reqs = run_requests] /\ run_requests' = {}
      /\ UNCHANGED <<queue, config, programs, now, requested>>
  BY DEF ClaimRequests, LoopUnchanged
<1>2. loop' \in Loops /\ loop'.reqs = run_requests
  BY <1>1 DEF QueueInd, QueueTypes, QueueOK, Loops, LoopPcs
<1>3. QueueTypes'
  BY <1>1, <1>2 DEF QueueInd, QueueTypes, QueueOK, ConfigOK, config
<1>4. QueueInv'
  BY <1>1 DEF QueueInd, QueueInv, WithinCap, ManualFirst, OneOccurrenceQueued, ManualFifo, Scheduled
<1>5. RequestsOrdered'
  BY <1>1, <1>2 DEF QueueInd, RequestsOrdered, Scheduled
<1> QED BY <1>3, <1>4, <1>5 DEF QueueInd

\* Every way a claimed request is dealt with.
LEMMA AdmitQueue ==
  ASSUME QueueInd, AdmitStep \/ RequestsAdmitted
  PROVE  QueueInd'
PROOF
<1>1. /\ loop \in Loops
      /\ \A req \in loop.reqs : Handled(req) \in Loops /\ Handled(req).reqs \subseteq loop.reqs
      /\ \A pc \in LoopPcs : [loop EXCEPT !.pc = pc] \in Loops /\ [loop EXCEPT !.pc = pc].reqs = loop.reqs
      /\ {"insert_request_missed", "weather_settings"} \subseteq LoopPcs
  BY DEF QueueInd, QueueTypes, QueueOK, Handled, Loops, LoopPcs
<1>2. ASSUME NEW req \in loop.reqs, IgnoreRequest(req) \/ OverflowRequest(req) \/ InsertRequestMissed(req)
      PROVE  QueueInd'
  <2>1. loop' = Handled(req) \/ loop' = [loop EXCEPT !.pc = "insert_request_missed"]
    BY <1>2 DEF IgnoreRequest, OverflowRequest, InsertRequestMissed
  <2>2. UNCHANGED <<queue, run_requests, config, programs, now, requested>>
    BY <1>2 DEF IgnoreRequest, OverflowRequest, InsertRequestMissed, AdmitUnchanged, LoopUnchanged
  <2>3. ConfigOK'
    BY <2>2 DEF QueueInd, QueueTypes, ConfigOK, config
  <2> QED BY <1>1, <2>1, <2>2, <2>3, LoopStepQueue
<1>3. CASE RequestsAdmitted
  <2>1. UNCHANGED <<queue, run_requests, config, programs, now, requested>>
    BY <1>3 DEF RequestsAdmitted, AdmitUnchanged, LoopUnchanged
  <2>2. ConfigOK'
    BY <2>1 DEF QueueInd, QueueTypes, ConfigOK, config
  <2> QED BY <1>1, <1>3, <2>1, <2>2, LoopStepQueue DEF RequestsAdmitted
<1> QED BY <1>2, <1>3, AdmitRequestQueue DEF AdmitStep

\* Evaluating occurrences appends one per program at most, and below the cap.
LEMMA EvaluateQueue ==
  ASSUME QueueInd,
         EvaluateProgram \/ SkipOccurrence \/ MissOccurrence \/ AdmitOccurrence \/ InsertMissed \/ EvaluateDone
  PROVE  QueueInd'
PROOF
<1>1. loop \in Loops /\ cache \in [Programs -> Versions]
  BY DEF QueueInd, QueueTypes, QueueOK, ConfigOK
<1>2. CASE EvaluateProgram \/ SkipOccurrence \/ MissOccurrence \/ InsertMissed \/ EvaluateDone
  <2>1. UNCHANGED <<queue, run_requests, config, programs, now, requested>>
    BY <1>2 DEF EvaluateProgram, SkipOccurrence, MissOccurrence, InsertMissed, EvaluateDone, EvaluateUnchanged,
                LoopUnchanged
  <2>2. ConfigOK'
    BY <2>1 DEF QueueInd, QueueTypes, ConfigOK, config
  <2>3. loop' \in Loops /\ loop'.reqs = loop.reqs
    <3>1. \A occ \in loop.work : Examined(occ) \in Loops /\ Examined(occ).reqs = loop.reqs
      BY <1>1 DEF Examined, Loops, LoopPcs
    <3>2. CASE EvaluateProgram
      <4>1. PICK p \in loop.todo :
              loop' = [loop EXCEPT !.todo = @ \ {p}, !.program = p,
                                   !.work = Occurrences(p, loop.now - Lookback, loop.now)]
        BY <3>2 DEF EvaluateProgram
      <4>2. p \in Programs
        BY <1>1 DEF Loops
      <4>3. Occurrences(p, loop.now - Lookback, loop.now) \subseteq Nat
        BY <1>1, <4>2 DEF Occurrences, Versions
      <4> DEFINE work == Occurrences(p, loop.now - Lookback, loop.now)
      <4> HIDE DEF work
      <4> QED BY <1>1, <4>1, <4>2, <4>3 DEF Loops, work
    <3>3. CASE SkipOccurrence
      BY <3>1, <3>3 DEF SkipOccurrence
    <3>4. CASE MissOccurrence
      BY <1>1, <3>4 DEF MissOccurrence, Loops, LoopPcs
    <3>5. CASE InsertMissed
      BY <3>1, <3>5 DEF InsertMissed
    <3>6. CASE EvaluateDone
      BY <1>1, <3>6 DEF EvaluateDone, Loops, LoopPcs
    <3> QED BY <1>2, <3>2, <3>3, <3>4, <3>5, <3>6
  <2> QED BY <2>1, <2>2, <2>3, LoopStepQueue
<1> QED BY <1>2, AdmitOccurrenceQueue

\* The pump only takes the head away.
LEMMA PumpQueue == ASSUME QueueInd, PumpIdle \/ PumpDrops \/ PumpStarts PROVE QueueInd'
PROOF
<1>1. TickEnds \in Loops /\ TickEnds.reqs = loop.reqs
  BY DEF QueueInd, QueueTypes, QueueOK, TickEnds, Loops, LoopPcs
<1>2. UNCHANGED <<run_requests, config, programs, now, requested>>
  BY DEF PumpIdle, PumpDrops, PumpStarts, PumpUnchanged, db, env
<1>3. loop' \in Loops /\ loop'.reqs = loop.reqs
  BY <1>1 DEF PumpIdle, PumpDrops, PumpStarts, QueueInd, QueueTypes, QueueOK
<1>4. ConfigOK'
  BY <1>2 DEF QueueInd, QueueTypes, ConfigOK, config
<1>5. CASE PumpIdle
  BY <1>2, <1>3, <1>4, <1>5, LoopStepQueue DEF PumpIdle
<1>6. CASE PumpDrops \/ PumpStarts
  <2>1. queue # <<>> /\ queue' = Tail(queue)
    BY <1>6 DEF PumpDrops, PumpStarts
  <2>2. queue' \in Seq(Items)
    BY <2>1, HeadTailProperties DEF QueueInd, QueueTypes, QueueOK
  <2>3. QueueTypes'
    BY <1>2, <1>3, <1>4, <2>2 DEF QueueInd, QueueTypes, QueueOK
  <2> QED BY <1>2, <1>3, <2>1, <2>3, QueueTail
<1> QED BY <1>5, <1>6

\* The queue is emptied: by a stop-all, or because the process ended.
LEMMA EmptyQueue ==
  ASSUME QueueInd, QueueTypes', queue' = <<>>, requested' = requested,
         loop'.reqs \subseteq loop.reqs, run_requests' \subseteq run_requests
  PROVE  QueueInd'
PROOF
<1>1. DOMAIN queue' = {} /\ Len(queue') = 0
  OBVIOUS
<1> QED BY <1>1, CapAssumption DEF QueueInd, QueueInv, WithinCap, ManualFirst, OneOccurrenceQueued, ManualFifo,
                                   RequestsOrdered, Scheduled

\* What the executor knows when it boots.
LEMMA BootTypes ==
  /\ IdleLoop \in Loops /\ IdleLoop.reqs = {}
  /\ [IdleLoop EXCEPT !.pc = "stopped"] \in Loops /\ [IdleLoop EXCEPT !.pc = "stopped"].reqs = {}
  /\ [p \in Programs |-> [InitialPrograms[p] EXCEPT !.state = "unborn"]] \in [Programs -> Versions]
PROOF
<1>1. ASSUME NEW p \in Programs PROVE [InitialPrograms[p] EXCEPT !.state = "unborn"] \in Versions
  <2>1. InitialPrograms[p] \in Versions
    BY DataAssumption
  <2> QED BY <2>1 DEF Versions
<1> QED BY <1>1, DataAssumption DEF IdleLoop, Loops, LoopPcs

\* A restart empties the queue; unclaimed requests stay in order.
LEMMA RestartQueue == ASSUME QueueInd, Restart PROVE QueueInd'
PROOF
<1>1. /\ loop' = IdleLoop /\ queue' = <<>> /\ UNCHANGED <<programs, run_requests, now, requested>>
      /\ cache' = [p \in Programs |-> [InitialPrograms[p] EXCEPT !.state = "unborn"]]
      /\ ready' = FALSE /\ orphans_finalized' = FALSE /\ refresh_needed' = TRUE /\ last_refresh' = None
  BY DEF Restart, db
<1>2. ConfigOK'
  BY <1>1, BootTypes DEF QueueInd, QueueTypes, ConfigOK, Times
<1>3. QueueTypes'
  BY <1>1, <1>2, BootTypes DEF QueueInd, QueueTypes, QueueOK
<1> QED BY <1>1, <1>3, BootTypes, EmptyQueue

\* Stop-all empties the queue; the other calls leave it alone.
LEMMA CallQueue == ASSUME QueueInd, NEW c \in Calls, CallStep(c) PROVE QueueInd'
PROOF
<1>1. CASE CancelActive(c) \/ ItemCleared(c) \/ ManualHolds(c) \/ Command(c)
  BY <1>1, QueueFrame DEF CancelActive, ItemCleared, ManualHolds, Command, CallUnchanged, queueVars
<1>2. CASE StopClears(c)
  <2>1. queue' = <<>> /\ UNCHANGED <<programs, run_requests, config, loop, now, requested>>
    BY <1>2 DEF StopClears, CallUnchanged
  <2>2. QueueTypes'
    BY <2>1 DEF QueueInd, QueueTypes, ConfigOK, QueueOK, config
  <2> QED BY <2>1, <2>2, EmptyQueue
<1>3. CASE ShutdownBegins(c)
  <2>1. /\ loop' = [IdleLoop EXCEPT !.pc = "stopped"]
        /\ UNCHANGED <<queue, programs, run_requests, config, now, requested>>
    BY <1>3 DEF ShutdownBegins, db, env
  <2>2. ConfigOK'
    BY <2>1 DEF QueueInd, QueueTypes, ConfigOK, config
  <2> QED BY <2>1, <2>2, BootTypes, LoopStepQueue
<1>4. CASE ShutdownEnds(c)
  BY <1>4, RestartQueue DEF ShutdownEnds
<1> QED BY <1>1, <1>2, <1>3, <1>4 DEF CallStep

\* An edit of programs changes nothing the executor has read.
LEMMA EditQueue ==
  ASSUME QueueInd, NEW p \in Programs, NEW version \in Versions, Edit(p, version),
         run_requests' \subseteq run_requests
  PROVE  QueueInd'
PROOF
<1>1. /\ programs' = [programs EXCEPT ![p] = version]
      /\ UNCHANGED <<queue, loop, config, now, requested>>
  BY DEF Edit, WebUnchanged
<1>2. ConfigOK'
  BY <1>1 DEF QueueInd, QueueTypes, ConfigOK, config
<1>3. QueueTypes'
  BY <1>1, <1>2 DEF QueueInd, QueueTypes, QueueOK
<1> QED BY <1>1, <1>3, QueueShrink

\* A new request is younger than every other.
LEMMA RequestQueue ==
  ASSUME QueueInd, NEW p \in Programs \cup {NoProgram}, NEW steps \in Seq(Zones), Request(p, steps)
  PROVE  QueueInd'
PROOF
<1> DEFINE req == Item(p, None, requested + 1, steps)
<1>1. requested \in Nat /\ req \in Items /\ req.at = None /\ req.req = requested + 1
  BY DEF QueueInd, QueueTypes, Item, Items, Times
<1>2. /\ run_requests' = run_requests \cup {req} /\ requested' = requested + 1
      /\ UNCHANGED <<queue, loop, config, programs, now>>
  BY DEF Request, WebUnchanged
<1> HIDE DEF req
<1>3. QueueTypes'
  BY <1>1, <1>2 DEF QueueInd, QueueTypes, ConfigOK, QueueOK, config
<1>4. QueueInv'
  BY <1>2 DEF QueueInd, QueueInv, WithinCap, ManualFirst, OneOccurrenceQueued, ManualFifo, Scheduled
<1>5. /\ \A r \in loop.reqs \cup run_requests : r.req \in Nat /\ r.req < req.req
      /\ \A i \in DOMAIN queue : ~Scheduled(queue[i]) => queue[i].req \in Nat /\ queue[i].req < req.req
  <2>1. \A r \in loop.reqs \cup run_requests : r.req \in Nat /\ r.req <= requested
    BY DEF QueueInd, QueueTypes, QueueOK, RequestsOrdered, Loops, Items
  <2>2. \A i \in DOMAIN queue : ~Scheduled(queue[i]) => queue[i].req \in Nat /\ queue[i].req <= requested
    <3>1. \A i \in DOMAIN queue : queue[i] \in Items
      BY LenProperties, ElementOfSeq DEF QueueInd, QueueTypes, QueueOK
    <3> QED BY <3>1 DEF QueueInd, RequestsOrdered, Items
  <2> QED BY <1>1, <2>1, <2>2
<1>6. RequestsOrdered'
  <2>1. \A r \in (loop.reqs \cup run_requests)' : r.at = None /\ r.req <= requested'
    BY <1>1, <1>2, <1>5 DEF QueueInd, RequestsOrdered
  <2>2. /\ \A r, q \in loop'.reqs : r.req = q.req => r = q
        /\ \A r, q \in run_requests' : r.req = q.req => r = q
    BY <1>1, <1>2, <1>5 DEF QueueInd, RequestsOrdered
  <2>3. \A r \in loop'.reqs, q \in run_requests' : r.req < q.req
    BY <1>1, <1>2, <1>5 DEF QueueInd, RequestsOrdered
  <2>4. \A i \in DOMAIN queue' : ~Scheduled(queue'[i]) =>
          /\ queue'[i].req <= requested'
          /\ \A r \in loop'.reqs \cup run_requests' : queue'[i].req < r.req
    BY <1>1, <1>2, <1>5 DEF QueueInd, RequestsOrdered
  <2> QED BY <2>1, <2>2, <2>3, <2>4 DEF RequestsOrdered, Scheduled
<1> QED BY <1>3, <1>4, <1>6 DEF QueueInd

\* A new request is younger than all others; deleting a program only removes some.
LEMMA WebQueue == ASSUME QueueInd, WebStep PROVE QueueInd'
PROOF
<1>1. programs \in [Programs -> Versions] /\ now \in Nat
  BY DEF QueueInd, QueueTypes, ConfigOK
<1>2. ASSUME NEW p \in Programs, SaveProgram(p) PROVE QueueInd'
  <2>1. PICK input \in ProgramInputs :
          Edit(p, [state |-> "live", updated_at |-> now, enabled |-> input.enabled,
                   times |-> input.times, respect |-> input.respect, steps |-> input.steps])
    BY <1>2 DEF SaveProgram
  <2>2. input \in Inputs
    BY DataAssumption
  <2>3. [state |-> "live", updated_at |-> now, enabled |-> input.enabled,
         times |-> input.times, respect |-> input.respect, steps |-> input.steps] \in Versions
    BY <1>1, <2>2 DEF Inputs, Versions, Times
  <2> QED BY <1>2, <2>1, <2>3, EditQueue DEF SaveProgram
<1>3. ASSUME NEW p \in Programs, ToggleProgram(p) PROVE QueueInd'
  <2>1. [programs[p] EXCEPT !.enabled = ~@, !.updated_at = now] \in Versions
    BY <1>1 DEF Versions, Times
  <2> QED BY <1>3, <2>1, EditQueue DEF ToggleProgram
<1>4. ASSUME NEW p \in Programs, DeleteProgram(p) PROVE QueueInd'
  <2>1. [programs[p] EXCEPT !.state = "deleted"] \in Versions
    BY <1>1 DEF Versions
  <2> QED BY <1>4, <2>1, EditQueue DEF DeleteProgram
<1>5. ASSUME NEW p \in Programs, RunNow(p) PROVE QueueInd'
  <2>1. <<>> \in Seq(Zones)
    OBVIOUS
  <2> QED BY <1>5, <2>1, RequestQueue DEF RunNow
<1>6. CASE QuickRun
  <2>1. PICK steps \in QuickPayloads : Request(NoProgram, steps)
    BY <1>6 DEF QuickRun
  <2>2. steps \in Seq(Zones)
    BY DataAssumption
  <2> QED BY <2>1, <2>2, RequestQueue
<1>7. ASSUME NEW z \in Zones, ToggleZone(z) PROVE QueueInd'
  BY <1>7, QueueFrame DEF ToggleZone, WebUnchanged, queueVars
<1> QED BY <1>2, <1>3, <1>4, <1>5, <1>6, <1>7 DEF WebStep

\* The queue starts empty.
LEMMA InitQueue == Init => QueueInd
PROOF
<1> SUFFICES ASSUME Init PROVE QueueInd
  OBVIOUS
<1>1. /\ loop = IdleLoop /\ queue = <<>> /\ run_requests = {} /\ now = 0 /\ requested = 0
      /\ programs = InitialPrograms /\ ready = FALSE /\ orphans_finalized = FALSE
      /\ cache = [p \in Programs |-> [InitialPrograms[p] EXCEPT !.state = "unborn"]]
      /\ refresh_needed = TRUE /\ last_refresh = None
  BY DEF Init
<1>2. QueueTypes
  <2>1. programs \in [Programs -> Versions] /\ cache \in [Programs -> Versions] /\ loop \in Loops
    BY <1>1, BootTypes, DataAssumption
  <2>2. last_refresh \in Times /\ queue \in Seq(Items) /\ run_requests \subseteq Items
    BY <1>1 DEF Times
  <2> QED BY <1>1, <2>1, <2>2 DEF QueueTypes, ConfigOK, QueueOK
<1>3. DOMAIN queue = {} /\ Len(queue) = 0 /\ loop.reqs = {}
  BY <1>1, BootTypes
<1>4. QueueInv /\ RequestsOrdered
  BY <1>1, <1>3, CapAssumption DEF QueueInv, WithinCap, ManualFirst, OneOccurrenceQueued, ManualFifo,
                                   RequestsOrdered
<1> QED BY <1>2, <1>4 DEF QueueInd

\* QueueInd is inductive.
LEMMA NextQueue == QueueInd /\ [Next]_vars => QueueInd'
PROOF
<1> SUFFICES ASSUME QueueInd, [Next]_vars PROVE QueueInd'
  OBVIOUS
<1>1. CASE UNCHANGED vars
  BY <1>1, QueueFrame DEF vars, db, env, queueVars, config
<1>2. CASE ClockTick
  <2>1. /\ now' = now + 1 /\ now \in Nat
        /\ UNCHANGED <<run_requests, queue, loop, config, programs, requested>>
    BY <1>2 DEF ClockTick, db, QueueInd, QueueTypes
  <2>2. QueueTypes'
    BY <2>1 DEF QueueInd, QueueTypes, ConfigOK, QueueOK, config
  <2> QED BY <2>1, <2>2, QueueShrink
<1>3. CASE Notify
  <2>1. /\ UNCHANGED <<run_requests, queue, loop, cache, ready, orphans_finalized, last_refresh, programs,
                       now, requested>>
        /\ refresh_needed' \in BOOLEAN
    BY <1>3 DEF Notify, db, QueueInd, QueueTypes, ConfigOK
  <2>2. QueueTypes'
    BY <2>1 DEF QueueInd, QueueTypes, ConfigOK, QueueOK
  <2> QED BY <2>1, <2>2, QueueShrink
<1>4. CASE LoopStep
  BY <1>4, TickQueue, ClaimQueue, AdmitQueue, EvaluateQueue, PumpQueue DEF LoopStep
<1>5. CASE Crash
  BY <1>5, RestartQueue DEF Crash
<1>6. ASSUME NEW t \in Slots, RunTaskStep(t) PROVE QueueInd'
  BY <1>6, RunTaskStepFrame, QueueFrame
<1>7. ASSUME NEW c \in Calls, CallStep(c) PROVE QueueInd'
  BY <1>7, CallQueue
<1>8. CASE WebStep
  BY <1>8, WebQueue
<1> QED BY <1>1, <1>2, <1>3, <1>4, <1>5, <1>6, <1>7, <1>8 DEF Next

\* The queue keeps its shape for any programs, requests, calls, crashes and
\* bounds: within its cap, run-now requests first and in the order they were
\* made, at most one occurrence of each program (_admit, _admit_run_now,
\* _admit_quick_run, _pump, _clear_queue).
THEOREM QueueSafe == Spec => []QueueInv
PROOF
<1>1. QueueInd => QueueInv
  BY DEF QueueInd
<1> QED BY InitQueue, NextQueue, <1>1, PTL DEF Spec
==============================================================================
