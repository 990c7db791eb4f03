-------------------------- MODULE WorkerPoolProofs --------------------------
(***************************************************************************)
(* Proofs about WorkerPool, for any number of files and workers, and for   *)
(* the loop as well as the pool.                                           *)
(***************************************************************************)
EXTENDS WorkerPoolProperties, FiniteSetTheorems, TLAPS

Busy(w) == worker[w].at \in {"writing", "sending"}

(* A worker is idle, has exited, or has a file of its own: one that is     *)
(* still to be written, or whose end it is going to send.                  *)
WorkersInv ==
    /\ \A w \in Workers :
          \/ worker[w] = Idle
          \/ worker[w] = Exited
          \/ /\ worker[w].at = "writing"
             /\ worker[w].file \in 1 .. taken
             /\ written[worker[w].file] = "no"
          \/ /\ worker[w].at = "sending"
             /\ worker[w].file \in 1 .. taken
             /\ worker[w].end \in Ends
             /\ written[worker[w].file] = worker[w].end
    /\ \A v, w \in Workers :
          Busy(v) /\ Busy(w) /\ worker[v].file = worker[w].file => v = w

(* A file has no more than one outcome, the end of its writing, and none   *)
(* while a worker has it; a file taken is with a worker or has an outcome. *)
OutcomesInv ==
    /\ \A i \in 1 .. Len(outcomes) :
          /\ outcomes[i].file \in 1 .. taken
          /\ written[outcomes[i].file] = outcomes[i].end
    /\ \A i, j \in 1 .. Len(outcomes) : outcomes[i].file = outcomes[j].file => i = j
    /\ \A w \in Workers : Busy(w) =>
          \A i \in 1 .. Len(outcomes) : outcomes[i].file # worker[w].file
    /\ concurrent => \A f \in 1 .. taken :
          \/ \E w \in Workers : Busy(w) /\ worker[w].file = f
          \/ \E i \in 1 .. Len(outcomes) : outcomes[i].file = f
    /\ \A f \in Files : f > taken => written[f] = "no"

(* The order in which things close. *)
ClosingInv ==
    /\ filesClosed => taken = NFiles
    /\ \A w \in Workers : worker[w] = Exited => filesClosed
    /\ outcomesClosed => \A w \in Workers : worker[w] = Exited
    /\ ~concurrent => /\ outcomes = <<>> /\ ~filesClosed
                      /\ \A w \in Workers : worker[w] = Idle
    /\ result # NoResult =>
          IF concurrent THEN outcomesClosed /\ read = Len(outcomes) ELSE taken = NFiles

(* The outcomes received so far. *)
PoolCounts ==
    /\ counted = {outcomes[i].file : i \in {j \in 1 .. read : outcomes[j].end = "ok"}}
    /\ firstErr # 0 =>
          \E i \in 1 .. read : outcomes[i].file = firstErr /\ outcomes[i].end = "failed"
    /\ \A i \in 1 .. read : outcomes[i].end = "failed" => firstErr # 0

(* The files the loop has been through. *)
LoopCounts ==
    /\ \A f \in 1 .. taken : written[f] \in Ends
    /\ counted = {f \in 1 .. taken : written[f] = "ok"}
    /\ firstErr # 0 => firstErr \in 1 .. taken /\ written[firstErr] = "failed"
    /\ \A f \in 1 .. taken : written[f] = "failed" => firstErr # 0

CountsInv == IF concurrent THEN PoolCounts ELSE LoopCounts

PoolInv == TypeOK /\ WorkersInv /\ OutcomesInv /\ ClosingInv /\ CountsInv

-----------------------------------------------------------------------------
LEMMA PoolInit == Init => PoolInv
<1>. SUFFICES ASSUME Init PROVE PoolInv
  OBVIOUS
<1>. USE WorkerPoolAssumption DEF Init
<1>1. TypeOK
  <2>1. worker \in [Workers -> [at : {"idle", "writing", "sending", "exited"},
                              file : 0 .. NFiles,
                              end : {"no", "ok", "failed"}]]
    BY DEF Idle
  <2>2. outcomes \in Seq([file : Files, end : Ends]) /\ read \in 0 .. Len(outcomes)
    OBVIOUS
  <2>3. taken \in 0 .. NFiles /\ firstErr \in 0 .. NFiles
    OBVIOUS
  <2>. QED
    BY <2>1, <2>2, <2>3 DEF TypeOK
<1>2. WorkersInv /\ OutcomesInv /\ ClosingInv
  BY DEF WorkersInv, OutcomesInv, ClosingInv, Busy, Idle, Exited, Files
<1>3. CountsInv
  BY DEF CountsInv, PoolCounts, LoopCounts
<1>. QED
  BY <1>1, <1>2, <1>3 DEF PoolInv

LEMMA ElementTyped ==
    ASSUME NEW O, NEW s \in Seq(O), NEW i \in 1 .. Len(s)
    PROVE  s[i] \in O
  OBVIOUS

LEMMA NoteTyped ==
    ASSUME TypeOK, NEW f \in Files, NEW end, Note(f, end)
    PROVE  firstErr' \in 0 .. NFiles /\ counted' \in SUBSET Files
<1>1. firstErr \in 0 .. NFiles /\ counted \in SUBSET Files /\ f \in 0 .. NFiles
  BY WorkerPoolAssumption DEF TypeOK, Files
<1>2. CASE end = "ok"
  BY <1>1, <1>2 DEF Note
<1>3. CASE end # "ok"
  BY <1>1, <1>3 DEF Note
<1>. QED
  BY <1>2, <1>3

(* The loop. *)
LEMMA LoopKeeps ==
    ASSUME PoolInv, LoopStep
    PROVE  PoolInv'
<1>. USE WorkerPoolAssumption DEF PoolInv
<1>1. ASSUME NEW end \in Ends, WriteNext(end)
      PROVE  PoolInv'
  <2>. DEFINE f == taken + 1
  <2>0. /\ ~concurrent /\ result = NoResult /\ taken \in 0 .. NFiles
        /\ f \in Files /\ taken' = f
        /\ written' = [written EXCEPT ![f] = end]
        /\ UNCHANGED <<concurrent, filesClosed, worker, outcomes, read, outcomesClosed, result>>
        /\ Note(f, end)
    BY <1>1 DEF WriteNext, MoreFiles, TypeOK, Files, channels
  <2>1. TypeOK'
    <3>1. firstErr' \in 0 .. NFiles /\ counted' \in SUBSET Files
      BY <2>0, NoteTyped
    <3>2. taken' \in 0 .. NFiles
      BY <2>0 DEF Files
    <3>3. written' \in [Files -> {"no", "ok", "failed"}]
      BY <1>1, <2>0 DEF TypeOK, Ends
    <3>. QED
      BY <2>0, <3>1, <3>2, <3>3 DEF TypeOK
  <2>2. WorkersInv' /\ OutcomesInv' /\ ClosingInv'
    BY <2>0 DEF WorkersInv, OutcomesInv, ClosingInv, Busy, TypeOK, Idle, Exited, Files
  <2>3. LoopCounts'
    <3>1. LoopCounts
      BY <2>0 DEF CountsInv
    <3>2. 1 .. taken' = (1 .. taken) \cup {f} /\ f \notin 1 .. taken
      BY <2>0
    <3>3. \A g \in 1 .. taken : written'[g] = written[g]
      BY <2>0, <3>2 DEF TypeOK, Files
    <3>4. written'[f] = end
      BY <2>0 DEF TypeOK
    <3>. HIDE DEF f
    <3>5. CASE end = "ok"
      <4>1. counted' = counted \cup {f} /\ firstErr' = firstErr
        BY <2>0, <3>5 DEF Note
      <4>. QED
        BY <3>1, <3>2, <3>3, <3>4, <3>5, <4>1 DEF LoopCounts, Ends
    <3>6. CASE end = "failed"
      <4>1. counted' = counted /\ firstErr' = (IF firstErr = 0 THEN f ELSE firstErr)
        BY <2>0, <3>6 DEF Note
      <4>2. f # 0
        BY <2>0 DEF Files, f
      <4>. QED
        BY <3>1, <3>2, <3>3, <3>4, <3>6, <4>1, <4>2 DEF LoopCounts, Ends
    <3>. QED
      BY <1>1, <3>5, <3>6 DEF Ends
  <2>. QED
    BY <2>0, <2>1, <2>2, <2>3 DEF CountsInv
<1>2. CASE LoopEnds
  <2>1. /\ ~concurrent /\ taken = NFiles
        /\ UNCHANGED <<concurrent, taken, written, firstErr, counted, filesClosed, worker,
                       outcomes, read, outcomesClosed>>
        /\ result' = [err |-> firstErr,
                      counted |-> IF firstErr = 0 THEN counted ELSE {}]
    BY <1>2 DEF LoopEnds, LoopDone, Returned, channels
  <2>2. TypeOK'
    BY <2>1 DEF TypeOK
  <2>3. WorkersInv' /\ OutcomesInv' /\ ClosingInv' /\ CountsInv'
    BY <2>1 DEF WorkersInv, OutcomesInv, ClosingInv, CountsInv, LoopCounts, Busy
  <2>. QED
    BY <2>2, <2>3
<1>. QED
  BY <1>1, <1>2 DEF LoopStep

(* The sender of the files, and the workers. *)
LEMMA TakeKeeps ==
    ASSUME PoolInv, NEW w \in Workers, TakeFile(w)
    PROVE  PoolInv'
<1>. USE WorkerPoolAssumption DEF PoolInv
<1>. DEFINE f == taken + 1
            busy == [at |-> "writing", file |-> f, end |-> "no"]
<1>0. /\ concurrent /\ taken \in 0 .. NFiles /\ worker[w] = Idle
      /\ f \in Files /\ taken' = f
      /\ worker' = [worker EXCEPT ![w] = busy]
      /\ UNCHANGED <<concurrent, filesClosed, written, outcomes, read, outcomesClosed,
                     firstErr, counted, result>>
  BY DEF TakeFile, MoreFiles, TypeOK, Files
<1>1. TypeOK'
  <2>1. busy \in [at : {"idle", "writing", "sending", "exited"},
                  file : 0 .. NFiles, end : {"no", "ok", "failed"}]
    BY <1>0 DEF Files
  <2>2. taken' \in 0 .. NFiles
    BY <1>0 DEF Files
  <2>. QED
    BY <1>0, <2>1, <2>2 DEF TypeOK
<1>2. /\ worker'[w] = busy
      /\ \A v \in Workers : v # w => worker'[v] = worker[v]
      /\ 1 .. taken' = (1 .. taken) \cup {f} /\ f \notin 1 .. taken
      /\ written[f] = "no" /\ ~Busy(w) /\ worker[w] # Exited
  BY <1>0 DEF TypeOK, OutcomesInv, Busy, Idle, Exited
<1>. HIDE DEF f
<1>3. WorkersInv'
  BY <1>0, <1>2 DEF WorkersInv, Busy, Idle, Exited
<1>4. OutcomesInv'
  <2>1. \A g \in Files : g > taken' => g > taken
    BY <1>0 DEF Files, f
  <2>. QED
    BY <1>0, <1>2, <2>1 DEF OutcomesInv, Busy, Idle, Exited
<1>5. ClosingInv'
  <2>1. ~filesClosed
    BY <1>0 DEF TakeFile, MoreFiles, ClosingInv, TypeOK
  <2>2. ~outcomesClosed
    BY <1>2 DEF ClosingInv
  <2>. QED
    BY <1>0, <1>2, <2>1, <2>2 DEF ClosingInv, Exited
<1>6. CountsInv'
  BY <1>0 DEF CountsInv, PoolCounts
<1>. QED
  BY <1>1, <1>3, <1>4, <1>5, <1>6

LEMMA WriteEndsKeeps ==
    ASSUME PoolInv, NEW w \in Workers, NEW end \in Ends, WriteEnds(w, end)
    PROVE  PoolInv'
<1>. USE WorkerPoolAssumption DEF PoolInv
<1>. DEFINE f == worker[w].file
<1>0. /\ worker[w].at = "writing" /\ f \in 1 .. taken /\ f \in Files
      /\ written[f] = "no" /\ Busy(w)
      /\ worker[w] # Idle /\ worker[w] # Exited
      /\ worker' = [worker EXCEPT ![w].at = "sending", ![w].end = end]
      /\ written' = [written EXCEPT ![f] = end]
      /\ UNCHANGED <<concurrent, taken, filesClosed, outcomes, read, outcomesClosed,
                     firstErr, counted, result>>
  BY DEF WriteEnds, WorkersInv, Idle, Exited, Busy, TypeOK, Files
<1>1. /\ worker'[w].at = "sending" /\ worker'[w].end = end /\ worker'[w].file = f
      /\ \A v \in Workers : v # w => worker'[v] = worker[v]
      /\ worker'[w] # Exited
      /\ written'[f] = end
      /\ \A g \in Files : g # f => written'[g] = written[g]
  BY <1>0 DEF TypeOK, Exited
<1>2. TypeOK'
  <2>1. worker' \in [Workers -> [at : {"idle", "writing", "sending", "exited"},
                                 file : 0 .. NFiles, end : {"no", "ok", "failed"}]]
    BY <1>0 DEF TypeOK, Ends
  <2>2. written' \in [Files -> {"no", "ok", "failed"}]
    BY <1>0 DEF TypeOK, Ends
  <2>. QED
    BY <1>0, <2>1, <2>2 DEF TypeOK
<1>3. concurrent /\ ~outcomesClosed
  BY <1>0 DEF ClosingInv
<1>. HIDE DEF f
<1>4. WorkersInv'
  <2>1. \A v \in Workers : Busy(v)' => Busy(v) /\ worker'[v].file = worker[v].file
    BY <1>0, <1>1 DEF Busy, f
  <2>2. \A v \in Workers : v # w /\ Busy(v) => worker[v].file # f
    BY <1>0 DEF WorkersInv, f
  <2>3. \A v \in Workers : Busy(v) => worker[v].file \in Files
    BY DEF WorkersInv, Busy, Idle, Exited, TypeOK, Files
  <2>4. \A u, v \in Workers :
           Busy(u)' /\ Busy(v)' /\ worker'[u].file = worker'[v].file => u = v
    BY <2>1 DEF WorkersInv
  <2>. QED
    <3>1. /\ worker'[w].file \in 1 .. taken' /\ worker'[w].end \in Ends
          /\ written'[worker'[w].file] = worker'[w].end
      BY <1>0, <1>1
    <3>2. ASSUME NEW v \in Workers, v # w, worker[v] # Idle, worker[v] # Exited
          PROVE  /\ Busy(v) /\ worker'[v] = worker[v]
                 /\ written'[worker[v].file] = written[worker[v].file]
      <4>1. Busy(v) /\ worker'[v] = worker[v]
        BY <1>1, <3>2 DEF WorkersInv, Busy
      <4>2. worker[v].file # f /\ worker[v].file \in Files
        BY <2>2, <2>3, <3>2, <4>1
      <4>. QED
        BY <1>1, <4>1, <4>2
    <3>3. \A v \in Workers :
            \/ worker'[v] = Idle
            \/ worker'[v] = Exited
            \/ /\ worker'[v].at = "writing"
               /\ worker'[v].file \in 1 .. taken'
               /\ written'[worker'[v].file] = "no"
            \/ /\ worker'[v].at = "sending"
               /\ worker'[v].file \in 1 .. taken'
               /\ worker'[v].end \in Ends
               /\ written'[worker'[v].file] = worker'[v].end
      <4>. SUFFICES ASSUME NEW v \in Workers, v # w,
                           worker[v] # Idle, worker[v] # Exited
                    PROVE  \/ /\ worker'[v].at = "writing"
                              /\ worker'[v].file \in 1 .. taken'
                              /\ written'[worker'[v].file] = "no"
                           \/ /\ worker'[v].at = "sending"
                              /\ worker'[v].file \in 1 .. taken'
                              /\ worker'[v].end \in Ends
                              /\ written'[worker'[v].file] = worker'[v].end
        BY <1>1, <3>1
      <4>1. /\ worker'[v] = worker[v]
            /\ written'[worker[v].file] = written[worker[v].file]
        BY <3>2
      <4>2. \/ /\ worker[v].at = "writing"
               /\ worker[v].file \in 1 .. taken
               /\ written[worker[v].file] = "no"
            \/ /\ worker[v].at = "sending"
               /\ worker[v].file \in 1 .. taken
               /\ worker[v].end \in Ends
               /\ written[worker[v].file] = worker[v].end
        BY DEF WorkersInv
      <4>. QED
        BY <1>0, <4>1, <4>2
    <3>. QED
      BY <2>4, <3>3 DEF WorkersInv
<1>5. OutcomesInv'
  <2>1. \A i \in 1 .. Len(outcomes) : outcomes[i].file # f /\ outcomes[i].file \in Files
    BY <1>0 DEF OutcomesInv, TypeOK, Files, f
  <2>2. \A v \in Workers :
           (Busy(v)' <=> Busy(v)) /\ worker'[v].file = worker[v].file
    BY <1>0, <1>1 DEF Busy, f
  <2>3. \A g \in Files : g > taken => g # f
    BY <1>0 DEF TypeOK, Files
  <2>4. \A i \in 1 .. Len(outcomes) :
          /\ outcomes[i].file \in 1 .. taken
          /\ written'[outcomes[i].file] = outcomes[i].end
    BY <1>1, <2>1 DEF OutcomesInv
  <2>5. \A v \in Workers : Busy(v)' =>
          \A i \in 1 .. Len(outcomes) : outcomes[i].file # worker'[v].file
    BY <2>2 DEF OutcomesInv
  <2>6. concurrent => \A g \in 1 .. taken :
          \/ \E v \in Workers : Busy(v)' /\ worker'[v].file = g
          \/ \E i \in 1 .. Len(outcomes) : outcomes[i].file = g
    BY <2>2 DEF OutcomesInv
  <2>7. \A g \in Files : g > taken => written'[g] = "no"
    BY <1>1, <2>3 DEF OutcomesInv
  <2>. QED
    BY <1>0, <2>4, <2>5, <2>6, <2>7 DEF OutcomesInv
<1>6. ClosingInv'
  BY <1>0, <1>1, <1>3 DEF ClosingInv
<1>7. CountsInv'
  BY <1>0, <1>3 DEF CountsInv, PoolCounts
<1>. QED
  BY <1>2, <1>4, <1>5, <1>6, <1>7

LEMMA SendKeeps ==
    ASSUME PoolInv, NEW w \in Workers, SendOutcome(w)
    PROVE  PoolInv'
<1>. USE WorkerPoolAssumption DEF PoolInv
<1>. DEFINE f == worker[w].file
            o == [file |-> worker[w].file, end |-> worker[w].end]
            n == Len(outcomes)
<1>0. /\ worker[w].at = "sending" /\ f \in 1 .. taken /\ f \in Files
      /\ written[f] = worker[w].end /\ worker[w].end \in Ends /\ Busy(w)
      /\ worker[w] # Idle /\ worker[w] # Exited
      /\ worker' = [worker EXCEPT ![w] = Idle]
      /\ outcomes' = Append(outcomes, o)
      /\ UNCHANGED <<concurrent, taken, filesClosed, written, read, outcomesClosed,
                     firstErr, counted, result>>
  BY DEF SendOutcome, AfterOutcome, WorkersInv, Idle, Exited, Busy, TypeOK, Files
<1>1. /\ worker'[w] = Idle /\ Idle # Exited
      /\ \A v \in Workers : v # w => worker'[v] = worker[v]
  BY <1>0 DEF TypeOK, Idle, Exited
<1>2. /\ outcomes \in Seq([file : Files, end : Ends]) /\ n \in Nat /\ read \in 0 .. n
      /\ o \in [file : Files, end : Ends] /\ o.file = f /\ o.end = worker[w].end
  BY <1>0 DEF TypeOK
<1>. HIDE DEF o
<1>3. /\ outcomes' \in Seq([file : Files, end : Ends])
      /\ Len(outcomes') = n + 1 /\ outcomes'[n + 1] = o
      /\ \A i \in 1 .. n : outcomes'[i] = outcomes[i]
      /\ \A i \in 1 .. (n + 1) : i \in 1 .. n \/ i = n + 1
      /\ \A i \in 1 .. n : i \in 1 .. (n + 1)
      /\ n + 1 \in 1 .. (n + 1)
  BY <1>0, <1>2
<1>4. TypeOK'
  <2>1. worker' \in [Workers -> [at : {"idle", "writing", "sending", "exited"},
                                 file : 0 .. NFiles, end : {"no", "ok", "failed"}]]
    BY <1>0 DEF TypeOK, Idle
  <2>2. read' \in 0 .. Len(outcomes')
    BY <1>0, <1>2, <1>3
  <2>. QED
    BY <1>0, <1>3, <2>1, <2>2 DEF TypeOK
<1>5. concurrent /\ ~outcomesClosed
  BY <1>0 DEF ClosingInv
<1>. HIDE DEF f, n
<1>6. \A v \in Workers : Busy(v)' <=> v # w /\ Busy(v)
  BY <1>1 DEF Busy, Idle
<1>7. WorkersInv'
  BY <1>0, <1>1, <1>6 DEF WorkersInv
<1>8. OutcomesInv'
  <2>1. \A i \in 1 .. Len(outcomes) : outcomes[i].file # f
    BY <1>0 DEF OutcomesInv, f
  <2>2. \A v \in Workers : v # w /\ Busy(v) => worker[v].file # f
    BY <1>0 DEF WorkersInv, f
  <2>3. \A i \in 1 .. Len(outcomes') :
          /\ outcomes'[i].file \in 1 .. taken
          /\ written[outcomes'[i].file] = outcomes'[i].end
    BY <1>0, <1>2, <1>3 DEF OutcomesInv, n
  <2>4. \A i, j \in 1 .. Len(outcomes') : outcomes'[i].file = outcomes'[j].file => i = j
    BY <1>2, <1>3, <2>1 DEF OutcomesInv, n
  <2>5. \A v \in Workers : Busy(v)' =>
          \A i \in 1 .. Len(outcomes') : outcomes'[i].file # worker'[v].file
    BY <1>1, <1>2, <1>3, <1>6, <2>2 DEF OutcomesInv, n
  <2>6. \A g \in 1 .. taken :
          \/ \E v \in Workers : Busy(v)' /\ worker'[v].file = g
          \/ \E i \in 1 .. Len(outcomes') : outcomes'[i].file = g
    <3>. SUFFICES ASSUME NEW g \in 1 .. taken,
                         ~ \E i \in 1 .. Len(outcomes') : outcomes'[i].file = g
                  PROVE  \E v \in Workers : Busy(v)' /\ worker'[v].file = g
      OBVIOUS
    <3>1. g # f /\ ~ \E i \in 1 .. n : outcomes[i].file = g
      BY <1>2, <1>3
    <3>2. PICK v \in Workers : Busy(v) /\ worker[v].file = g
      BY <1>5, <3>1 DEF OutcomesInv, n
    <3>. QED
      BY <1>1, <1>6, <3>1, <3>2 DEF f
  <2>. QED
    BY <1>0, <2>3, <2>4, <2>5, <2>6 DEF OutcomesInv
<1>9. ClosingInv'
  BY <1>0, <1>1, <1>5 DEF ClosingInv
<1>10. CountsInv'
  <2>1. \A i \in 1 .. read : i \in 1 .. n
    BY <1>2
  <2>. QED
    BY <1>0, <1>3, <1>5, <2>1 DEF CountsInv, PoolCounts
<1>. QED
  BY <1>4, <1>7, <1>8, <1>9, <1>10

LEMMA ExitKeeps ==
    ASSUME PoolInv, NEW w \in Workers, WorkerExits(w)
    PROVE  PoolInv'
<1>. USE WorkerPoolAssumption DEF PoolInv
<1>0. /\ filesClosed /\ worker[w] = Idle /\ worker' = [worker EXCEPT ![w] = Exited]
      /\ UNCHANGED <<concurrent, taken, filesClosed, written, outcomes, read, outcomesClosed,
                     firstErr, counted, result>>
  BY DEF WorkerExits
<1>1. /\ worker'[w] = Exited /\ Idle # Exited
      /\ \A v \in Workers : v # w => worker'[v] = worker[v]
  BY <1>0 DEF TypeOK, Idle, Exited
<1>2. TypeOK'
  <2>1. worker' \in [Workers -> [at : {"idle", "writing", "sending", "exited"},
                                 file : 0 .. NFiles, end : {"no", "ok", "failed"}]]
    BY <1>0 DEF TypeOK, Exited
  <2>. QED
    BY <1>0, <2>1 DEF TypeOK
<1>3. \A v \in Workers : (Busy(v)' <=> Busy(v)) /\ (Busy(v) => v # w)
  BY <1>0, <1>1 DEF Busy, Idle, Exited
<1>4. WorkersInv'
  BY <1>0, <1>1, <1>3 DEF WorkersInv
<1>5. OutcomesInv'
  <2>1. \A v \in Workers : Busy(v)' =>
          \A i \in 1 .. Len(outcomes) : outcomes[i].file # worker'[v].file
    BY <1>1, <1>3 DEF OutcomesInv
  <2>2. concurrent => \A g \in 1 .. taken :
          \/ \E v \in Workers : Busy(v)' /\ worker'[v].file = g
          \/ \E i \in 1 .. Len(outcomes) : outcomes[i].file = g
    BY <1>1, <1>3 DEF OutcomesInv
  <2>. QED
    BY <1>0, <2>1, <2>2 DEF OutcomesInv
<1>6. ClosingInv'
  BY <1>0, <1>1 DEF ClosingInv
<1>7. CountsInv'
  BY <1>0 DEF CountsInv, PoolCounts, LoopCounts
<1>. QED
  BY <1>2, <1>4, <1>5, <1>6, <1>7

LEMMA CloseKeeps ==
    ASSUME PoolInv, CloseFiles \/ CloseOutcomes
    PROVE  PoolInv'
<1>. USE WorkerPoolAssumption DEF PoolInv
<1>0. /\ UNCHANGED <<concurrent, taken, worker, written, outcomes, read, firstErr, counted, result>>
      /\ filesClosed' \in BOOLEAN /\ outcomesClosed' \in BOOLEAN
      /\ filesClosed => filesClosed'
      /\ outcomesClosed => outcomesClosed'
  BY DEF CloseFiles, CloseOutcomes, TypeOK
<1>1. TypeOK'
  BY <1>0 DEF TypeOK
<1>2. WorkersInv' /\ OutcomesInv' /\ CountsInv'
  BY <1>0 DEF WorkersInv, OutcomesInv, CountsInv, PoolCounts, LoopCounts, Busy
<1>3. ClosingInv'
  <2>1. CASE CloseFiles
    BY <1>0, <2>1 DEF CloseFiles, ClosingInv
  <2>2. CASE CloseOutcomes
    <3>1. concurrent
      <4>1. PICK w \in Workers : worker[w] = Exited
        BY <2>2 DEF CloseOutcomes, AllExited
      <4>. QED
        BY <4>1 DEF ClosingInv
    <3>. QED
      BY <1>0, <2>2, <3>1 DEF CloseOutcomes, AllExited, ClosingInv
  <2>. QED
    BY <2>1, <2>2
<1>. QED
  BY <1>1, <1>2, <1>3

(* The main goroutine. *)
LEMMA MainKeeps ==
    ASSUME PoolInv, MainStep
    PROVE  PoolInv'
<1>. USE WorkerPoolAssumption DEF PoolInv
<1>1. CASE Receive
  <2>. DEFINE n == read + 1
              f == outcomes[n].file
              end == outcomes[n].end
  <2>0. /\ outcomes \in Seq([file : Files, end : Ends])
        /\ read \in 0 .. Len(outcomes) /\ Len(outcomes) \in Nat
        /\ read < Len(outcomes) /\ read' = n /\ Note(f, end)
        /\ n \in 1 .. Len(outcomes)
        /\ UNCHANGED <<concurrent, taken, filesClosed, worker, written, outcomes,
                       outcomesClosed, result>>
    BY <1>1 DEF Receive, TypeOK
  <2>1. outcomes[n] \in [file : Files, end : Ends]
    <3>. HIDE DEF n
    <3>. QED
      BY <2>0, ElementTyped
  <2>2. f \in Files /\ end \in Ends
    BY <2>1
  <2>3. firstErr' \in 0 .. NFiles /\ counted' \in SUBSET Files
    BY <2>0, <2>2, NoteTyped
  <2>4. TypeOK'
    BY <2>0, <2>3 DEF TypeOK
  <2>5. WorkersInv' /\ OutcomesInv'
    BY <2>0 DEF WorkersInv, OutcomesInv, Busy
  <2>6. concurrent
    BY <2>0 DEF ClosingInv
  <2>7. ClosingInv'
    BY <2>0 DEF ClosingInv
  <2>8. PoolCounts'
    <3>1. PoolCounts
      BY <2>6 DEF CountsInv
    <3>2. /\ n \in 1 .. n /\ n \notin 1 .. read /\ n # 0
          /\ \A i \in 1 .. read : i \in 1 .. n
          /\ \A i \in 1 .. n : i \in 1 .. read \/ i = n
      BY <2>0
    <3>3. f # 0
      BY <2>2 DEF Files
    <3>. HIDE DEF n
    <3>4. CASE end = "ok"
      <4>1. counted' = counted \cup {f} /\ firstErr' = firstErr
        BY <2>0, <3>4 DEF Note
      <4>2. counted' = {outcomes[i].file : i \in {j \in 1 .. n : outcomes[j].end = "ok"}}
        BY <3>1, <3>2, <3>4, <4>1 DEF PoolCounts
      <4>3. firstErr # 0 =>
              \E i \in 1 .. n : outcomes[i].file = firstErr /\ outcomes[i].end = "failed"
        BY <3>1, <3>2 DEF PoolCounts
      <4>4. \A i \in 1 .. n : outcomes[i].end = "failed" => firstErr # 0
        <5>. SUFFICES ASSUME NEW i \in 1 .. n, outcomes[i].end = "failed"
                      PROVE  firstErr # 0
          OBVIOUS
        <5>1. "ok" # "failed"
          OBVIOUS
        <5>2. i # n
          BY <3>4, <5>1
        <5>. QED
          BY <3>1, <3>2, <5>2 DEF PoolCounts
      <4>. QED
        BY <2>0, <4>1, <4>2, <4>3, <4>4 DEF PoolCounts
    <3>5. CASE end = "failed"
      <4>1. counted' = counted /\ firstErr' = (IF firstErr = 0 THEN f ELSE firstErr)
        BY <2>0, <3>5 DEF Note
      <4>2. counted' = {outcomes[i].file : i \in {j \in 1 .. n : outcomes[j].end = "ok"}}
        BY <3>1, <3>2, <3>5, <4>1 DEF PoolCounts
      <4>3. firstErr' # 0
        BY <3>3, <4>1
      <4>4. \E i \in 1 .. n : outcomes[i].file = firstErr' /\ outcomes[i].end = "failed"
        BY <3>1, <3>2, <3>5, <4>1 DEF PoolCounts
      <4>. QED
        BY <2>0, <4>2, <4>3, <4>4 DEF PoolCounts
    <3>. QED
      BY <2>2, <3>4, <3>5 DEF Ends
  <2>. QED
    BY <2>0, <2>4, <2>5, <2>6, <2>7, <2>8 DEF CountsInv
<1>2. CASE PoolEnds
  <2>1. /\ outcomesClosed /\ read = Len(outcomes)
        /\ UNCHANGED <<concurrent, taken, written, firstErr, counted, filesClosed, worker,
                       outcomes, read, outcomesClosed>>
        /\ result' = [err |-> firstErr,
                      counted |-> IF firstErr = 0 THEN counted ELSE {}]
    BY <1>2 DEF PoolEnds, Returned, channels
  <2>2. concurrent
    <3>1. PICK w \in Workers : worker[w] = Exited
      BY <2>1 DEF ClosingInv
    <3>. QED
      BY <3>1 DEF ClosingInv
  <2>3. TypeOK'
    BY <2>1 DEF TypeOK
  <2>4. WorkersInv' /\ OutcomesInv' /\ ClosingInv' /\ CountsInv'
    BY <2>1, <2>2 DEF WorkersInv, OutcomesInv, ClosingInv, CountsInv, PoolCounts, Busy
  <2>. QED
    BY <2>3, <2>4
<1>. QED
  BY <1>1, <1>2 DEF MainStep

LEMMA PoolInvariant == Spec => []PoolInv
<1>1. PoolInv /\ UNCHANGED vars => PoolInv'
  BY DEF PoolInv, TypeOK, WorkersInv, OutcomesInv, ClosingInv, CountsInv,
         PoolCounts, LoopCounts, Busy, vars, channels
<1>2. PoolInv /\ Next => PoolInv'
  BY LoopKeeps, TakeKeeps, WriteEndsKeeps, SendKeeps, ExitKeeps, CloseKeeps,
     MainKeeps DEF Next, WorkerStep
<1>. QED
  BY <1>1, <1>2, PoolInit, PTL DEF Spec

-----------------------------------------------------------------------------
(* The variables of the loop and of the pool keep their types: no file     *)
(* past the last one is taken or written.                                  *)
THEOREM TypeCorrect == Spec => []TypeOK
  BY PoolInvariant, PTL DEF PoolInv

(* outcomeCh is closed when no worker has an outcome to send any more, so  *)
(* no send panics, for any number of workers and files.                    *)
THEOREM SafeSends == Spec => []SendsAreSafe
<1>1. PoolInv => SendsAreSafe
  BY DEF PoolInv, ClosingInv, SendsAreSafe, Exited
<1>. QED
  BY <1>1, PoolInvariant, PTL

(* A worker about to send has a file without an outcome; the files of the  *)
(* outcomes differ; so there are fewer outcomes than files.                *)
LEMMA RoomToSend ==
    ASSUME PoolInv, NEW w \in Workers, worker[w].at = "sending"
    PROVE  Len(outcomes) < NFiles
<1>. USE WorkerPoolAssumption DEF PoolInv
<1>. DEFINE f == worker[w].file
            n == Len(outcomes)
            fileOf == [i \in 1 .. n |-> outcomes[i].file]
<1>1. outcomes \in Seq([file : Files, end : Ends]) /\ n \in Nat /\ Busy(w)
  BY DEF TypeOK, Busy
<1>2. f \in Files
  BY <1>1 DEF WorkersInv, Busy, Idle, Exited, TypeOK, Files
<1>3. \A i \in 1 .. n : outcomes[i].file \in Files \ {f}
  <2>. SUFFICES ASSUME NEW i \in 1 .. n PROVE outcomes[i].file \in Files \ {f}
    OBVIOUS
  <2>1. outcomes[i] \in [file : Files, end : Ends]
    <3>. HIDE DEF f
    <3>. QED
      BY <1>1, ElementTyped
  <2>. QED
    BY <1>1, <2>1 DEF OutcomesInv
<1>4. \A i, j \in 1 .. n : outcomes[i].file = outcomes[j].file => i = j
  BY DEF OutcomesInv
<1>5. IsFiniteSet(Files) /\ Cardinality(Files) = NFiles
  BY FS_Interval DEF Files
<1>6. IsFiniteSet(Files \ {f}) /\ Cardinality(Files \ {f}) = NFiles - 1
  BY <1>2, <1>5, FS_RemoveElement
<1>. HIDE DEF f, n
<1>7. Cardinality(1 .. n) = n
  <2>1. n \in Int /\ 1 \in Int
    BY <1>1
  <2>2. Cardinality(1 .. n) = IF 1 > n THEN 0 ELSE n - 1 + 1
    BY <2>1, FS_Interval
  <2>. QED
    BY <1>1, <2>2
<1>8. fileOf \in Injection(1 .. n, Files \ {f})
  BY <1>3, <1>4 DEF Injection, IsInjective
<1>9. Cardinality(1 .. n) <= Cardinality(Files \ {f})
  BY <1>6, <1>8, FS_Injection
<1>. QED
  BY <1>1, <1>6, <1>7, <1>9 DEF n

(* The buffer of outcomeCh is never full when a worker sends.              *)
THEOREM SendsDoNotWait == Spec => []SendsNeverWait
<1>1. PoolInv => SendsNeverWait
  <2>. SUFFICES ASSUME PoolInv, NEW w \in Workers, worker[w].at = "sending"
                PROVE  Len(outcomes) - read < OutcomeBuffer
    BY DEF SendsNeverWait
  <2>1. Len(outcomes) < NFiles
    BY RoomToSend
  <2>2. Len(outcomes) \in Nat /\ read \in 0 .. Len(outcomes) /\ NFiles \in Nat
    BY WorkerPoolAssumption DEF PoolInv, TypeOK
  <2>. QED
    BY <2>1, <2>2 DEF OutcomeBuffer
<1>. QED
  BY <1>1, PoolInvariant, PTL

-----------------------------------------------------------------------------
(* What is returned covers every file. *)
LEMMA ReturnsAll ==
    ASSUME result = NoResult, Returned, written' = written,
           \A f \in Files : written[f] \in Ends,
           counted = {f \in Files : written[f] = "ok"},
           firstErr # 0 => firstErr \in Files /\ written[firstErr] = "failed",
           \A f \in Files : written[f] = "failed" => firstErr # 0
    PROVE  Abstract!Return
<1>1. \A f \in Files : written[f] # "no"
  BY DEF Ends
<1>2. CASE firstErr = 0
  <2>1. Abstract!Failed = {}
    BY <1>2 DEF Abstract!Failed
  <2>2. counted = Files
    BY <1>2 DEF Ends
  <2>. QED
    BY <1>1, <1>2, <2>1, <2>2 DEF Abstract!Return, Returned
<1>3. CASE firstErr # 0
  <2>1. firstErr \in Abstract!Failed
    BY <1>3 DEF Abstract!Failed
  <2>2. result' = [err |-> firstErr, counted |-> {}]
    BY <1>3 DEF Returned
  <2>. QED
    BY <1>1, <2>1, <2>2 DEF Abstract!Return
<1>. QED
  BY <1>2, <1>3

LEMMA StepRefines ==
    ASSUME PoolInv, Next
    PROVE  Abstract!Next \/ UNCHANGED Abstract!vars
<1>. USE WorkerPoolAssumption DEF PoolInv
<1>1. ASSUME NEW end \in Ends, WriteNext(end)
      PROVE  Abstract!Next
  <2>. DEFINE f == taken + 1
  <2>1. f \in Files /\ written[f] = "no"
    BY <1>1 DEF WriteNext, MoreFiles, TypeOK, OutcomesInv, Files
  <2>2. Abstract!Write(f, end)
    BY <1>1, <2>1 DEF WriteNext, Abstract!Write
  <2>. HIDE DEF f
  <2>. QED
    BY <2>1, <2>2 DEF Abstract!Next, Ends
<1>2. CASE LoopEnds
  <2>1. ~concurrent /\ taken = NFiles /\ result = NoResult /\ Returned
        /\ written' = written
    BY <1>2 DEF LoopEnds, LoopDone
  <2>2. LoopCounts /\ 1 .. taken = Files
    BY <2>1 DEF CountsInv, Files
  <2>3. Abstract!Return
    BY <2>1, <2>2, ReturnsAll DEF LoopCounts
  <2>. QED
    BY <2>3 DEF Abstract!Next
<1>3. ASSUME NEW w \in Workers, NEW end \in Ends, WriteEnds(w, end)
      PROVE  Abstract!Next
  <2>. DEFINE f == worker[w].file
  <2>1. f \in Files /\ written[f] = "no"
    BY <1>3 DEF WriteEnds, WorkersInv, Idle, Exited, TypeOK, Files
  <2>2. result = NoResult
    BY <1>3 DEF WriteEnds, ClosingInv, Exited, Idle
  <2>3. Abstract!Write(f, end)
    BY <1>3, <2>1, <2>2 DEF WriteEnds, Abstract!Write
  <2>. HIDE DEF f
  <2>. QED
    BY <2>1, <2>3 DEF Abstract!Next, Ends
<1>4. CASE PoolEnds
  <2>1. outcomesClosed /\ read = Len(outcomes) /\ result = NoResult /\ Returned
        /\ written' = written
    BY <1>4 DEF PoolEnds
  <2>2. \A w \in Workers : worker[w] = Exited /\ ~Busy(w)
    BY <2>1 DEF ClosingInv, Busy, Exited
  <2>3. concurrent /\ taken = NFiles
    <3>1. PICK w \in Workers : worker[w] = Exited
      BY <2>2
    <3>. QED
      BY <3>1 DEF ClosingInv, Exited, Idle
  <2>4. PoolCounts /\ 1 .. taken = Files
    BY <2>3 DEF CountsInv, Files
  <2>. DEFINE n == Len(outcomes)
  <2>5. \A i \in 1 .. n : /\ outcomes[i].file \in Files
                          /\ written[outcomes[i].file] = outcomes[i].end
    BY <2>4 DEF OutcomesInv
  <2>6. \A f \in Files : \E i \in 1 .. n : outcomes[i].file = f
    BY <2>2, <2>3, <2>4 DEF OutcomesInv
  <2>7. \A i \in 1 .. n : outcomes[i].end \in Ends
    <3>. SUFFICES ASSUME NEW i \in 1 .. n PROVE outcomes[i].end \in Ends
      OBVIOUS
    <3>1. outcomes[i] \in [file : Files, end : Ends]
      BY ElementTyped DEF TypeOK
    <3>. QED
      BY <3>1
  <2>8. \A f \in Files : written[f] \in Ends
    BY <2>5, <2>6, <2>7
  <2>9. counted = {outcomes[i].file : i \in {j \in 1 .. n : outcomes[j].end = "ok"}}
    BY <2>1, <2>4 DEF PoolCounts
  <2>. HIDE DEF n
  <2>10. counted = {f \in Files : written[f] = "ok"}
    BY <2>5, <2>6, <2>9
  <2>11. firstErr # 0 => firstErr \in Files /\ written[firstErr] = "failed"
    BY <2>1, <2>4, <2>5 DEF PoolCounts, n
  <2>12. \A f \in Files : written[f] = "failed" => firstErr # 0
    BY <2>1, <2>4, <2>5, <2>6 DEF PoolCounts, n
  <2>13. Abstract!Return
    BY <2>1, <2>8, <2>10, <2>11, <2>12, ReturnsAll
  <2>. QED
    BY <2>13 DEF Abstract!Next
<1>5. ASSUME NEW w \in Workers, TakeFile(w) \/ SendOutcome(w) \/ WorkerExits(w)
      PROVE  UNCHANGED Abstract!vars
  BY <1>5 DEF TakeFile, SendOutcome, WorkerExits, Abstract!vars
<1>6. CASE CloseFiles \/ CloseOutcomes \/ Receive
  BY <1>6 DEF CloseFiles, CloseOutcomes, Receive, Abstract!vars
<1>. QED
  BY <1>1, <1>2, <1>3, <1>4, <1>5, <1>6 DEF Next, LoopStep, WorkerStep, MainStep

(* The loop and the pool, with any number of files and workers, write      *)
(* every file once and return what became of all of them.                  *)
THEOREM Refines == Spec => ImplementsFileQueue
<1>1. Init => Abstract!Init
  BY DEF Init, Abstract!Init
<1>2. PoolInv /\ [Next]_vars => [Abstract!Next]_(Abstract!vars)
  <2>1. PoolInv /\ Next => [Abstract!Next]_(Abstract!vars)
    BY StepRefines
  <2>2. UNCHANGED vars => UNCHANGED Abstract!vars
    BY DEF vars, Abstract!vars
  <2>. QED
    BY <2>1, <2>2
<1>. QED
  BY <1>1, <1>2, PoolInvariant, PTL DEF Spec, ImplementsFileQueue, Abstract!Spec
=============================================================================
