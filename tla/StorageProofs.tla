--------------------------- MODULE StorageProofs ----------------------------
(***************************************************************************)
(* What is kept in memory and on disk, for any number of callers, files    *)
(* and threads: PDF documents (PdfDocs), the formula services and their    *)
(* folder of images (Hmer), connection pools (Lifespan), database backups  *)
(* (Backups) and the histories of guests (GuestStore).                     *)
(***************************************************************************)
EXTENDS PdfDocs, GuestStore, Hmer, Lifespan, Backups,
  FiniteSetTheorems, SequenceTheorems, WellFoundedInduction, TLAPS

(***************************************************************************)
(* When what is derived from a PDF is current, for any number of uploads,  *)
(* deletes and requests. Quiet alone says too little about the middle of   *)
(* an operation: the invariant says that one which nothing has exposed is  *)
(* alone, and what it has in hand.                                         *)
(***************************************************************************)

Writing(p) == \/ p \in Uploads /\ upload[p] \in {"saved", "parsed", "failed"}
              \/ p \in Deletes /\ delete[p] = "unlinked"
Reading(p) == p \in Requests /\ request[p] \notin {"idle", "over", "keyError"}

(* Without an upload or a delete under way, what was derived is current. *)
Settled == (\A p \in Uploads \cup Deletes : ~Writing(p)) => DerivedCurrent

InHand(r) ==
  /\ request[r] \in {"storing", "using"} => parsed[r] = disk /\ disk # None
  /\ request[r] = "fetching" => cache = disk /\ disk # None

Sheltered ==
  /\ \A p, q \in Busy : p = q
  /\ Settled
  /\ \A r \in Requests : InHand(r)

PdfIInv == TypeOK /\ (~exposed => Sheltered)

LEMMA BusyWhich ==
  /\ \A p : p \in Busy <=> Writing(p) \/ Reading(p)
  /\ \A p : p \in Busy' <=> Writing(p)' \/ Reading(p)'
  BY DEF Busy, Writing, Reading

(* Nobody is both. *)
LEMMA EitherOr ==
  /\ \A u \in Uploads : u \notin Deletes /\ u \notin Requests
  /\ \A d \in Deletes : d \notin Uploads /\ d \notin Requests
  /\ \A r \in Requests : r \notin Uploads /\ r \notin Deletes
  BY ApartAssumption DEF Requests

LEMMA PdfBegins == Init => PdfIInv
  <1> SUFFICES ASSUME Init PROVE PdfIInv
    OBVIOUS
  <1>1. TypeOK
    BY NoneAssumption, CorruptAssumption DEF Init, TypeOK, Contents
  <1>2. \A p : ~Writing(p) /\ ~Reading(p)
    BY DEF Init, Writing, Reading
  <1>3. DerivedCurrent /\ \A r \in Requests : request[r] = "idle"
    BY DEF Init, DerivedCurrent
  <1> QED
    BY <1>1, <1>2, <1>3, BusyWhich DEF PdfIInv, Sheltered, Settled, InHand

LEMMA PdfTypeStep == TypeOK /\ [Next]_vars => TypeOK'
  <1> SUFFICES ASSUME TypeOK, [Next]_vars PROVE TypeOK'
    OBVIOUS
  <1> USE EitherOr, NoneAssumption, CorruptAssumption DEF TypeOK, Contents
  <1>1. ASSUME NEW u \in Uploads,
               Save(u) \/ Parse(u) \/ Publish(u) \/ FailParse(u) \/ FailUpload(u)
        PROVE  TypeOK'
    <2>1. CASE Save(u)
      BY <2>1 DEF Save, Overlap
    <2>2. CASE Parse(u)
      BY <2>2 DEF Parse, Readable
    <2>3. CASE Publish(u)
      BY <2>3 DEF Publish, NewEntries, Heal
    <2>4. CASE FailUpload(u)
      BY <2>4 DEF FailUpload
    <2>5. CASE FailParse(u)
      BY <2>5 DEF FailParse
    <2> QED
      BY <1>1, <2>1, <2>2, <2>3, <2>4, <2>5
  <1>2. ASSUME NEW d \in Deletes, Unlink(d) \/ Forget(d) PROVE TypeOK'
    <2>1. CASE Unlink(d)
      BY <2>1 DEF Unlink, Overlap
    <2>2. CASE Forget(d)
      BY <2>2 DEF Forget, NewEntries, Heal
    <2> QED
      BY <1>2, <2>1, <2>2
  <1>3. ASSUME NEW r \in Requests, Look(r) \/ Extract(r) \/ StoreDoc(r) \/ Fetch(r) \/ Use(r)
        PROVE  TypeOK'
    <2>1. CASE Look(r)
      BY <2>1 DEF Look, Overlap
    <2>2. CASE Extract(r)
      BY <2>2 DEF Extract, Readable
    <2>3. CASE StoreDoc(r)
      BY <2>3 DEF StoreDoc
    <2>4. CASE Fetch(r)
      BY <2>4 DEF Fetch
    <2>5. CASE Use(r)
      BY <2>5 DEF Use
    <2> QED
      BY <1>3, <2>1, <2>2, <2>3, <2>4, <2>5
  <1>4. CASE UNCHANGED vars
    BY <1>4 DEF vars
  <1> QED
    BY <1>1, <1>2, <1>3, <1>4 DEF Next

(* A beginning that stays sheltered finds nothing else under way.          *)
LEMMA NothingElse ==
  ASSUME PdfIInv, NEW p, ~Writing(p), ~Reading(p), ~exposed, Busy \ {p} = {}
  PROVE  /\ \A q : ~Writing(q) /\ ~Reading(q)
         /\ DerivedCurrent
  <1>1. \A q : ~Writing(q) /\ ~Reading(q)
    BY BusyWhich
  <1> QED
    BY <1>1 DEF PdfIInv, Sheltered, Settled

(* Whoever is under way and sheltered is alone.                            *)
LEMMA Lonely ==
  ASSUME PdfIInv, NEW p, Writing(p) \/ Reading(p), ~exposed
  PROVE  \A q : q # p => ~Writing(q) /\ ~Reading(q)
  BY BusyWhich DEF PdfIInv, Sheltered

(* An upload or a delete goes on alone, *)
LEMMA WritesOn ==
  ASSUME NEW p \in Uploads \cup Deletes, Writing(p)',
         \A q : (q # p => ~Writing(q)') /\ ~Reading(q)'
  PROVE  Sheltered'
  <1>1. \A r \in Requests : InHand(r)'
    BY DEF InHand, Reading
  <1> QED
    BY <1>1, BusyWhich DEF Sheltered, Settled

(* or the last one ends. *)
LEMMA AllQuiet ==
  ASSUME DerivedCurrent', \A q : ~Writing(q)' /\ ~Reading(q)'
  PROVE  Sheltered'
  <1>1. \A r \in Requests : InHand(r)'
    BY DEF InHand, Reading
  <1> QED
    BY <1>1, BusyWhich DEF Sheltered, Settled

LEMMA UploadSteps ==
  ASSUME PdfIInv, NEW u \in Uploads, ~exposed',
         Save(u) \/ Parse(u) \/ Publish(u) \/ FailParse(u) \/ FailUpload(u)
  PROVE  Sheltered'
  <1> USE EitherOr
  <1>1. CASE Save(u)
    <2>1. /\ ~exposed /\ Busy \ {u} = {} /\ ~Writing(u) /\ ~Reading(u)
          /\ upload' = [upload EXCEPT ![u] = "saved"] /\ UNCHANGED <<delete, request>>
      BY <1>1 DEF Save, Overlap, Writing, Reading
    <2>2. \A q : ~Writing(q) /\ ~Reading(q)
      BY <2>1, NothingElse
    <2>3. Writing(u)' /\ \A q : (q # u => ~Writing(q)') /\ ~Reading(q)'
      BY <2>1, <2>2 DEF Writing, Reading, PdfIInv, TypeOK
    <2> QED
      BY <2>3, WritesOn
  <1>2. CASE Parse(u) \/ FailParse(u)
    <2>1. /\ ~exposed /\ Writing(u)
          /\ \E as \in {"parsed", "failed"} : upload' = [upload EXCEPT ![u] = as]
          /\ UNCHANGED <<delete, request>>
      BY <1>2 DEF Parse, FailParse, Writing
    <2>2. \A q : q # u => ~Writing(q) /\ ~Reading(q)
      BY <2>1, Lonely
    <2>3. Writing(u)' /\ \A q : (q # u => ~Writing(q)') /\ ~Reading(q)'
      BY <2>1, <2>2 DEF Writing, Reading, PdfIInv, TypeOK
    <2> QED
      BY <2>3, WritesOn
  <1>3. CASE Publish(u) \/ FailUpload(u)
    <2>1. /\ Busy \ {u} = {}
          /\ upload' = [upload EXCEPT ![u] = "done"] /\ UNCHANGED <<delete, request>>
          /\ DerivedCurrent'
      BY <1>3 DEF Publish, FailUpload, NewEntries, Heal, DerivedCurrent
    <2>2. \A q : ~Writing(q)' /\ ~Reading(q)'
      BY <2>1, BusyWhich DEF Writing, Reading, PdfIInv, TypeOK
    <2> QED
      BY <2>1, <2>2, AllQuiet
  <1> QED
    BY <1>1, <1>2, <1>3

LEMMA DeleteSteps ==
  ASSUME PdfIInv, NEW d \in Deletes, ~exposed', Unlink(d) \/ Forget(d)
  PROVE  Sheltered'
  <1> USE EitherOr
  <1>1. CASE Unlink(d)
    <2>1. /\ ~exposed /\ Busy \ {d} = {} /\ ~Writing(d) /\ ~Reading(d)
          /\ delete' = [delete EXCEPT ![d] = "unlinked"] /\ UNCHANGED <<upload, request>>
      BY <1>1 DEF Unlink, Overlap, Writing, Reading
    <2>2. \A q : ~Writing(q) /\ ~Reading(q)
      BY <2>1, NothingElse
    <2>3. Writing(d)' /\ \A q : (q # d => ~Writing(q)') /\ ~Reading(q)'
      BY <2>1, <2>2 DEF Writing, Reading, PdfIInv, TypeOK
    <2> QED
      BY <2>3, WritesOn
  <1>2. CASE Forget(d)
    <2>1. /\ Busy \ {d} = {}
          /\ delete' = [delete EXCEPT ![d] = "done"] /\ UNCHANGED <<upload, request>>
          /\ DerivedCurrent'
      BY <1>2 DEF Forget, NewEntries, Heal, DerivedCurrent
    <2>2. \A q : ~Writing(q)' /\ ~Reading(q)'
      BY <2>1, BusyWhich DEF Writing, Reading, PdfIInv, TypeOK
    <2> QED
      BY <2>1, <2>2, AllQuiet
  <1> QED
    BY <1>1, <1>2

(* A request looks only when alone, and then has what is on disk or works  *)
(* towards it.                                                             *)
LEMMA ReaderSteps ==
  ASSUME PdfIInv, NEW r \in Requests, ~exposed',
         Look(r) \/ Extract(r) \/ StoreDoc(r) \/ Fetch(r) \/ Use(r)
  PROVE  Sheltered'
  <1> USE EitherOr
  <1>1. /\ ~exposed /\ UNCHANGED <<disk, upload, delete>>
        /\ \A q : q # r => ~Writing(q) /\ ~Reading(q)
        /\ DerivedCurrent
    <2>1. CASE Look(r)
      <3>1. ~exposed /\ Busy \ {r} = {} /\ ~Writing(r) /\ ~Reading(r)
        BY <2>1 DEF Look, Overlap, Writing, Reading
      <3> QED
        BY <2>1, <3>1, NothingElse DEF Look
    <2>2. CASE Extract(r) \/ StoreDoc(r) \/ Fetch(r) \/ Use(r)
      <3>1. ~exposed /\ UNCHANGED <<disk, upload, delete>> /\ Reading(r) /\ ~Writing(r)
        BY <2>2 DEF Extract, StoreDoc, Fetch, Use, Reading, Writing
      <3>2. \A q : q # r => ~Writing(q) /\ ~Reading(q)
        BY <3>1, Lonely
      <3> QED
        BY <3>1, <3>2 DEF PdfIInv, Sheltered, Settled
    <2> QED
      BY <2>1, <2>2
  <1>2. /\ request' \in [Requests -> {"idle", "parsing", "storing", "fetching", "using",
                                      "over", "keyError"}]
        /\ \A q \in Requests \ {r} : request'[q] = request[q]
    BY DEF Look, Extract, StoreDoc, Fetch, Use, PdfIInv, TypeOK
  <1>3. \A q : ~Writing(q)' /\ (q # r => ~Reading(q)')
    BY <1>1, <1>2 DEF Writing, Reading
  <1>4. InHand(r) /\ parsed \in [Uploads \cup Requests -> Contents \ Corrupt]
    BY <1>1 DEF PdfIInv, Sheltered, TypeOK
  <1>5. InHand(r)' /\ DerivedCurrent'
    <2>1. CASE Look(r)
      BY <1>1, <2>1 DEF Look, InHand, DerivedCurrent, PdfIInv, TypeOK
    <2>2. CASE Extract(r)
      BY <1>1, <1>4, <2>2 DEF Extract, Readable, InHand, DerivedCurrent, PdfIInv, TypeOK
    <2>3. CASE StoreDoc(r)
      BY <1>1, <1>4, <2>3 DEF StoreDoc, InHand, DerivedCurrent, PdfIInv, TypeOK
    <2>4. CASE Fetch(r)
      BY <1>1, <1>4, <2>4 DEF Fetch, InHand, DerivedCurrent, PdfIInv, TypeOK
    <2>5. CASE Use(r)
      BY <1>1, <1>4, <2>5 DEF Use, InHand, DerivedCurrent, PdfIInv, TypeOK
    <2> QED
      BY <2>1, <2>2, <2>3, <2>4, <2>5
  <1>6. \A q \in Requests \ {r} : InHand(q)'
    BY <1>3 DEF InHand, Reading
  <1> QED
    BY <1>3, <1>5, <1>6, BusyWhich DEF Sheltered, Settled

LEMMA PdfStep == PdfIInv /\ [Next]_vars => PdfIInv'
  <1> SUFFICES ASSUME PdfIInv, [Next]_vars, ~exposed' PROVE Sheltered'
    BY PdfTypeStep DEF PdfIInv
  <1>1. CASE UNCHANGED vars
    BY <1>1 DEF vars, PdfIInv, Sheltered, Settled, InHand, Busy, Writing, DerivedCurrent
  <1> QED
    BY <1>1, UploadSteps, DeleteSteps, ReaderSteps DEF Next

(* What is kept of a PDF is of the file on disk whenever nothing is under  *)
(* way and no overlap or failed replacement has exposed it (pdf/service.py:*)
(* 86-129, pdf/router.py:78-135).                                          *)
THEOREM DerivedStaysFresh == Spec => []FreshUnlessExposed
  <1>1. PdfIInv => FreshUnlessExposed
    BY BusyWhich DEF PdfIInv, Sheltered, Settled, FreshUnlessExposed, Quiet
  <1> QED
    BY <1>1, PdfBegins, PdfStep, PTL DEF Spec

(* Nor is a request answered from another file, or lost in the cache, with *)
(* nothing else under way (pdf/service.py:86-89).                          *)
THEOREM RequestsGetTheFile == Spec => AnswersAreCurrent
  <1>1. ASSUME PdfIInv, [Next]_vars, NEW r \in Requests,
               request[r] = "fetching", request'[r] # "fetching", ~exposed
        PROVE  request'[r] = "using" /\ parsed'[r] = disk
    <2>1. cache = disk /\ disk # None
      BY <1>1 DEF PdfIInv, Sheltered, InHand
    <2>2. Fetch(r)
      BY <1>1 DEF Next, vars, Save, Parse, Publish, FailParse, FailUpload, Unlink, Forget, Look, Extract,
                  StoreDoc, Fetch, Use, PdfIInv, TypeOK
    <2> QED
      BY <1>1, <2>1, <2>2 DEF Fetch, PdfIInv, TypeOK
  <1>2. PdfIInv /\ [Next]_vars =>
          (\A r \in Requests : request[r] = "fetching" /\ request'[r] # "fetching" /\ ~exposed
             => request'[r] = "using" /\ parsed'[r] = disk)
    BY <1>1
  <1> QED
    BY <1>2, PdfBegins, PdfStep, PTL DEF Spec, AnswersAreCurrent

-----------------------------------------------------------------------------
(***************************************************************************)
(* One call on the GPU at a time, for any number of calls: both services   *)
(* queue on one lock, the queue holds exactly those that wait for the GPU  *)
(* or are on it, each once, and who is on it is the first.                 *)
(***************************************************************************)

Places == {"idle", "queued", "gpu", "listing", "sorting", "unlinking"}
HmerCalls == [at : Places, space : Spaces, do : {"none", "read", "explain"}]
Queue == waiting["owner"]
Queued == {"queued", "gpu"}

HmerTyped ==
  /\ reading \in [Readings -> HmerCalls]
  /\ waiting \in [Spaces -> Seq(Readings)]

QueuedOnce == \A i, j \in 1 .. Len(Queue) : Queue[i] = Queue[j] => i = j
QueueIsWaiting ==
  \A u \in Readings : reading[u].at \in Queued <=> \E i \in 1 .. Len(Queue) : Queue[i] = u
FirstIsOnGpu ==
  \A u \in Readings : reading[u].at = "gpu" => Len(Queue) > 0 /\ Queue[1] = u

QueueIInv == HmerTyped /\ QueuedOnce /\ QueueIsWaiting /\ FirstIsOnGpu

(* Who is first has the GPU for itself. *)
LEMMA FirstIsOne == QueueIInv => OneOnGpu
  BY DEF QueueIInv, FirstIsOnGpu, OneOnGpu

(* A call that was idle goes to the end of the queue. *)
LEMMA Joining ==
  ASSUME QueueIInv, NEW u \in Readings, reading[u].at = "idle",
         NEW call \in HmerCalls, call.at = "queued",
         reading' = [reading EXCEPT ![u] = call],
         waiting' = [waiting EXCEPT !["owner"] = Append(@, u)]
  PROVE  QueueIInv'
  <1>1. Queue \in Seq(Readings) /\ Queue' = Append(Queue, u)
    BY DEF QueueIInv, HmerTyped, Queue, Spaces
  <1>2. /\ Len(Queue') = Len(Queue) + 1
        /\ \A i \in 1 .. Len(Queue) : Queue'[i] = Queue[i]
        /\ Queue'[Len(Queue) + 1] = u
    BY <1>1
  <1>3. \A i \in 1 .. Len(Queue) : Queue[i] # u
    BY DEF QueueIInv, QueueIsWaiting, Queued
  <1>4. HmerTyped'
    BY DEF QueueIInv, HmerTyped, Spaces
  <1>5. QueuedOnce'
    BY <1>1, <1>2, <1>3 DEF QueueIInv, QueuedOnce
  <1>6. reading'[u].at = "queued" /\ \A w \in Readings \ {u} : reading'[w] = reading[w]
    BY DEF QueueIInv, HmerTyped
  <1>7. QueueIsWaiting'
    <2> SUFFICES ASSUME NEW w \in Readings
                 PROVE  reading'[w].at \in Queued <=> \E i \in 1 .. Len(Queue') : Queue'[i] = w
      BY DEF QueueIsWaiting
    <2>1. CASE w = u
      BY <1>1, <1>2, <1>6, <2>1 DEF Queued
    <2>2. CASE w # u
      <3>1. reading'[w].at \in Queued <=> \E i \in 1 .. Len(Queue) : Queue[i] = w
        BY <1>6, <2>2 DEF QueueIInv, QueueIsWaiting
      <3> QED
        BY <1>1, <1>2, <2>2, <3>1
    <2> QED
      BY <2>1, <2>2
  <1>8. FirstIsOnGpu'
    BY <1>1, <1>2, <1>6 DEF QueueIInv, FirstIsOnGpu
  <1> QED
    BY <1>4, <1>5, <1>7, <1>8 DEF QueueIInv

(* The one on the GPU leaves the queue. *)
LEMMA Leaving ==
  ASSUME QueueIInv, NEW u \in Readings, reading[u].at = "gpu",
         NEW call \in HmerCalls, call.at \notin Queued,
         reading' = [reading EXCEPT ![u] = call],
         waiting' = [waiting EXCEPT !["owner"] = Tail(@)]
  PROVE  QueueIInv'
  <1>1. Queue \in Seq(Readings) /\ Queue' = Tail(Queue)
    BY DEF QueueIInv, HmerTyped, Queue, Spaces
  <1>2. Len(Queue) > 0 /\ Queue[1] = u
    BY DEF QueueIInv, FirstIsOnGpu
  <1>3. /\ Len(Queue') = Len(Queue) - 1
        /\ \A i \in 1 .. Len(Queue') : Queue'[i] = Queue[i + 1]
    BY <1>1, <1>2
  <1>4. HmerTyped'
    <2>1. Tail(Queue) \in Seq(Readings)
      BY <1>1, <1>2
    <2> QED
      BY <2>1 DEF QueueIInv, HmerTyped, Queue, Spaces
  <1>5. QueuedOnce'
    BY <1>1, <1>3 DEF QueueIInv, QueuedOnce
  <1>6. reading'[u].at \notin Queued /\ \A w \in Readings \ {u} : reading'[w] = reading[w]
    BY DEF QueueIInv, HmerTyped
  <1>7. QueueIsWaiting'
    <2> SUFFICES ASSUME NEW w \in Readings
                 PROVE  reading'[w].at \in Queued <=> \E i \in 1 .. Len(Queue') : Queue'[i] = w
      BY DEF QueueIsWaiting
    <2>1. CASE w = u
      <3>1. \A i \in 1 .. Len(Queue') : Queue'[i] # u
        BY <1>1, <1>2, <1>3 DEF QueueIInv, QueuedOnce
      <3> QED
        BY <1>6, <2>1, <3>1
    <2>2. CASE w # u
      <3>1. reading'[w].at \in Queued <=> \E i \in 1 .. Len(Queue) : Queue[i] = w
        BY <1>6, <2>2 DEF QueueIInv, QueueIsWaiting
      <3>2. ASSUME NEW i \in 1 .. Len(Queue), Queue[i] = w
            PROVE  i - 1 \in 1 .. Len(Queue') /\ Queue'[i - 1] = w
        BY <1>1, <1>2, <1>3, <2>2, <3>2
      <3>3. ASSUME NEW i \in 1 .. Len(Queue'), Queue'[i] = w
            PROVE  i + 1 \in 1 .. Len(Queue) /\ Queue[i + 1] = w
        BY <1>1, <1>2, <1>3, <3>3
      <3> QED
        BY <3>1, <3>2, <3>3
    <2> QED
      BY <2>1, <2>2
  <1>8. FirstIsOnGpu'
    <2>1. \A w \in Readings : reading'[w].at # "gpu"
      BY <1>2, <1>6 DEF QueueIInv, FirstIsOnGpu, Queued
    <2> QED
      BY <2>1 DEF FirstIsOnGpu
  <1> QED
    BY <1>4, <1>5, <1>7, <1>8 DEF QueueIInv

(* A call off the queue goes on without it. *)
LEMMA Pruning ==
  ASSUME QueueIInv, NEW u \in Readings, reading[u].at \notin Queued,
         NEW call \in HmerCalls, call.at \notin Queued,
         reading' = [reading EXCEPT ![u] = call], waiting' = waiting
  PROVE  QueueIInv'
  <1>1. /\ reading'[u].at \notin Queued
        /\ \A w \in Readings \ {u} : reading'[w] = reading[w]
    BY DEF QueueIInv, HmerTyped
  <1>2. Queue' = Queue
    BY DEF Queue
  <1>3. HmerTyped' /\ QueuedOnce'
    BY <1>2 DEF QueueIInv, HmerTyped, QueuedOnce
  <1>4. QueueIsWaiting'
    BY <1>1, <1>2 DEF QueueIInv, QueueIsWaiting
  <1>5. FirstIsOnGpu'
    BY <1>1, <1>2 DEF QueueIInv, FirstIsOnGpu, Queued
  <1> QED
    BY <1>3, <1>4, <1>5 DEF QueueIInv

LEMMA LeaveGpuStep ==
  ASSUME QueueIInv, NEW u \in Readings, reading[u].at = "gpu",
         NEW to \in {"idle", "listing"}, LeaveGpu(u, to)
  PROVE  QueueIInv'
  <1> DEFINE call == IF to = "idle" THEN Idle ELSE [reading[u] EXCEPT !.at = to]
  <1>1. call \in HmerCalls /\ call.at \notin Queued
    BY DEF QueueIInv, HmerTyped, HmerCalls, Places, Spaces, Idle, Queued
  <1>2. reading' = [reading EXCEPT ![u] = call]
    BY DEF LeaveGpu, QueueIInv, HmerTyped
  <1>3. waiting' = [waiting EXCEPT !["owner"] = Tail(@)]
    BY DEF LeaveGpu, LockOf
  <1> HIDE DEF call
  <1> QED
    BY <1>1, <1>2, <1>3, Leaving

LEMMA TakeGpuStep ==
  ASSUME QueueIInv, NEW u \in Readings, TakeGpu(u)
  PROVE  QueueIInv'
  <1>1. /\ reading'[u] = [reading[u] EXCEPT !.at = "gpu"]
        /\ \A w \in Readings \ {u} : reading'[w] = reading[w]
        /\ reading' \in [Readings -> HmerCalls]
    BY DEF TakeGpu, Moved, QueueIInv, HmerTyped, HmerCalls, Places
  <1>2. reading'[u].at = "gpu"
    BY <1>1 DEF QueueIInv, HmerTyped, HmerCalls
  <1>3. Queue' = Queue /\ waiting' = waiting
    BY DEF TakeGpu, Queue
  <1>4. Len(Queue) > 0 /\ Queue[1] = u
    <2>1. Queue \in Seq(Readings) /\ Head(Queue) = u
      BY DEF TakeGpu, LockOf, Queue, QueueIInv, HmerTyped, Spaces
    <2>2. \E i \in 1 .. Len(Queue) : Queue[i] = u
      BY DEF TakeGpu, QueueIInv, QueueIsWaiting, Queued
    <2> QED
      BY <2>1, <2>2
  <1>5. HmerTyped' /\ QueuedOnce'
    BY <1>1, <1>3 DEF QueueIInv, HmerTyped, QueuedOnce
  <1>6. QueueIsWaiting'
    <2>1. reading[u].at \in Queued /\ reading'[u].at \in Queued
      BY <1>2 DEF TakeGpu, Queued
    <2> QED
      BY <1>1, <1>3, <2>1 DEF QueueIInv, QueueIsWaiting
  <1>7. FirstIsOnGpu'
    BY <1>1, <1>3, <1>4 DEF QueueIInv, FirstIsOnGpu
  <1> QED
    BY <1>5, <1>6, <1>7 DEF QueueIInv

LEMMA HmerStep == QueueIInv /\ [HmerNext]_hmer => QueueIInv'
  <1> SUFFICES ASSUME QueueIInv, [HmerNext]_hmer PROVE QueueIInv'
    OBVIOUS
  <1>1. ASSUME NEW u \in Readings, NEW space \in Spaces,
               Recognize(u, space) \/ Explain(u, space)
        PROVE  QueueIInv'
    <2>1. reading[u].at = "idle" /\ waiting' = [waiting EXCEPT !["owner"] = Append(@, u)]
      BY <1>1 DEF Recognize, Explain, Idle, LockOf
    <2>2. PICK do \in {"read", "explain"} :
            reading' = [reading EXCEPT ![u] = [at |-> "queued", space |-> space, do |-> do]]
      BY <1>1 DEF Recognize, Explain
    <2>3. [at |-> "queued", space |-> space, do |-> do] \in HmerCalls
      BY DEF HmerCalls, Places
    <2> QED
      BY <2>1, <2>2, <2>3, Joining
  <1>2. ASSUME NEW u \in Readings, LoadFails(u) \/ ReadFails(u) \/ ReadSucceeds(u)
        PROVE  QueueIInv'
    <2>1. reading[u].at = "gpu" /\ \E to \in {"idle", "listing"} : LeaveGpu(u, to)
      BY <1>2 DEF LoadFails, ReadFails, ReadSucceeds
    <2> QED
      BY <2>1, LeaveGpuStep
  <1>3. ASSUME NEW u \in Readings, ListImages(u) \/ SortImages(u) \/ UnlinkImages(u)
        PROVE  QueueIInv'
    <2>1. reading[u].at \notin Queued /\ waiting' = waiting
      BY <1>3 DEF ListImages, SortImages, UnlinkImages, Queued
    <2>2. PICK call \in {Idle} \cup {[reading[u] EXCEPT !.at = to] : to \in {"sorting", "unlinking"}} :
            reading' = [reading EXCEPT ![u] = call]
      BY <1>3 DEF ListImages, SortImages, UnlinkImages, Moved, QueueIInv, HmerTyped
    <2>3. call \in HmerCalls /\ call.at \notin Queued
      BY <2>2 DEF QueueIInv, HmerTyped, HmerCalls, Places, Spaces, Idle, Queued
    <2> QED
      BY <2>1, <2>2, <2>3, Pruning
  <1>4. ASSUME UNCHANGED hmer PROVE QueueIInv'
    BY <1>4 DEF hmer, QueueIInv, HmerTyped, QueuedOnce, QueueIsWaiting, FirstIsOnGpu, Queue
  <1> QED
    BY <1>1, <1>2, <1>3, <1>4, TakeGpuStep DEF HmerNext

LEMMA HmerQueue == HmerSpec => []QueueIInv
  <1>1. HmerInit => QueueIInv
    <2> SUFFICES ASSUME HmerInit PROVE QueueIInv
      OBVIOUS
    <2>1. HmerTyped
      BY DEF HmerInit, HmerTyped, HmerCalls, Places, Idle, Spaces
    <2>2. Queue = <<>> /\ \A u \in Readings : reading[u].at = "idle"
      BY DEF HmerInit, Queue, Spaces, Idle
    <2> QED
      BY <2>1, <2>2 DEF QueueIInv, QueuedOnce, QueueIsWaiting, FirstIsOnGpu, Queued
  <1> QED
    BY <1>1, HmerStep, PTL DEF HmerSpec

(* However many recognitions and explanations of the owner and of guests   *)
(* come in, no two are on the GPU at once (service.py:47-59, 85-119).      *)
THEOREM GpuIsShared == HmerSpec => []OneOnGpu
  BY HmerQueue, FirstIsOne, PTL

-----------------------------------------------------------------------------
(* Hmer, the guests' folder. A thread that is about to remove images holds *)
(* only such as have KeepImages newer ones, and newer ones only come.      *)

FolderIInv ==
  /\ saved \in Nat
  /\ images \subseteq 1 .. saved
  /\ \A u \in Readings : listing[u] \subseteq 1 .. saved
  /\ \A u \in Readings : reading[u].at = "unlinking" =>
       \A i \in listing[u] : i <= saved - KeepImages
  /\ listing = [u \in Readings |-> listing[u]]
  /\ NewestImagesStay

LEMMA BeyondOld ==
  ASSUME KeepImages \in Nat, NEW n \in Nat, NEW found \in SUBSET (1 .. n), NEW i \in Beyond(found)
  PROVE  i <= n - KeepImages
<1> DEFINE above == {j \in found : j > i}
<1>1. i \in 1 .. n /\ Cardinality(above) >= KeepImages
  BY Zenon DEF Beyond
<1>2. above \subseteq (i + 1) .. n
  <2>1. \A j \in found : j \in 1 .. n
    OBVIOUS
  <2>2. i \in 1 .. n
    BY <1>1
  <2>3. \A j \in above : j \in (i + 1) .. n
    BY <2>1, <2>2
  <2> QED  BY <2>3
<1>3. /\ IsFiniteSet((i + 1) .. n)
      /\ Cardinality((i + 1) .. n) = IF i + 1 > n THEN 0 ELSE n - (i + 1) + 1
  BY <1>1, FS_Interval
<1>4. IsFiniteSet(above) /\ Cardinality(above) <= Cardinality((i + 1) .. n)
  BY <1>2, <1>3, FS_Subset
<1>5. Cardinality(above) \in Nat
  BY <1>4, FS_CardinalityType
<1> HIDE DEF above
<1> QED  BY <1>1, <1>3, <1>4, <1>5

LEMMA FolderStep == QueueIInv /\ FolderIInv /\ [HmerNext]_hmer => FolderIInv'
<1> SUFFICES ASSUME QueueIInv, FolderIInv, [HmerNext]_hmer PROVE FolderIInv'
  OBVIOUS
<1>k. KeepImages \in Nat
  BY KeepAssumption
<1>t. reading \in [Readings -> HmerCalls]
  BY DEF QueueIInv, HmerTyped
<1>i. Idle.at = "idle"
  BY DEF Idle
<1>m. ASSUME NEW u \in Readings, NEW to, Moved(u, to)
      PROVE  \A w \in Readings : reading'[w].at = IF w = u THEN to ELSE reading[w].at
  BY <1>t, <1>m DEF Moved, HmerCalls
<1> USE DEF FolderIInv, NewestImagesStay
<1>1. ASSUME NEW u \in Readings, NEW space \in Spaces, Recognize(u, space) PROVE FolderIInv'
  <2>1. listing' = listing /\ \A w \in Readings : reading'[w].at = "unlinking" => reading[w].at = "unlinking"
    BY <1>1, <1>t DEF Recognize
  <2>2. CASE space = "guest"
    <3>1. saved' = saved + 1 /\ images' = images \cup {saved + 1}
      BY <1>1, <2>2 DEF Recognize, SaveImage
    <3>2. images' \subseteq 1 .. saved' /\ \A w \in Readings : listing[w] \subseteq 1 .. saved'
      BY <3>1
    <3>3. \A w \in Readings : reading'[w].at = "unlinking" =>
            \A i \in listing[w] : i <= saved' - KeepImages
      BY <1>k, <2>1, <3>1
    <3>4. NewestImagesStay'
      BY <1>k, <3>1
    <3> QED  BY <2>1, <3>1, <3>2, <3>3, <3>4
  <2>3. CASE space # "guest"
    BY <1>1, <2>1, <2>3 DEF Recognize, SaveImage
  <2> QED  BY <2>2, <2>3
<1>2. ASSUME NEW u \in Readings, NEW space \in Spaces, Explain(u, space) PROVE FolderIInv'
  <2>1. \A w \in Readings : reading'[w].at = "unlinking" => reading[w].at = "unlinking"
    BY <1>2, <1>t DEF Explain
  <2> QED  BY <1>2, <2>1 DEF Explain
<1>3. ASSUME NEW u \in Readings, TakeGpu(u) PROVE FolderIInv'
  BY <1>3, <1>m DEF TakeGpu
<1>4. ASSUME NEW u \in Readings, LoadFails(u) \/ ReadFails(u) \/ ReadSucceeds(u) PROVE FolderIInv'
  <2>1. PICK to \in {"idle", "listing"} : LeaveGpu(u, to)
    BY <1>4 DEF LoadFails, ReadFails, ReadSucceeds
  <2>2. \A w \in Readings : reading'[w].at = "unlinking" => reading[w].at = "unlinking"
    BY <2>1, <1>t, <1>i DEF LeaveGpu, HmerCalls
  <2> QED  BY <2>1, <2>2 DEF LeaveGpu
<1>5. ASSUME NEW u \in Readings, ListImages(u) PROVE FolderIInv'
  BY <1>5, <1>m DEF ListImages
<1>6. ASSUME NEW u \in Readings, SortImages(u) PROVE FolderIInv'
  <2>0. UNCHANGED <<saved, images>>
    BY <1>6 DEF SortImages
  <2>1. CASE listing[u] \subseteq images
    <3>1. listing' = [listing EXCEPT ![u] = Beyond(listing[u])] /\ Moved(u, "unlinking")
      BY <1>6, <2>1 DEF SortImages
    <3>2. \A i \in Beyond(listing[u]) : i \in 1 .. saved /\ i <= saved - KeepImages
      BY <1>k, BeyondOld DEF Beyond
    <3> QED  BY <1>m, <2>0, <3>1, <3>2
  <2>2. CASE ~(listing[u] \subseteq images)
    BY <1>6, <1>i, <1>t, <2>0, <2>2 DEF SortImages
  <2> QED  BY <2>1, <2>2
<1>7. ASSUME NEW u \in Readings, UnlinkImages(u) PROVE FolderIInv'
  <2>1. /\ reading[u].at = "unlinking" /\ images' = images \ listing[u] /\ saved' = saved
        /\ listing' = [listing EXCEPT ![u] = {}] /\ reading' = [reading EXCEPT ![u] = Idle]
    BY <1>7 DEF UnlinkImages
  <2>2. \A i \in listing[u] : i <= saved - KeepImages
    BY <2>1
  <2>3. NewestImagesStay'
    BY <1>k, <2>1, <2>2
  <2>4. \A w \in Readings : reading'[w].at = "unlinking" => w # u /\ reading[w].at = "unlinking"
    BY <1>i, <1>t, <2>1
  <2>5. /\ \A w \in Readings : listing'[w] = IF w = u THEN {} ELSE listing[w]
        /\ listing' = [w \in Readings |-> listing'[w]]
    BY <2>1
  <2> QED  BY <2>1, <2>3, <2>4, <2>5
<1>8. CASE UNCHANGED hmer
  BY <1>8 DEF hmer
<1> QED  BY <1>1, <1>2, <1>3, <1>4, <1>5, <1>6, <1>7, <1>8 DEF HmerNext

(* However the pruning threads overlap with each other and with new        *)
(* uploads, the newest KeepImages of the guests' images stay               *)
(* (shared/files.py:50-59).                                                *)
THEOREM GuestImagesKept == HmerSpec => []NewestImagesStay
<1>1. HmerInit => FolderIInv
  <2> SUFFICES ASSUME HmerInit PROVE FolderIInv
    OBVIOUS
  <2>1. saved = 0 /\ images = {} /\ listing = [u \in Readings |-> {}]
    BY DEF HmerInit
  <2>2. \A u \in Readings : listing[u] = {}
    BY <2>1
  <2>3. NewestImagesStay
    BY <2>1 DEF NewestImagesStay
  <2>4. listing = [u \in Readings |-> listing[u]]
    BY <2>1, <2>2
  <2>5. saved \in Nat /\ images \subseteq 1 .. saved
    BY <2>1
  <2>6. \A u \in Readings : listing[u] \subseteq 1 .. saved
    BY <2>2
  <2>7. \A u \in Readings : reading[u].at = "unlinking" =>
          \A i \in listing[u] : i <= saved - KeepImages
    BY <2>2
  <2> QED  BY <2>3, <2>4, <2>5, <2>6, <2>7 DEF FolderIInv
<1>2. FolderIInv => NewestImagesStay
  BY DEF FolderIInv
<1> QED  BY <1>1, <1>2, HmerQueue, FolderStep, PTL DEF HmerSpec

-----------------------------------------------------------------------------
(***************************************************************************)
(* No connection pool is lost, for any number of threads: the lock admits  *)
(* one creator, who only creates while none is published, and a shutdown   *)
(* closes the published pool before it forgets it.                         *)
(**************************************************************************)

Creating == {"checking", "opening"}
PoolOrNone == Pools \cup {NoPool}

LifespanTyped ==
  /\ thread \in [Threads -> {"idle", "locking", "working"} \cup Creating]
  /\ holds \in [Threads -> PoolOrNone]
  /\ pool \in PoolOrNone
  /\ lock \subseteq Threads
  /\ made \in 0 .. MaxPools
  /\ open \subseteq Pools

LockHeld ==
  /\ \A t \in Threads : t \in lock <=> thread[t] \in Creating
  /\ \A s, t \in lock : s = t

OpeningFirst == \A t \in Threads : thread[t] = "opening" => pool = NoPool
ClosedBeforeForgotten == process = "closing" => pool # NoPool /\ pool \notin open

PoolIInv == LifespanTyped /\ LockHeld /\ OpeningFirst /\ ClosedBeforeForgotten /\ NoPoolLost

(* The lock is neither taken nor given back, no pool opened or closed.     *)
LEMMA Passing ==
  ASSUME PoolIInv, NEW t \in Threads, thread[t] \notin Creating,
         NEW to \in {"idle", "locking", "working"}, thread' = [thread EXCEPT ![t] = to],
         NEW p \in PoolOrNone, Hold(t, p), UNCHANGED <<process, pool, lock, made, open>>
  PROVE  PoolIInv'
  <1>1. LifespanTyped'
    BY DEF PoolIInv, LifespanTyped, Hold
  <1>2. LockHeld'
    BY DEF PoolIInv, LifespanTyped, LockHeld, Creating
  <1>3. OpeningFirst' /\ ClosedBeforeForgotten'
    BY DEF PoolIInv, LifespanTyped, OpeningFirst, ClosedBeforeForgotten
  <1>4. NoPoolLost'
    BY DEF PoolIInv, LifespanTyped, LockHeld, NoPoolLost, Hold, Creating
  <1> QED
    BY <1>1, <1>2, <1>3, <1>4 DEF PoolIInv

LEMMA LockStep ==
  ASSUME PoolIInv, NEW t \in Threads, Lock(t)
  PROVE  PoolIInv'
  <1>1. LifespanTyped' /\ LockHeld'
    BY DEF PoolIInv, LifespanTyped, LockHeld, Lock, Step, Creating
  <1>2. OpeningFirst' /\ ClosedBeforeForgotten'
    BY DEF PoolIInv, LifespanTyped, OpeningFirst, ClosedBeforeForgotten, Lock, Step
  <1>3. NoPoolLost'
    BY DEF PoolIInv, NoPoolLost, Lock
  <1> QED
    BY <1>1, <1>2, <1>3 DEF PoolIInv

(* Whoever creates has the lock and found nothing published, so what is    *)
(* open besides its pool is nothing.                                       *)
LEMMA CreateStep ==
  ASSUME PoolIInv, NEW t \in Threads, pool = NoPool, Create(t)
  PROVE  PoolIInv'
  <1>1. LifespanTyped'
    <2>1. made' \in Pools /\ made' \in 0 .. MaxPools
      BY MaxPoolsAssumption DEF PoolIInv, LifespanTyped, Create, Pools
    <2> QED
      BY <2>1 DEF PoolIInv, LifespanTyped, Create, Step, Hold, Creating, PoolOrNone
  <1>2. LockHeld'
    BY DEF PoolIInv, LifespanTyped, LockHeld, Create, Step, Creating
  <1>3. OpeningFirst' /\ ClosedBeforeForgotten'
    BY DEF PoolIInv, LifespanTyped, OpeningFirst, ClosedBeforeForgotten, Create
  <1>4. NoPoolLost'
    <2> SUFFICES ASSUME NEW p \in open'
                 PROVE  p = pool' \/ \E s \in lock' : thread'[s] = "opening" /\ holds'[s] = p
      BY DEF NoPoolLost
    <2>1. CASE p = made'
      BY <2>1 DEF PoolIInv, LifespanTyped, LockHeld, Create, Step, Hold, Creating
    <2>2. CASE p \in open
      BY <2>2 DEF PoolIInv, LifespanTyped, LockHeld, NoPoolLost, Create, Step, Creating
    <2> QED
      BY <2>1, <2>2 DEF Create
  <1> QED
    BY <1>1, <1>2, <1>3, <1>4 DEF PoolIInv

LEMMA UsePublishedStep ==
  ASSUME PoolIInv, NEW t \in Threads, UsePublished(t)
  PROVE  PoolIInv'
  <1>1. LifespanTyped'
    BY DEF PoolIInv, LifespanTyped, UsePublished, Step, Hold
  <1>2. LockHeld'
    BY DEF PoolIInv, LifespanTyped, LockHeld, UsePublished, Step, Creating
  <1>3. OpeningFirst' /\ ClosedBeforeForgotten'
    BY DEF PoolIInv, LifespanTyped, OpeningFirst, ClosedBeforeForgotten, UsePublished, Step
  <1>4. NoPoolLost'
    BY DEF PoolIInv, OpeningFirst, LifespanTyped, NoPoolLost, UsePublished
  <1> QED
    BY <1>1, <1>2, <1>3, <1>4 DEF PoolIInv

(* What the lock holder opened becomes the published pool; a shutdown is   *)
(* not closing one, since there was none.                                  *)
LEMMA PublishPoolStep ==
  ASSUME PoolIInv, NEW t \in Threads, PublishPool(t)
  PROVE  PoolIInv'
  <1>1. LifespanTyped'
    BY DEF PoolIInv, LifespanTyped, PublishPool, Step
  <1>2. LockHeld'
    BY DEF PoolIInv, LifespanTyped, LockHeld, PublishPool, Step, Creating
  <1>3. pool = NoPool /\ t \in lock /\ process # "closing"
    BY DEF PoolIInv, LockHeld, OpeningFirst, ClosedBeforeForgotten, PublishPool, Step, Creating
  <1>4. OpeningFirst'
    BY <1>2 DEF PoolIInv, LifespanTyped, OpeningFirst, LockHeld, PublishPool, Step, Creating
  <1>5. ClosedBeforeForgotten'
    BY <1>3 DEF ClosedBeforeForgotten, PublishPool
  <1>6. NoPoolLost'
    <2>1. \A p \in open : p = holds[t]
      BY <1>3, NoPoolAssumption DEF PoolIInv, LifespanTyped, LockHeld, NoPoolLost
    <2> QED
      BY <2>1 DEF NoPoolLost, PublishPool
  <1> QED
    BY <1>1, <1>2, <1>4, <1>5, <1>6 DEF PoolIInv

LEMMA OpenFailsStep ==
  ASSUME PoolIInv, NEW t \in Threads, OpenFails(t)
  PROVE  PoolIInv'
  <1>1. LifespanTyped'
    BY DEF PoolIInv, LifespanTyped, OpenFails, GiveUp, Step, Hold, PoolOrNone
  <1>2. t \in lock
    BY DEF PoolIInv, LockHeld, OpenFails, GiveUp, Step, Creating
  <1>3. LockHeld'
    BY <1>2 DEF PoolIInv, LifespanTyped, LockHeld, OpenFails, GiveUp, Step, Creating
  <1>4. OpeningFirst' /\ ClosedBeforeForgotten'
    BY DEF PoolIInv, LifespanTyped, OpeningFirst, ClosedBeforeForgotten, OpenFails, GiveUp, Step
  <1>5. NoPoolLost'
    BY <1>2 DEF PoolIInv, LockHeld, NoPoolLost, OpenFails
  <1> QED
    BY <1>1, <1>3, <1>4, <1>5 DEF PoolIInv

LEMMA LifespanStep == PoolIInv /\ [LifespanNext]_lifespan => PoolIInv'
  <1> SUFFICES ASSUME PoolIInv, [LifespanNext]_lifespan PROVE PoolIInv'
    OBVIOUS
  <1>1. ASSUME NEW t \in Threads, FindPool(t) \/ Finish(t) PROVE PoolIInv'
    <2>1. PICK p \in {pool, NoPool}, to \in {"idle", "locking", "working"} :
            thread' = [thread EXCEPT ![t] = to] /\ Hold(t, p)
      BY <1>1 DEF FindPool, Finish, Step
    <2>2. thread[t] \notin Creating /\ p \in PoolOrNone
          /\ UNCHANGED <<process, pool, lock, made, open>>
      BY <1>1 DEF FindPool, Finish, Step, Creating, PoolOrNone, PoolIInv, LifespanTyped
    <2> QED
      BY <2>1, <2>2, Passing
  <1>2. ASSUME NEW t \in Threads, Check(t) PROVE PoolIInv'
    BY <1>2, CreateStep, UsePublishedStep DEF Check
  <1>3. CASE Start \/ Stop
    BY <1>3 DEF Start, Stop, PoolIInv, LifespanTyped, LockHeld, OpeningFirst, ClosedBeforeForgotten,
                NoPoolLost
  <1>4. CASE Close
    BY <1>4 DEF Close, PoolIInv, LifespanTyped, LockHeld, OpeningFirst, ClosedBeforeForgotten, NoPoolLost
  <1>5. CASE ForgetPool
    <2>1. LifespanTyped' /\ LockHeld' /\ OpeningFirst' /\ ClosedBeforeForgotten'
      BY <1>5 DEF ForgetPool, PoolIInv, LifespanTyped, LockHeld, OpeningFirst, ClosedBeforeForgotten,
                  PoolOrNone
    <2>2. NoPoolLost'
      BY <1>5 DEF ForgetPool, PoolIInv, ClosedBeforeForgotten, NoPoolLost
    <2> QED
      BY <2>1, <2>2 DEF PoolIInv
  <1>6. CASE UNCHANGED lifespan
    BY <1>6 DEF lifespan, PoolIInv, LifespanTyped, LockHeld, OpeningFirst, ClosedBeforeForgotten, NoPoolLost
  <1> QED
    BY <1>1, <1>2, <1>3, <1>4, <1>5, <1>6, LockStep, PublishPoolStep, OpenFailsStep
       DEF LifespanNext

(* Whatever threads race to create the pool, fail to open it or have it    *)
(* closed under them, what is open is the published pool or the one being  *)
(* opened under the lock (news/store.py:31-51, 62-65).                     *)
THEOREM PoolsAreKept == LifespanSpec => []NoPoolLost
  <1>1. LifespanInit => PoolIInv
    BY MaxPoolsAssumption DEF LifespanInit, PoolIInv, LifespanTyped, LockHeld, OpeningFirst,
       ClosedBeforeForgotten, NoPoolLost, Creating, PoolOrNone
  <1>2. PoolIInv => NoPoolLost
    BY DEF PoolIInv
  <1> QED
    BY <1>1, <1>2, LifespanStep, PTL DEF LifespanSpec

-----------------------------------------------------------------------------
(* Backups. A file's name is its stamp and its kind: no two runs have the  *)
(* same, and a run's is not in the directory before it has named its dump. *)

Holdings == Versions \cup {Broken}
Files == [stamp : Nat, safety : BOOLEAN, holds : Holdings]
Jobs == [command : {"none", "backup", "restore"}, stamp : Nat, target : Files]
Begun == {"dumping", "drilling", "recording", "naming"}
Named == {"pruning", "unlinking", "tidying"}
Restoring == {"copying", "scripting", "restored"}

BackupsTyped ==
  /\ live \in Versions /\ versions \in Nat /\ clock \in Nat
  /\ op \in [Operators -> {"idle"} \cup Begun \cup Named \cup Restoring]
  /\ job \in [Operators -> Jobs]
  /\ partial \in [Operators -> Holdings]
  /\ doomed \in [Operators -> SUBSET Files]
  /\ dumps \subseteq finished /\ finished \subseteq Files /\ manifests \subseteq Files

IsFileOf(p, f) == f.stamp = job[p].stamp /\ (f.safety <=> Safety(p))

JobsDiffer ==
  /\ \A p \in Operators : op[p] # "idle" <=> job[p].command # "none"
  /\ \A p, q \in Operators : /\ op[p] # "idle" /\ op[q] # "idle"
                             /\ job[p].command = job[q].command /\ job[p].stamp = job[q].stamp
                             => p = q
  /\ \A p \in Operators : job[p].command = "restore" => job[p].target.holds # Broken
  /\ \A p \in Operators : op[p] \in Restoring => Safety(p)

NamesNew ==
  /\ \A p \in Operators : op[p] \in Begun => \A f \in finished : ~IsFileOf(p, f)
  /\ \A f, g \in finished : f.stamp = g.stamp /\ f.safety = g.safety => f = g

Whole ==
  /\ \A f \in finished : f.holds # Broken
  /\ \A p \in Operators :
       op[p] \in {"recording", "naming"} \cup Named \cup Restoring => partial[p] # Broken

Described ==
  /\ \A p \in Operators : op[p] = "naming" =>
       \A m \in manifests : IsFileOf(p, m) => m.holds = partial[p]
  /\ \A f \in dumps, m \in manifests :
       m.stamp = f.stamp /\ m.safety = f.safety => m.holds = f.holds

Kept ==
  /\ \A f \in finished : f.safety \/ Newer(f, finished) = {} => f \in dumps
  /\ \A p \in Operators : \A f \in doomed[p] : ~f.safety /\ Newer(f, finished) # {}
  /\ \A p \in Operators : op[p] \in Restoring =>
       \E f \in dumps : IsFileOf(p, f) /\ f.holds = partial[p]

BackupsIInv == BackupsTyped /\ JobsDiffer /\ NamesNew /\ Whole /\ Described /\ Kept

LEMMA BackupNumbers == Keep \in Nat \ {0} /\ 0 \in Versions /\ Broken \notin Versions
  BY BackupsAssumption DEF Versions

LEMMA FileFields ==
  ASSUME BackupsTyped, NEW p \in Operators, NEW h \in Holdings
  PROVE  /\ File(p, h) \in Files /\ File(p, h).holds = h /\ File(p, h).stamp = job[p].stamp
         /\ (File(p, h).safety <=> Safety(p))
<1>1. job[p].stamp \in Nat
  BY DEF BackupsTyped, Jobs
<1>2. PICK b \in BOOLEAN :
        (b <=> Safety(p)) /\ File(p, h) = [stamp |-> job[p].stamp, safety |-> b, holds |-> h]
  BY Zenon DEF File, Safety
<1> QED  BY <1>1, <1>2 DEF Files

LEMMA FileIs ==
  ASSUME BackupsTyped, NEW p \in Operators, NEW f \in Files, IsFileOf(p, f)
  PROVE  File(p, f.holds) = f
<1>1. PICK b \in BOOLEAN : (b <=> Safety(p)) /\
        File(p, f.holds) = [stamp |-> job[p].stamp, safety |-> b, holds |-> f.holds]
  BY Zenon DEF File, Safety
<1>2. f = [stamp |-> f.stamp, safety |-> f.safety, holds |-> f.holds] /\ f.safety \in BOOLEAN
  BY DEF Files
<1>3. f.safety = b
  BY <1>1, <1>2 DEF IsFileOf
<1> QED  BY <1>1, <1>2, <1>3 DEF IsFileOf

(* Two runs under way name different files. *)
LEMMA RunsNameApart ==
  ASSUME BackupsTyped, JobsDiffer, NEW p \in Operators, NEW q \in Operators, p # q,
         op[p] # "idle", op[q] # "idle", job[p].stamp = job[q].stamp
  PROVE  ~(Safety(p) <=> Safety(q))
<1>1. /\ job[p].command \in {"backup", "restore"} /\ job[q].command \in {"backup", "restore"}
      /\ job[p].command # job[q].command
  BY DEF BackupsTyped, JobsDiffer, Jobs
<1> QED  BY <1>1 DEF Safety

(* A run moves on with its job. *)
LEMMA Advances ==
  ASSUME BackupsTyped, JobsDiffer, NEW p \in Operators, NEW from, from # "idle",
         NEW to \in Begun \cup Named \cup Restoring,
         Advance(p, from, to), UNCHANGED <<job>>, to \in Restoring => Safety(p)
  PROVE  /\ op[p] = from /\ op' = [op EXCEPT ![p] = to]
         /\ op' \in [Operators -> {"idle"} \cup Begun \cup Named \cup Restoring]
         /\ \A q \in Operators : op'[q] = IF q = p THEN to ELSE op[q]
         /\ JobsDiffer'
<1>1. op[p] = from /\ op' = [op EXCEPT ![p] = to]
  BY DEF Advance
<1>2. \A q \in Operators : op'[q] = IF q = p THEN to ELSE op[q]
  BY <1>1 DEF BackupsTyped
<1>3. to # "idle"
  BY DEF Begun, Named, Restoring
<1>4. JobsDiffer'
  BY <1>1, <1>2, <1>3 DEF JobsDiffer, Safety
<1> QED  BY <1>1, <1>2, <1>4 DEF BackupsTyped

LEMMA BackupsInitOk == BackupsInit => BackupsIInv
<1> SUFFICES ASSUME BackupsInit PROVE BackupsIInv
  OBVIOUS
<1>1. NoJob \in Jobs /\ NoJob.command = "none"
  BY DEF NoJob, NoFile, Jobs, Files, Holdings
<1>2. BackupsTyped
  BY <1>1, BackupNumbers DEF BackupsInit, BackupsTyped, Holdings
<1>3. JobsDiffer
  BY <1>1 DEF BackupsInit, JobsDiffer, Restoring
<1> QED  BY <1>2, <1>3, BackupNumbers
         DEF BackupsInit, BackupsIInv, NamesNew, Whole, Described, Kept, Begun, Named, Restoring

(* A run begins: its command, and a second no run of its kind has had.     *)
LEMMA BeginKeeps ==
  ASSUME BackupsIInv, NEW p \in Operators, BeginBackup(p) \/ \E f \in dumps : BeginRestore(p, f)
  PROVE  BackupsIInv'
<1> USE DEF BackupsIInv
<1>1. UNCHANGED <<live, versions, clock, partial, doomed, dumps, manifests, finished>>
  BY DEF BeginBackup, BeginRestore, database, scratch, directory
<1>2. op[p] = "idle" /\ op' = [op EXCEPT ![p] = "dumping"]
  BY DEF BeginBackup, BeginRestore, Advance
<1>3. PICK c \in {"backup", "restore"}, r \in Files :
        /\ job' = [job EXCEPT ![p] = [command |-> c, stamp |-> clock, target |-> r]]
        /\ \A q \in Operators : ~(job[q].command = c /\ job[q].stamp = clock)
        /\ \A g \in finished : ~(g.stamp = clock /\ (g.safety <=> c = "restore"))
        /\ c = "restore" => r.holds # Broken
  <2>1. CASE BeginBackup(p)
    <3>1. NoFile \in Files
      BY DEF NoFile, Files, Holdings
    <3> QED  BY <2>1, <3>1 DEF BeginBackup, Regular
  <2>2. ASSUME NEW f \in dumps, BeginRestore(p, f)
        PROVE  /\ f \in Files /\ f.holds # Broken
               /\ job' = [job EXCEPT ![p] = [command |-> "restore", stamp |-> clock, target |-> f]]
               /\ \A q \in Operators : ~(job[q].command = "restore" /\ job[q].stamp = clock)
               /\ \A g \in finished : ~(g.stamp = clock /\ g.safety)
    BY <2>2 DEF BeginRestore, BackupsTyped
  <2> QED  BY <2>1, <2>2
<1> DEFINE j == [command |-> c, stamp |-> clock, target |-> r]
<1>4. j \in Jobs /\ j.command = c /\ j.stamp = clock /\ j.target = r
  BY DEF Jobs, BackupsTyped
<1> HIDE DEF j
<1>5. /\ \A q \in Operators : job'[q] = IF q = p THEN j ELSE job[q]
      /\ \A q \in Operators : op'[q] = IF q = p THEN "dumping" ELSE op[q]
  BY <1>2, <1>3 DEF BackupsTyped, j
<1>6. BackupsTyped'
  BY <1>1, <1>2, <1>3, <1>4 DEF BackupsTyped, Begun, j
<1>7. JobsDiffer'
  BY <1>1, <1>2, <1>3, <1>4, <1>5 DEF JobsDiffer, Safety, Restoring
<1>8. \A q \in Operators \ {p} : \A f : IsFileOf(q, f)' <=> IsFileOf(q, f)
  BY <1>5 DEF IsFileOf, Safety
<1>9. \A f \in finished : ~IsFileOf(p, f)'
  BY <1>3, <1>4, <1>5 DEF IsFileOf, Safety
<1>10. NamesNew'
  BY <1>1, <1>5, <1>8, <1>9 DEF NamesNew
<1>11. Whole'
  BY <1>1, <1>5 DEF Whole, Named, Restoring
<1>12. Described'
  BY <1>1, <1>5, <1>8 DEF Described
<1>13. Kept'
  BY <1>1, <1>5, <1>8 DEF Kept, Restoring, Newer, Regular
<1> QED  BY <1>6, <1>7, <1>10, <1>11, <1>12, <1>13

(* pg_dump, the drill, the manifest. *)
LEMMA DumpKeeps ==
  ASSUME BackupsIInv, NEW p \in Operators, Dump(p) \/ TestRestore(p)
  PROVE  BackupsIInv'
<1> USE DEF BackupsIInv
<1>1. UNCHANGED <<live, versions, clock, job, doomed, dumps, manifests, finished>>
  BY DEF Dump, TestRestore, database, scratch, directory
<1>2. PICK from \in {"dumping", "drilling"}, to \in {"drilling", "recording"} :
        Advance(p, from, to) /\ (from = "dumping" => to = "drilling")
  BY DEF Dump, TestRestore
<1>3. /\ op[p] = from /\ \A q \in Operators : op'[q] = IF q = p THEN to ELSE op[q]
      /\ op' \in [Operators -> {"idle"} \cup Begun \cup Named \cup Restoring] /\ JobsDiffer'
  BY <1>1, <1>2, Advances DEF Begun, Restoring
<1>4. /\ partial' \in [Operators -> Holdings]
      /\ \A q \in Operators \ {p} : partial'[q] = partial[q]
      /\ to = "recording" => partial'[p] # Broken
  <2>1. CASE Dump(p)
    <3>1. to = "drilling" /\ \E h \in {live, Broken} : partial' = [partial EXCEPT ![p] = h]
      BY <2>1, <1>2 DEF Dump, Advance, BackupsTyped
    <3> QED  BY <3>1 DEF BackupsTyped, Holdings
  <2>2. CASE TestRestore(p)
    BY <2>2 DEF TestRestore, Drill, scratch, BackupsTyped
  <2> QED  BY <2>1, <2>2
<1>5. BackupsTyped'
  BY <1>1, <1>3, <1>4 DEF BackupsTyped
<1>6. \A q \in Operators : \A f : IsFileOf(q, f)' <=> IsFileOf(q, f)
  BY <1>1 DEF IsFileOf, Safety
<1>7. NamesNew'
  BY <1>1, <1>3, <1>6 DEF NamesNew, Begun
<1>8. Whole'
  BY <1>1, <1>3, <1>4 DEF Whole, Named, Restoring
<1>9. Described'
  BY <1>1, <1>3, <1>4, <1>6 DEF Described
<1>10. Kept'
  BY <1>1, <1>3, <1>4, <1>6 DEF Kept, Restoring, Newer, Regular
<1> QED  BY <1>3, <1>5, <1>7, <1>8, <1>9, <1>10

LEMMA ManifestKeeps ==
  ASSUME BackupsIInv, NEW p \in Operators, WriteManifest(p)
  PROVE  BackupsIInv'
<1> USE DEF BackupsIInv
<1>1. UNCHANGED <<live, versions, clock, job, partial, doomed, dumps, finished>>
  BY DEF WriteManifest, database, scratch
<1>2. Advance(p, "recording", "naming")
  BY DEF WriteManifest
<1>3. /\ op[p] = "recording" /\ \A q \in Operators : op'[q] = IF q = p THEN "naming" ELSE op[q]
      /\ op' \in [Operators -> {"idle"} \cup Begun \cup Named \cup Restoring] /\ JobsDiffer'
  BY <1>1, <1>2, Advances DEF Begun, Restoring
<1> DEFINE m == File(p, partial[p])
<1>4. m \in Files /\ m.holds = partial[p] /\ IsFileOf(p, m)
  BY FileFields DEF BackupsTyped, IsFileOf
<1> HIDE DEF m
<1>5. manifests' = Except(job[p].stamp, Safety(p)) \cup {m}
  BY DEF WriteManifest, m
<1>6. \A n \in manifests' : n \in Files /\ (n = m \/ n \in manifests)
  BY <1>4, <1>5 DEF Except, BackupsTyped
<1>7. \A n \in manifests' : IsFileOf(p, n) => n = m
  <2>1. ASSUME NEW n \in Except(job[p].stamp, Safety(p)), IsFileOf(p, n) PROVE FALSE
    <3>1. n.safety \in BOOLEAN /\ (n.stamp # job[p].stamp \/ n.safety # Safety(p))
      BY <2>1 DEF Except, BackupsTyped, Files
    <3> QED  BY <2>1, <3>1 DEF IsFileOf, Safety
  <2> QED  BY <1>5, <2>1
<1>8. BackupsTyped'
  BY <1>1, <1>3, <1>6 DEF BackupsTyped
<1>9. \A q \in Operators : \A f : IsFileOf(q, f)' <=> IsFileOf(q, f)
  BY <1>1 DEF IsFileOf, Safety
<1>10. NamesNew'
  BY <1>1, <1>3, <1>9 DEF NamesNew, Begun
<1>11. Whole'
  BY <1>1, <1>3 DEF Whole, Named, Restoring
<1>12. \A q \in Operators \ {p} : op[q] = "naming" => ~IsFileOf(q, m)
  <2> SUFFICES ASSUME NEW q \in Operators \ {p}, op[q] = "naming", IsFileOf(q, m) PROVE FALSE
    OBVIOUS
  <2>1. job[p].stamp = job[q].stamp /\ (Safety(p) <=> Safety(q))
    BY <1>4 DEF IsFileOf
  <2> QED  BY <1>3, <2>1, RunsNameApart
<1>13. \A f \in dumps : ~IsFileOf(p, f)
  BY <1>3 DEF NamesNew, Begun, BackupsTyped
<1>14. \A f \in dumps : f.stamp = m.stamp /\ f.safety = m.safety => IsFileOf(p, f)
  BY <1>4 DEF IsFileOf
<1>15. Described'
  BY <1>1, <1>3, <1>4, <1>6, <1>7, <1>9, <1>12, <1>13, <1>14 DEF Described
<1>16. Kept'
  BY <1>1, <1>3, <1>9 DEF Kept, Restoring, Newer, Regular
<1> QED  BY <1>3, <1>8, <1>10, <1>11, <1>15, <1>16

(* The dump gets its name. *)
LEMMA NameKeeps ==
  ASSUME BackupsIInv, NEW p \in Operators, NameDump(p)
  PROVE  BackupsIInv'
<1> USE DEF BackupsIInv
<1>1. UNCHANGED <<live, versions, clock, job, partial, doomed, manifests>>
  BY DEF NameDump, database, scratch
<1>2. PICK to \in {"copying", "pruning"} :
        Advance(p, "naming", to) /\ (to = "copying" <=> Safety(p))
  BY DEF NameDump
<1>3. /\ op[p] = "naming" /\ \A q \in Operators : op'[q] = IF q = p THEN to ELSE op[q]
      /\ op' \in [Operators -> {"idle"} \cup Begun \cup Named \cup Restoring] /\ JobsDiffer'
  BY <1>1, <1>2, Advances DEF Named, Restoring
<1> DEFINE d == File(p, partial[p])
<1>4. d \in Files /\ d.holds = partial[p] /\ IsFileOf(p, d)
  BY FileFields DEF BackupsTyped, IsFileOf
<1> HIDE DEF d
<1>5. dumps' = dumps \cup {d} /\ finished' = finished \cup {d}
  BY DEF NameDump, d
<1>6. partial[p] # Broken
  BY <1>3 DEF Whole
<1>7. BackupsTyped'
  BY <1>1, <1>3, <1>4, <1>5 DEF BackupsTyped
<1>8. \A q \in Operators : \A f : IsFileOf(q, f)' <=> IsFileOf(q, f)
  BY <1>1 DEF IsFileOf, Safety
<1>9. \A q \in Operators \ {p} : op[q] # "idle" => ~IsFileOf(q, d)
  <2> SUFFICES ASSUME NEW q \in Operators \ {p}, op[q] # "idle", IsFileOf(q, d) PROVE FALSE
    OBVIOUS
  <2>1. job[p].stamp = job[q].stamp /\ (Safety(p) <=> Safety(q))
    BY <1>4 DEF IsFileOf
  <2> QED  BY <1>3, <2>1, RunsNameApart
<1>10. \A f \in finished : ~(f.stamp = d.stamp /\ f.safety = d.safety)
  BY <1>3, <1>4 DEF NamesNew, Begun, IsFileOf
<1>11. NamesNew'
  BY <1>1, <1>3, <1>5, <1>8, <1>9, <1>10, <1>2 DEF NamesNew, Begun
<1>12. Whole'
  BY <1>1, <1>3, <1>4, <1>5, <1>6 DEF Whole, Named, Restoring
<1>13. \A m \in manifests : m.stamp = d.stamp /\ m.safety = d.safety => m.holds = d.holds
  BY <1>3, <1>4 DEF Described, IsFileOf
<1>14. Described'
  BY <1>1, <1>2, <1>3, <1>5, <1>8, <1>13 DEF Described
<1>15. \A f : Newer(f, finished) \subseteq Newer(f, finished')
  BY <1>5 DEF Newer, Regular
<1>16. Kept'
  <2>1. \A f \in finished' : f.safety \/ Newer(f, finished') = {} => f \in dumps'
    BY <1>5, <1>15 DEF Kept
  <2>2. \A q \in Operators : \A f \in doomed[q] : ~f.safety /\ Newer(f, finished') # {}
    BY <1>15 DEF Kept
  <2>3. \A q \in Operators : op'[q] \in Restoring =>
          \E f \in dumps' : IsFileOf(q, f) /\ f.holds = partial[q]
    BY <1>3, <1>4, <1>5 DEF Kept
  <2> QED  BY <1>1, <1>8, <2>1, <2>2, <2>3 DEF Kept, Newer, Regular
<1> QED  BY <1>3, <1>7, <1>11, <1>12, <1>14, <1>16

(* prune: what it finds has a newer one, and that stays in the history.    *)
LEMMA FindOldKeeps ==
  ASSUME BackupsIInv, NEW p \in Operators, FindOld(p)
  PROVE  BackupsIInv'
<1> USE DEF BackupsIInv
<1>1. UNCHANGED <<live, versions, clock, job, partial, dumps, manifests, finished>>
  BY DEF FindOld, database, directory
<1>2. Advance(p, "pruning", "unlinking")
  BY DEF FindOld
<1>3. /\ op[p] = "pruning" /\ \A q \in Operators : op'[q] = IF q = p THEN "unlinking" ELSE op[q]
      /\ op' \in [Operators -> {"idle"} \cup Begun \cup Named \cup Restoring] /\ JobsDiffer'
  BY <1>1, <1>2, Advances DEF Named, Restoring
<1> DEFINE old == {f \in Regular(dumps) : Cardinality(Newer(f, dumps)) >= Keep}
<1>4. \A f \in old : f \in Files /\ ~f.safety /\ Newer(f, finished) # {}
  <2> SUFFICES ASSUME NEW f \in old PROVE f \in Files /\ ~f.safety /\ Newer(f, finished) # {}
    OBVIOUS
  <2>1. f \in dumps /\ ~f.safety /\ Cardinality(Newer(f, dumps)) >= Keep
    BY Zenon DEF Regular
  <2>2. Newer(f, dumps) # {}
    BY <2>1, BackupNumbers, FS_EmptySet
  <2>3. Newer(f, dumps) \subseteq Newer(f, finished)
    BY DEF Newer, Regular, BackupsTyped
  <2> QED  BY <2>1, <2>2, <2>3 DEF BackupsTyped
<1>5. doomed' = [doomed EXCEPT ![p] = old]
  BY DEF FindOld
<1> HIDE DEF old
<1>6. BackupsTyped'
  BY <1>1, <1>3, <1>4, <1>5 DEF BackupsTyped
<1>7. \A q \in Operators : \A f : IsFileOf(q, f)' <=> IsFileOf(q, f)
  BY <1>1 DEF IsFileOf, Safety
<1>8. NamesNew' /\ Whole' /\ Described'
  BY <1>1, <1>3, <1>7 DEF NamesNew, Whole, Described, Begun, Named, Restoring
<1>9. Kept'
  BY <1>1, <1>3, <1>4, <1>5, <1>7 DEF Kept, Restoring, Newer, Regular, BackupsTyped
<1> QED  BY <1>3, <1>6, <1>8, <1>9

LEMMA RemoveOldKeeps ==
  ASSUME BackupsIInv, NEW p \in Operators, NEW f \in dumps, RemoveOld(p, f)
  PROVE  BackupsIInv'
<1> USE DEF BackupsIInv
<1>1. UNCHANGED <<live, versions, clock, partial, manifests, finished>>
  BY DEF RemoveOld, database
<1>2. /\ op[p] = "unlinking" /\ op' = [op EXCEPT ![p] = "tidying"]
      /\ job' = [job EXCEPT ![p] = [job[p] EXCEPT !.target = f]]
      /\ f \in doomed[p] /\ dumps' = dumps \ {f}
      /\ doomed' = [doomed EXCEPT ![p] = doomed[p] \ {f}]
  BY DEF RemoveOld, Advance
<1>3. ~f.safety /\ Newer(f, finished) # {}
  BY <1>2 DEF Kept
<1>4. PICK j : j = [job[p] EXCEPT !.target = f]
  OBVIOUS
<1>5. j \in Jobs /\ j.command = job[p].command /\ j.stamp = job[p].stamp /\ j.target = f
  BY <1>4 DEF BackupsTyped, Jobs
<1>6. /\ \A q \in Operators : job'[q] = IF q = p THEN j ELSE job[q]
      /\ \A q \in Operators : op'[q] = IF q = p THEN "tidying" ELSE op[q]
  BY <1>2, <1>4 DEF BackupsTyped
<1>7. BackupsTyped'
  <2>1. job' \in [Operators -> Jobs] /\ op' \in [Operators -> {"idle"} \cup Begun \cup Named \cup Restoring]
    BY <1>2, <1>4, <1>5 DEF BackupsTyped, Named
  <2> QED  BY <1>1, <1>2, <2>1 DEF BackupsTyped
<1>8. JobsDiffer'
  BY <1>2, <1>5, <1>6 DEF JobsDiffer, Safety, Whole, Restoring, BackupsTyped
<1>9. \A q \in Operators : \A g : IsFileOf(q, g)' <=> IsFileOf(q, g)
  BY <1>5, <1>6 DEF IsFileOf, Safety
<1>10. NamesNew' /\ Whole' /\ Described'
  BY <1>1, <1>2, <1>6, <1>9 DEF NamesNew, Whole, Described, Begun, Named, Restoring
<1>11. \A q \in Operators : op[q] \in Restoring => ~IsFileOf(q, f)
  BY <1>3 DEF JobsDiffer, IsFileOf
<1>12. Kept'
  BY <1>1, <1>2, <1>3, <1>6, <1>9, <1>11 DEF Kept, Newer, Regular, Restoring, BackupsTyped
<1> QED  BY <1>7, <1>8, <1>10, <1>12

LEMMA UnlinkManifestKeeps ==
  ASSUME BackupsIInv, NEW p \in Operators, UnlinkManifest(p)
  PROVE  BackupsIInv'
<1> USE DEF BackupsIInv
<1>1. UNCHANGED <<live, versions, clock, job, partial, doomed, dumps, finished>>
      /\ manifests' \subseteq manifests
  BY DEF UnlinkManifest, database, scratch, Except
<1>2. Advance(p, "tidying", "unlinking")
  BY DEF UnlinkManifest
<1>3. /\ op[p] = "tidying" /\ \A q \in Operators : op'[q] = IF q = p THEN "unlinking" ELSE op[q]
      /\ op' \in [Operators -> {"idle"} \cup Begun \cup Named \cup Restoring] /\ JobsDiffer'
  BY <1>1, <1>2, Advances DEF Named, Restoring
<1>4. BackupsTyped'
  BY <1>1, <1>3 DEF BackupsTyped
<1>5. \A q \in Operators : \A g : IsFileOf(q, g)' <=> IsFileOf(q, g)
  BY <1>1 DEF IsFileOf, Safety
<1>6. NamesNew' /\ Whole' /\ Described'
  BY <1>1, <1>3, <1>5 DEF NamesNew, Whole, Described, Begun, Named, Restoring
<1>7. Kept'
  BY <1>1, <1>3, <1>5 DEF Kept, Restoring, Newer, Regular
<1> QED  BY <1>3, <1>4, <1>6, <1>7

(* replace_data; the other actions. *)
LEMMA ReplaceKeeps ==
  ASSUME BackupsIInv, NEW p \in Operators, CopyBackup(p) \/ LoadData(p)
  PROVE  BackupsIInv'
<1> USE DEF BackupsIInv
<1>1. UNCHANGED <<versions, clock, job, partial, doomed, dumps, manifests, finished>>
  BY DEF CopyBackup, LoadData, database, scratch, directory
<1>2. PICK from \in {"copying", "scripting"}, to \in {"scripting", "restored"} : Advance(p, from, to)
  BY DEF CopyBackup, LoadData
<1>n. Safety(p)
  BY <1>2 DEF JobsDiffer, Advance, Restoring
<1>3. /\ op[p] = from /\ \A q \in Operators : op'[q] = IF q = p THEN to ELSE op[q]
      /\ op' \in [Operators -> {"idle"} \cup Begun \cup Named \cup Restoring] /\ JobsDiffer'
  BY <1>1, <1>2, <1>n, Advances DEF Restoring
<1>4. live' \in Versions
  <2>1. CASE CopyBackup(p)
    BY <2>1 DEF CopyBackup, database, BackupsTyped
  <2>2. CASE LoadData(p)
    <3>1. live' = job[p].target.holds
      BY <2>2 DEF LoadData, Script
    <3>2. job[p].target.holds \in Holdings /\ job[p].target.holds # Broken
      BY <1>n DEF BackupsTyped, Jobs, Files, JobsDiffer, Safety
    <3> QED  BY <3>1, <3>2 DEF Holdings
  <2> QED  BY <2>1, <2>2
<1>5. BackupsTyped'
  BY <1>1, <1>3, <1>4 DEF BackupsTyped
<1>6. \A q \in Operators : \A f : IsFileOf(q, f)' <=> IsFileOf(q, f)
  BY <1>1 DEF IsFileOf, Safety
<1>7. NamesNew' /\ Whole' /\ Described'
  BY <1>1, <1>3, <1>6 DEF NamesNew, Whole, Described, Begun, Named, Restoring
<1>8. Kept'
  BY <1>1, <1>3, <1>6 DEF Kept, Restoring, Newer, Regular
<1> QED  BY <1>3, <1>5, <1>7, <1>8

LEMMA EndRunKeeps ==
  ASSUME BackupsIInv, NEW p \in Operators, EndRun(p)
  PROVE  BackupsIInv'
<1> USE DEF BackupsIInv
<1>1. UNCHANGED <<live, versions, clock, dumps, manifests, finished>>
  BY DEF EndRun, database, directory
<1>2. /\ op' = [op EXCEPT ![p] = "idle"] /\ job' = [job EXCEPT ![p] = NoJob]
      /\ partial' = [partial EXCEPT ![p] = Broken] /\ doomed' = [doomed EXCEPT ![p] = {}]
  BY DEF EndRun
<1>3. NoJob \in Jobs /\ NoJob.command = "none"
  BY DEF NoJob, NoFile, Jobs, Files, Holdings
<1>4. BackupsTyped'
  BY <1>1, <1>2, <1>3 DEF BackupsTyped, Holdings
<1>5. \A q \in Operators \ {p} : /\ op'[q] = op[q] /\ job'[q] = job[q] /\ doomed'[q] = doomed[q]
                                 /\ partial'[q] = partial[q]
  BY <1>2 DEF BackupsTyped
<1>6. op'[p] = "idle" /\ job'[p] = NoJob /\ doomed'[p] = {}
  BY <1>2 DEF BackupsTyped
<1>7. \A q \in Operators \ {p} : \A f : IsFileOf(q, f)' <=> IsFileOf(q, f)
  BY <1>5 DEF IsFileOf, Safety
<1>8. JobsDiffer'
  BY <1>3, <1>5, <1>6 DEF JobsDiffer, Safety, Restoring
<1>9. NamesNew' /\ Whole' /\ Described'
  BY <1>1, <1>5, <1>6, <1>7 DEF NamesNew, Whole, Described, Begun, Named, Restoring
<1>10. Kept'
  BY <1>1, <1>5, <1>6, <1>7 DEF Kept, Restoring, Newer, Regular
<1> QED  BY <1>4, <1>8, <1>9, <1>10

LEMMA BackupsStep == BackupsIInv /\ [BackupsNext]_backups => BackupsIInv'
<1> SUFFICES ASSUME BackupsIInv, [BackupsNext]_backups PROVE BackupsIInv'
  OBVIOUS
<1>1. ASSUME UNCHANGED <<op, job, scratch, directory>>, live' \in Versions, versions' \in Nat,
             clock' \in Nat
      PROVE  BackupsIInv'
  BY <1>1 DEF scratch, directory, BackupsIInv, BackupsTyped, JobsDiffer, NamesNew, Whole, Described,
     Kept, IsFileOf, Safety, Newer, Regular
<1>2. CASE Write
  BY <1>1, <1>2, BackupsAssumption DEF Write, BackupsIInv, BackupsTyped, Versions
<1>3. CASE NextSecond
  BY <1>1, <1>3 DEF NextSecond, BackupsIInv, BackupsTyped
<1>4. CASE UNCHANGED backups
  BY <1>1, <1>4 DEF backups, scratch, directory, BackupsIInv, BackupsTyped
<1> QED  BY <1>2, <1>3, <1>4, BeginKeeps, DumpKeeps, ManifestKeeps, NameKeeps, FindOldKeeps,
            RemoveOldKeeps, UnlinkManifestKeeps, ReplaceKeeps, EndRunKeeps DEF BackupsNext

(* Wherever runs of the tool overlap, fail or are killed: every backup in  *)
(* the directory can be restored and is what its manifest says, the newest *)
(* and the safety backups stay, and the live data is a whole version       *)
(* (tools/db_backup.py:134-145, 296-312).                                  *)
THEOREM BackupsGood == BackupsSpec => []GoodBackups
<1>1. BackupsIInv => GoodBackups
  <2> SUFFICES ASSUME BackupsIInv PROVE GoodBackups
    OBVIOUS
  <2>1. live # Broken
    BY BackupNumbers DEF BackupsIInv, BackupsTyped
  <2>2. ASSUME NEW p \in Operators, op[p] = "restored" PROVE File(p, partial[p]) \in dumps
    <3>1. PICK f \in dumps : IsFileOf(p, f) /\ f.holds = partial[p]
      BY <2>2 DEF BackupsIInv, Kept, Restoring
    <3> QED  BY <3>1, FileIs DEF BackupsIInv, BackupsTyped
  <2> QED  BY <2>1, <2>2 DEF GoodBackups, BackupsIInv, BackupsTyped, Whole, Described, Kept
<1> QED  BY <1>1, BackupsInitOk, BackupsStep, PTL DEF BackupsSpec

-----------------------------------------------------------------------------
(* Natural numbers have no infinite descent: a set of them has a least.    *)
LEMMA NatOrder ==
  \E R : IsWellFoundedOn(R, Nat) /\ \A x, y \in Nat : y < x => <<y, x>> \in R
<1> DEFINE R == OpToRel(<, Nat)
<1>1. IsWellFoundedOn(R, Nat)
  BY NatLessThanWellFounded, Zenon
<1>2. \A x, y \in Nat : y < x => <<y, x>> \in R
  BY DEF OpToRel
<1> HIDE DEF R
<1> QED  BY <1>1, <1>2

LEMMA LeastNat ==
  ASSUME NEW T \in SUBSET Nat, T # {}
  PROVE  \E x \in T : \A y \in T : x <= y
<1>1. PICK R : IsWellFoundedOn(R, Nat) /\ \A x, y \in Nat : y < x => <<y, x>> \in R
  BY NatOrder
<1>2. PICK x \in T : \A y \in T : ~(<<y, x>> \in R)
  BY <1>1, WFMin
<1>3. ASSUME NEW y \in T PROVE x <= y
  <2>1. x \in Nat /\ y \in Nat
    OBVIOUS
  <2>2. ~(y < x)
    BY <1>1, <1>2, <2>1
  <2> QED  BY <2>1, <2>2
<1> QED  BY <1>3

-----------------------------------------------------------------------------
(* GuestStore. The table holds each guest once, in the order of use: the   *)
(* longer an entry has not been used, the earlier it comes.                *)

Entries == [key : Guests, turns : Nat]

Table(d, a) ==
  /\ d \in Seq(Entries) /\ a \in Seq(Nat) /\ Len(a) = Len(d)
  /\ \A i, j \in 1 .. Len(d) : d[i].key = d[j].key => i = j
  /\ \A i, j \in 1 .. Len(d) : i < j => a[i] >= a[j]

TableIInv ==
  Table(data, age) /\ Len(data) <= MaxSessions /\ turn \in [Guests -> {NoTurn} \cup Nat]

LEMMA DropProps ==
  ASSUME NEW S, NEW s \in Seq(S), NEW n \in 0 .. Len(s)
  PROVE  /\ Drop(s, n) \in Seq(S) /\ Len(Drop(s, n)) = Len(s) - n
         /\ \A i \in 1 .. Len(s) - n : Drop(s, n)[i] = s[i + n]
<1>1. \A i \in n + 1 .. Len(s) : s[i] \in S
  OBVIOUS
<1>2. Len(s) \in Nat
  OBVIOUS
<1>3. /\ SubSeq(s, n + 1, Len(s)) \in Seq(S)
      /\ Len(SubSeq(s, n + 1, Len(s))) = IF n + 1 <= Len(s) THEN Len(s) - (n + 1) + 1 ELSE 0
      /\ \A i \in 1 .. Len(s) - (n + 1) + 1 : SubSeq(s, n + 1, Len(s))[i] = s[(n + 1) + i - 1]
  BY <1>1, <1>2, SubSeqProperties
<1> QED  BY <1>2, <1>3 DEF Drop

LEMMA RemoveProps ==
  ASSUME NEW S, NEW s \in Seq(S), NEW k \in 1 .. Len(s)
  PROVE  /\ RemoveAt(s, k) \in Seq(S) /\ Len(RemoveAt(s, k)) = Len(s) - 1
         /\ \A i \in 1 .. Len(s) - 1 : RemoveAt(s, k)[i] = IF i < k THEN s[i] ELSE s[i + 1]
<1> DEFINE f == SubSeq(s, 1, k - 1)
           b == SubSeq(s, k + 1, Len(s))
<1>0. Len(s) \in Nat /\ \A i \in 1 .. Len(s) : s[i] \in S
  OBVIOUS
<1>1. /\ f \in Seq(S) /\ Len(f) = IF 1 <= k - 1 THEN k - 1 - 1 + 1 ELSE 0
      /\ \A i \in 1 .. k - 1 - 1 + 1 : f[i] = s[1 + i - 1]
  <2>1. \A i \in 1 .. k - 1 : s[i] \in S
    BY <1>0
  <2> QED  BY <2>1, SubSeqProperties
<1>2. /\ b \in Seq(S) /\ Len(b) = IF k + 1 <= Len(s) THEN Len(s) - (k + 1) + 1 ELSE 0
      /\ \A i \in 1 .. Len(s) - (k + 1) + 1 : b[i] = s[k + 1 + i - 1]
  <2>1. \A i \in k + 1 .. Len(s) : s[i] \in S
    BY <1>0
  <2> QED  BY <1>0, <2>1, SubSeqProperties
<1>3. RemoveAt(s, k) = f \o b
  BY DEF RemoveAt
<1> HIDE DEF f, b
<1>4. /\ f \o b \in Seq(S) /\ Len(f \o b) = Len(f) + Len(b)
      /\ \A i \in 1 .. Len(f) + Len(b) : (f \o b)[i] = IF i <= Len(f) THEN f[i] ELSE b[i - Len(f)]
  BY <1>1, <1>2, ConcatProperties
<1>5. Len(f) = k - 1 /\ Len(b) = Len(s) - k
  BY <1>0, <1>1, <1>2
<1>6. ASSUME NEW i \in 1 .. Len(s) - 1 PROVE (f \o b)[i] = IF i < k THEN s[i] ELSE s[i + 1]
  <2>1. CASE i < k
    BY <1>0, <1>1, <1>4, <1>5, <2>1
  <2>2. CASE ~(i < k)
    <3>1. (f \o b)[i] = b[i - (k - 1)] /\ i - (k - 1) \in 1 .. Len(s) - k
      BY <1>0, <1>4, <1>5, <2>2
    <3>2. b[i - (k - 1)] = s[k + 1 + (i - (k - 1)) - 1]
      BY <1>0, <1>2, <3>1
    <3> QED  BY <2>2, <3>1, <3>2
  <2> QED  BY <2>1, <2>2
<1> QED  BY <1>0, <1>3, <1>4, <1>5, <1>6

LEMMA TableDrop ==
  ASSUME NEW d, NEW a, Table(d, a), NEW n \in 0 .. Len(d)
  PROVE  Table(Drop(d, n), Drop(a, n))
<1>1. /\ Drop(d, n) \in Seq(Entries) /\ Len(Drop(d, n)) = Len(d) - n
      /\ \A i \in 1 .. Len(d) - n : Drop(d, n)[i] = d[i + n]
  BY DropProps DEF Table
<1>2. /\ Drop(a, n) \in Seq(Nat) /\ Len(Drop(a, n)) = Len(d) - n
      /\ \A i \in 1 .. Len(d) - n : Drop(a, n)[i] = a[i + n]
  BY DropProps DEF Table
<1>3. Len(d) \in Nat
  BY DEF Table
<1>4. \A i \in 1 .. Len(d) - n : i + n \in 1 .. Len(d)
  BY <1>3
<1>5. \A i, j \in 1 .. Len(d) - n : Drop(d, n)[i].key = Drop(d, n)[j].key => i = j
  <2> SUFFICES ASSUME NEW i \in 1 .. Len(d) - n, NEW j \in 1 .. Len(d) - n,
                      Drop(d, n)[i].key = Drop(d, n)[j].key
               PROVE  i = j
    OBVIOUS
  <2>1. d[i + n].key = d[j + n].key /\ i + n \in 1 .. Len(d) /\ j + n \in 1 .. Len(d)
    BY <1>1, <1>4
  <2>2. i + n = j + n
    BY <2>1, Zenon DEF Table
  <2> QED  BY <1>3, <2>2
<1>6. \A i, j \in 1 .. Len(d) - n : i < j => Drop(a, n)[i] >= Drop(a, n)[j]
  <2> SUFFICES ASSUME NEW i \in 1 .. Len(d) - n, NEW j \in 1 .. Len(d) - n, i < j
               PROVE  Drop(a, n)[i] >= Drop(a, n)[j]
    OBVIOUS
  <2>1. i + n \in 1 .. Len(d) /\ j + n \in 1 .. Len(d) /\ i + n < j + n
    BY <1>3, <1>4
  <2>2. a[i + n] >= a[j + n]
    BY <2>1 DEF Table
  <2> QED  BY <1>2, <2>2
<1>7. /\ 1 .. Len(Drop(d, n)) = 1 .. Len(d) - n
      /\ Len(Drop(a, n)) = Len(Drop(d, n))
  BY <1>1, <1>2
<1> QED  BY <1>1, <1>2, <1>5, <1>6, <1>7, Zenon DEF Table

(* Without its k-th entry: what is left, and where it has moved.           *)
WasAt(d, a, k, i) ==
  \E o \in 1 .. Len(d) : o # k /\ RemoveAt(d, k)[i] = d[o] /\ RemoveAt(a, k)[i] = a[o]

LEMMA TableRemove ==
  ASSUME NEW d, NEW a, Table(d, a), NEW k \in 1 .. Len(d)
  PROVE  /\ Table(RemoveAt(d, k), RemoveAt(a, k))
         /\ Len(RemoveAt(d, k)) = Len(d) - 1
         /\ \A i \in 1 .. Len(d) - 1 : WasAt(d, a, k, i)
         /\ \A j \in 1 .. Len(d) : j # k => \E i \in 1 .. Len(d) - 1 :
              RemoveAt(d, k)[i] = d[j] /\ RemoveAt(a, k)[i] = a[j]
<1> DEFINE O(i) == IF i < k THEN i ELSE i + 1
<1>0. Len(d) \in Nat /\ Len(a) = Len(d) /\ d \in Seq(Entries) /\ a \in Seq(Nat)
  BY DEF Table
<1>1. /\ RemoveAt(d, k) \in Seq(Entries) /\ Len(RemoveAt(d, k)) = Len(d) - 1
      /\ \A i \in 1 .. Len(d) - 1 : RemoveAt(d, k)[i] = d[O(i)]
  BY <1>0, RemoveProps
<1>2. /\ RemoveAt(a, k) \in Seq(Nat) /\ Len(RemoveAt(a, k)) = Len(d) - 1
      /\ \A i \in 1 .. Len(d) - 1 : RemoveAt(a, k)[i] = a[O(i)]
  <2>1. a \in Seq(Nat) /\ k \in 1 .. Len(a)
    BY <1>0
  <2>2. /\ RemoveAt(a, k) \in Seq(Nat) /\ Len(RemoveAt(a, k)) = Len(a) - 1
        /\ \A i \in 1 .. Len(a) - 1 : RemoveAt(a, k)[i] = a[IF i < k THEN i ELSE i + 1]
    BY <2>1, RemoveProps, Zenon
  <2> QED  BY <1>0, <2>2
<1>3. \A i \in 1 .. Len(d) - 1 : O(i) \in 1 .. Len(d) /\ O(i) # k
  BY <1>0
<1>4. \A i, j \in 1 .. Len(d) - 1 : (O(i) = O(j) => i = j) /\ (i < j => O(i) < O(j))
  OBVIOUS
<1>5. \A j \in 1 .. Len(d) : j # k => \E i \in 1 .. Len(d) - 1 : O(i) = j
  <2> SUFFICES ASSUME NEW j \in 1 .. Len(d), j # k PROVE \E i \in 1 .. Len(d) - 1 : O(i) = j
    OBVIOUS
  <2>1. CASE j < k
    <3>1. j \in 1 .. Len(d) - 1 /\ O(j) = j
      BY <1>0, <2>1
    <3> QED  BY <3>1
  <2>2. CASE j > k
    <3>1. j - 1 \in 1 .. Len(d) - 1 /\ O(j - 1) = j
      BY <1>0, <2>2
    <3> QED  BY <3>1
  <2> QED  BY <2>1, <2>2
<1> HIDE DEF O
<1>6. \A i, j \in 1 .. Len(d) - 1 : RemoveAt(d, k)[i].key = RemoveAt(d, k)[j].key => i = j
  BY <1>1, <1>3, <1>4 DEF Table
<1>7. \A i, j \in 1 .. Len(d) - 1 : i < j => RemoveAt(a, k)[i] >= RemoveAt(a, k)[j]
  BY <1>2, <1>3, <1>4 DEF Table
<1>8. Table(RemoveAt(d, k), RemoveAt(a, k))
  BY <1>1, <1>2, <1>6, <1>7 DEF Table
<1>9. \A i \in 1 .. Len(d) - 1 :
        O(i) \in 1 .. Len(d) /\ O(i) # k /\ RemoveAt(d, k)[i] = d[O(i)] /\ RemoveAt(a, k)[i] = a[O(i)]
  BY <1>1, <1>2, <1>3
<1>10. \A j \in 1 .. Len(d) : j # k => \E i \in 1 .. Len(d) - 1 :
         RemoveAt(d, k)[i] = d[j] /\ RemoveAt(a, k)[i] = a[j]
  BY <1>1, <1>2, <1>5
<1>11. \A i \in 1 .. Len(d) - 1 : WasAt(d, a, k, i)
  BY <1>9 DEF WasAt
<1> QED  BY <1>1, <1>8, <1>10, <1>11

(* A new entry at the end, used just now. *)
LEMMA TableAppend ==
  ASSUME NEW d, NEW a, Table(d, a), NEW e \in Entries, \A i \in 1 .. Len(d) : d[i].key # e.key
  PROVE  /\ Table(Append(d, e), Append(a, 0)) /\ Len(Append(d, e)) = Len(d) + 1
         /\ \A i \in 1 .. Len(d) : Append(d, e)[i] = d[i] /\ Append(a, 0)[i] = a[i]
         /\ Append(d, e)[Len(d) + 1] = e /\ Append(a, 0)[Len(d) + 1] = 0
<1>0. Len(d) \in Nat /\ Len(a) = Len(d) /\ d \in Seq(Entries) /\ a \in Seq(Nat)
  BY DEF Table
<1>1. /\ Append(d, e) \in Seq(Entries) /\ Len(Append(d, e)) = Len(d) + 1
      /\ \A i \in 1 .. Len(d) : Append(d, e)[i] = d[i]
      /\ Append(d, e)[Len(d) + 1] = e
  BY <1>0, AppendProperties
<1>2. /\ Append(a, 0) \in Seq(Nat) /\ Len(Append(a, 0)) = Len(d) + 1
      /\ \A i \in 1 .. Len(d) : Append(a, 0)[i] = a[i]
      /\ Append(a, 0)[Len(d) + 1] = 0
  BY <1>0, AppendProperties
<1>3. \A i \in 1 .. Len(d) + 1 : i \in 1 .. Len(d) \/ i = Len(d) + 1
  BY <1>0
<1>4. \A i, j \in 1 .. Len(d) + 1 : Append(d, e)[i].key = Append(d, e)[j].key => i = j
  BY <1>1, <1>3 DEF Table
<1>5. \A i, j \in 1 .. Len(d) + 1 : i < j => Append(a, 0)[i] >= Append(a, 0)[j]
  <2> SUFFICES ASSUME NEW i \in 1 .. Len(d) + 1, NEW j \in 1 .. Len(d) + 1, i < j
               PROVE  Append(a, 0)[i] >= Append(a, 0)[j]
    OBVIOUS
  <2>1. i \in 1 .. Len(d) /\ Append(a, 0)[i] = a[i] /\ a[i] \in Nat
    BY <1>0, <1>2
  <2>2. CASE j \in 1 .. Len(d)
    BY <1>2, <2>1, <2>2 DEF Table
  <2>3. CASE j = Len(d) + 1
    BY <1>2, <2>1, <2>3
  <2> QED  BY <1>3, <2>2, <2>3
<1> QED  BY <1>1, <1>2, <1>4, <1>5 DEF Table

(* In a table, a guest is where its entry is. *)
LEMMA AtProps ==
  ASSUME Table(data, age), NEW g, NEW i \in 1 .. Len(data), data[i].key = g
  PROVE  At(g) = i /\ g \in Held
<1>1. DOMAIN data = 1 .. Len(data)
  BY DEF Table
<1>2. At(g) \in DOMAIN data /\ data[At(g)].key = g
  BY <1>1 DEF At
<1> QED  BY <1>1, <1>2 DEF Table, Held

LEMMA HeldProps ==
  ASSUME Table(data, age), NEW g \in Held
  PROVE  At(g) \in 1 .. Len(data) /\ data[At(g)].key = g
<1>1. DOMAIN data = 1 .. Len(data)
  BY DEF Table
<1>2. PICK i \in 1 .. Len(data) : data[i].key = g
  BY <1>1 DEF Held
<1> QED  BY <1>1, <1>2 DEF At

(* What a table loads for a guest: nothing, or the turns of its entry. *)
LEMMA StoredProps ==
  ASSUME NEW d \in Seq(Entries), NEW g
  PROVE  /\ Stored(d, g) \in Nat
         /\ Stored(d, g) > 0 => \E i \in 1 .. Len(d) : d[i].key = g
<1>1. CASE \E i \in DOMAIN d : d[i].key = g
  <2>1. DOMAIN d = 1 .. Len(d)
    OBVIOUS
  <2> DEFINE k == CHOOSE i \in DOMAIN d : d[i].key = g
  <2>2. k \in DOMAIN d /\ d[k].key = g
    BY <1>1
  <2>3. Stored(d, g) = d[k].turns
    BY <1>1 DEF Stored
  <2> HIDE DEF k
  <2>4. d[k] \in Entries
    BY <2>1, <2>2
  <2> QED  BY <2>1, <2>2, <2>3, <2>4 DEF Entries
<1>2. CASE ~\E i \in DOMAIN d : d[i].key = g
  BY <1>2 DEF Stored
<1> QED  BY <1>1, <1>2

(* _expire always comes to an end of its own. *)
LEMMA ExpiryEnds ==
  ASSUME Table(data, age), Len(data) <= MaxSessions
  PROVE  \E m \in 0 .. Len(data) : Expires(data, age, m)
<1>1. Len(data) \in Nat /\ Len(age) = Len(data) /\ age \in Seq(Nat) /\ MaxSessions \in Nat /\ Ttl \in Nat
  BY GuestStoreAssumption DEF Table
<1> DEFINE T == {m \in 0 .. Len(data) : m < Len(data) => age[m + 1] < Ttl}
<1>2. T \in SUBSET Nat /\ Len(data) \in T
  BY <1>1
<1>3. PICK m \in T : \A k \in T : m <= k
  BY <1>2, LeastNat
<1>4. ASSUME NEW i \in 1 .. m PROVE age[i] >= Ttl
  <2>1. i - 1 \notin T
    BY <1>1, <1>3
  <2>2. i - 1 \in 0 .. Len(data) /\ (i - 1) + 1 = i /\ i \in 1 .. Len(data)
    BY <1>1
  <2>3. ~(age[i] < Ttl)
    BY <2>1, <2>2
  <2> QED  BY <1>1, <2>2, <2>3
<1>5. m \in 0 .. Len(data) /\ (m < Len(data) => age[m + 1] < Ttl /\ Len(data) - m <= MaxSessions)
  BY <1>1
<1> QED  BY <1>4, <1>5 DEF Expires

(* _expire of a table within its bound drops only what is too old. *)
LEMMA LoadedProps ==
  ASSUME Table(data, age), Len(data) <= MaxSessions, NEW g
  PROVE  /\ Loaded(g) \in Nat
         /\ Loaded(g) > 0 => g \in Held /\ age[At(g)] < Ttl
<1> DEFINE n == CHOOSE k \in 0 .. Len(data) : Expires(data, age, k)
<1>1. n \in 0 .. Len(data) /\ Expires(data, age, n)
  BY ExpiryEnds
<1>2. Loaded(g) = Stored(Drop(data, n), g)
  BY DEF Loaded
<1> HIDE DEF n
<1>3. /\ Drop(data, n) \in Seq(Entries) /\ Len(Drop(data, n)) = Len(data) - n
      /\ \A i \in 1 .. Len(data) - n : Drop(data, n)[i] = data[i + n]
  BY <1>1, DropProps DEF Table
<1>4. Loaded(g) \in Nat
  BY <1>2, <1>3, StoredProps
<1>5. ASSUME Loaded(g) > 0 PROVE g \in Held /\ age[At(g)] < Ttl
  <2>1. PICK i \in 1 .. Len(data) - n : data[i + n].key = g
    BY <1>2, <1>3, <1>5, StoredProps
  <2>2. Len(data) \in Nat /\ age \in Seq(Nat) /\ Len(age) = Len(data)
    BY DEF Table
  <2>3. i + n \in 1 .. Len(data) /\ n + 1 \in 1 .. Len(data) /\ n < Len(data)
    BY <1>1, <2>1, <2>2
  <2>4. At(g) = i + n /\ g \in Held
    BY <2>1, <2>3, AtProps
  <2>5. age[n + 1] < Ttl
    BY <1>1, <2>3 DEF Expires
  <2>6. age[i + n] <= age[n + 1]
    <3>0. age[i + n] \in Nat
      BY <2>2, <2>3
    <3>1. CASE i = 1
      <4>1. i + n = n + 1
        BY <1>1, <2>2, <3>1
      <4> QED  BY <3>0, <4>1
    <3>2. CASE i # 1
      <4>1. n + 1 < i + n
        BY <1>1, <2>1, <2>2, <3>2
      <4>2. age[n + 1] >= age[i + n]
        BY <2>3, <4>1 DEF Table
      <4> QED  BY <2>2, <2>3, <4>2
    <3> QED  BY <3>1, <3>2
  <2>7. age[i + n] \in Nat /\ age[n + 1] \in Nat /\ Ttl \in Nat
    BY <2>2, <2>3, GuestStoreAssumption
  <2> QED  BY <2>4, <2>5, <2>6, <2>7
<1> QED  BY <1>4, <1>5

-----------------------------------------------------------------------------
(* What each step does to the table and to what it forgets. *)

Forgets(g) ==
  \/ Clear(g) \/ age[At(g)] >= Ttl
  \/ Len(data') = MaxSessions /\ \A i \in DOMAIN age' : age'[i] <= age[At(g)]

(* Dropping the first n entries of the table d, a, of which g holds one.   *)
LEMMA DroppedRightly ==
  ASSUME NEW d, NEW a, Table(d, a), Len(d) <= MaxSessions + 1,
         NEW n \in 0 .. Len(d), Expires(d, a, n),
         NEW j \in 1 .. Len(d), \A i \in 1 .. Len(d) - n : Drop(d, n)[i].key # d[j].key
  PROVE  \/ a[j] >= Ttl
         \/ /\ Len(Drop(d, n)) = MaxSessions
            /\ \A i \in DOMAIN Drop(a, n) : Drop(a, n)[i] <= a[j]
<1>0. /\ Len(d) \in Nat /\ Len(a) = Len(d) /\ d \in Seq(Entries) /\ a \in Seq(Nat)
      /\ MaxSessions \in Nat /\ MaxSessions >= 1 /\ Ttl \in Nat
  BY GuestStoreAssumption DEF Table
<1>1. /\ Len(Drop(d, n)) = Len(d) - n
      /\ \A i \in 1 .. Len(d) - n : Drop(d, n)[i] = d[i + n]
  BY <1>0, DropProps
<1>2. /\ Drop(a, n) \in Seq(Nat) /\ Len(Drop(a, n)) = Len(d) - n
      /\ \A i \in 1 .. Len(d) - n : Drop(a, n)[i] = a[i + n]
  BY <1>0, DropProps
<1>3. j <= n
  <2>1. SUFFICES ASSUME j > n PROVE FALSE
    BY <1>0
  <2>2. j - n \in 1 .. Len(d) - n /\ (j - n) + n = j
    BY <1>0, <2>1
  <2>3. Drop(d, n)[j - n] = d[(j - n) + n]
    BY <1>1, <2>2
  <2> QED  BY <2>2, <2>3
<1>4. a[j] >= Ttl \/ Len(d) - j + 1 > MaxSessions
  BY <1>0, <1>3 DEF Expires
<1>5. \A i \in 1 .. Len(d) : a[i] \in Nat
  BY <1>0
<1>6. CASE Len(d) - j + 1 > MaxSessions
  <2>1. j = 1 /\ Len(d) = MaxSessions + 1
    BY <1>0, <1>6
  <2>2. CASE n = 1
    <3>1. Len(Drop(d, n)) = MaxSessions
      BY <1>0, <1>1, <2>1, <2>2
    <3>2. DOMAIN Drop(a, n) = 1 .. Len(d) - n
      BY <1>2
    <3>3. ASSUME NEW i \in 1 .. Len(d) - n PROVE Drop(a, n)[i] <= a[j]
      <4>1. i + n \in 1 .. Len(d) /\ 1 \in 1 .. Len(d) /\ 1 < i + n
        BY <1>0, <2>2
      <4>2. a[1] >= a[i + n]
        BY <4>1 DEF Table
      <4>3. Drop(a, n)[i] = a[i + n]
        BY <1>2
      <4> QED  BY <1>5, <2>1, <4>1, <4>2, <4>3
    <3> QED  BY <3>1, <3>2, <3>3
  <2>3. CASE n # 1
    <3>1. 2 \in 1 .. n /\ 2 \in 1 .. Len(d) /\ 1 \in 1 .. Len(d)
      BY <1>0, <1>3, <2>1, <2>3
    <3>2. a[2] >= Ttl \/ Len(d) - 2 + 1 > MaxSessions
      BY <3>1 DEF Expires
    <3>3. a[2] >= Ttl
      BY <1>0, <2>1, <3>2
    <3>4. a[1] >= a[2]
      BY <3>1 DEF Table
    <3> QED  BY <1>0, <1>5, <2>1, <3>1, <3>3, <3>4
  <2> QED  BY <2>2, <2>3
<1> QED  BY <1>4, <1>6

(* _expire leaves a table within its bound. *)
LEMMA DroppedEnough ==
  ASSUME NEW d, NEW a, Table(d, a), NEW n \in 0 .. Len(d), Expires(d, a, n)
  PROVE  Table(Drop(d, n), Drop(a, n)) /\ Len(Drop(d, n)) <= MaxSessions
<1>1. Len(Drop(d, n)) = Len(d) - n /\ Len(d) \in Nat /\ MaxSessions \in Nat /\ MaxSessions >= 1
  BY DropProps, GuestStoreAssumption DEF Table
<1> QED  BY <1>1, TableDrop DEF Expires

LEMMA BeginTurnKeeps ==
  ASSUME TableIInv, NEW h \in Guests, BeginTurn(h)
  PROVE  /\ TableIInv'
         /\ \A g \in Held \ Survivors : Forgets(g)
         /\ \A g \in Guests : turn[g] = NoTurn /\ turn'[g] > 0 => age[At(g)] < Ttl
<1>0. /\ Table(data, age) /\ Len(data) <= MaxSessions /\ turn \in [Guests -> {NoTurn} \cup Nat]
      /\ Len(data) \in Nat /\ MaxSessions \in Nat
  BY GuestStoreAssumption DEF TableIInv, Table
<1>1. PICK n \in 0 .. Len(data) :
        Expires(data, age, n) /\ data' = Drop(data, n) /\ age' = Drop(age, n)
  BY DEF BeginTurn
<1>2. turn' = [turn EXCEPT ![h] = Loaded(h)]
  BY DEF BeginTurn
<1>3. Loaded(h) \in Nat /\ (Loaded(h) > 0 => age[At(h)] < Ttl)
  BY <1>0, <1>1, LoadedProps
<1>4. TableIInv'
  <2>1. Table(data', age') /\ Len(data') <= MaxSessions
    BY <1>0, <1>1, DroppedEnough
  <2>2. turn' \in [Guests -> {NoTurn} \cup Nat]
    BY <1>0, <1>2, <1>3
  <2> QED  BY <2>1, <2>2 DEF TableIInv, Table
<1>5. ASSUME NEW g \in Held \ Survivors PROVE Forgets(g)
  <2>1. At(g) \in 1 .. Len(data) /\ data[At(g)].key = g
    BY <1>0, HeldProps
  <2>2. \A i \in 1 .. Len(data) - n : Drop(data, n)[i].key # data[At(g)].key
    <3>1. DOMAIN data' = 1 .. Len(data) - n
      BY <1>0, <1>1, DropProps DEF Table
    <3> QED  BY <1>1, <2>1, <3>1 DEF Survivors
  <2> QED  BY <1>0, <1>1, <2>1, <2>2, DroppedRightly DEF Forgets
<1>6. ASSUME NEW g \in Guests, turn[g] = NoTurn, turn'[g] > 0 PROVE age[At(g)] < Ttl
  <2>1. CASE g = h
    BY <1>0, <1>2, <1>3, <1>6, <2>1
  <2>2. CASE g # h
    BY <1>0, <1>2, <1>6, <2>2 DEF NoTurn
  <2> QED  BY <2>1, <2>2
<1> QED  BY <1>4, <1>5, <1>6

(* save: what the table is before it is pruned. *)
LEMMA SavedTable ==
  ASSUME Table(data, age), Len(data) <= MaxSessions, NEW h \in Guests, NEW turns \in Nat,
         Saved(h, turns)
  PROVE  \E d, a : \E n \in 0 .. Len(d) :
           /\ Table(d, a) /\ Len(d) <= MaxSessions + 1
           /\ Expires(d, a, n) /\ data' = Drop(d, n) /\ age' = Drop(a, n)
           /\ Len(d) >= 1 /\ d[Len(d)].key = h /\ a[Len(d)] = 0
           /\ \A g \in Held \ {h} : \E j \in 1 .. Len(d) : d[j].key = g /\ a[j] = age[At(g)]
<1> DEFINE e == [key |-> h, turns |-> turns]
           b == IF h \in Held THEN RemoveAt(data, At(h)) ELSE data
           u == IF h \in Held THEN RemoveAt(age, At(h)) ELSE age
<1>1. PICK n \in 0 .. Len(Append(b, e)) :
        /\ Expires(Append(b, e), Append(u, 0), n)
        /\ data' = Drop(Append(b, e), n) /\ age' = Drop(Append(u, 0), n)
  BY DEF Saved
<1>2. e \in Entries /\ e.key = h
  BY DEF Entries
<1>0. Len(data) \in Nat /\ MaxSessions \in Nat
  BY GuestStoreAssumption DEF Table
<1>3. /\ Table(b, u) /\ Len(b) <= MaxSessions /\ Len(b) \in Nat
      /\ \A i \in 1 .. Len(b) : b[i].key # h
      /\ \A g \in Held \ {h} : \E j \in 1 .. Len(b) : b[j].key = g /\ u[j] = age[At(g)]
  <2>1. CASE h \in Held
    <3> DEFINE k == At(h)
    <3>1. k \in 1 .. Len(data) /\ data[k].key = h
      BY <2>1, HeldProps
    <3>2. b = RemoveAt(data, k) /\ u = RemoveAt(age, k)
      BY <2>1
    <3> HIDE DEF k, b, u
    <3>6. Table(RemoveAt(data, k), RemoveAt(age, k)) /\ Len(RemoveAt(data, k)) = Len(data) - 1
      BY <3>1, TableRemove
    <3>7. \A i \in 1 .. Len(data) - 1 : WasAt(data, age, k, i)
      BY <3>1, TableRemove
    <3>8. \A j \in 1 .. Len(data) : j # k => \E i \in 1 .. Len(data) - 1 :
            RemoveAt(data, k)[i] = data[j] /\ RemoveAt(age, k)[i] = age[j]
      BY <3>1, TableRemove
    <3>3. /\ Table(b, u) /\ Len(b) = Len(data) - 1
          /\ \A i \in 1 .. Len(data) - 1 : \E o \in 1 .. Len(data) : o # k /\ b[i] = data[o]
          /\ \A j \in 1 .. Len(data) : j # k => \E i \in 1 .. Len(data) - 1 :
               b[i] = data[j] /\ u[i] = age[j]
      <4>1. \A i \in 1 .. Len(data) - 1 : \E o \in 1 .. Len(data) : o # k /\ b[i] = data[o]
        BY <3>2, <3>7 DEF WasAt
      <4> QED  BY <3>2, <3>6, <3>8, <4>1
    <3>4. ASSUME NEW i \in 1 .. Len(b) PROVE b[i].key # h
      <4>1. PICK o \in 1 .. Len(data) : o # k /\ b[i] = data[o]
        BY <3>3
      <4> QED  BY <3>1, <4>1, Zenon DEF Table
    <3>5. ASSUME NEW g \in Held \ {h}
          PROVE  \E j \in 1 .. Len(b) : b[j].key = g /\ u[j] = age[At(g)]
      <4>1. At(g) \in 1 .. Len(data) /\ data[At(g)].key = g
        BY HeldProps
      <4>2. At(g) # k
        BY <3>1, <4>1
      <4> QED  BY <3>3, <4>1, <4>2
    <3> QED  BY <1>0, <3>3, <3>4, <3>5
  <2>2. CASE h \notin Held
    <3>1. b = data /\ u = age
      BY <2>2
    <3> HIDE DEF b, u
    <3>2. \A i \in 1 .. Len(data) : data[i].key # h
      BY <2>2, AtProps
    <3>3. \A g \in Held \ {h} : \E j \in 1 .. Len(b) : b[j].key = g /\ u[j] = age[At(g)]
      BY <3>1, HeldProps
    <3>4. Table(b, u) /\ Len(b) <= MaxSessions /\ Len(b) \in Nat
      BY <1>0, <3>1
    <3> QED  BY <3>1, <3>2, <3>3, <3>4
  <2> QED  BY <2>1, <2>2
<1> DEFINE d == Append(b, e)
           a == Append(u, 0)
<1> HIDE DEF b, u, e
<1>4. /\ Table(d, a) /\ Len(d) = Len(b) + 1
      /\ \A i \in 1 .. Len(b) : d[i] = b[i] /\ a[i] = u[i]
      /\ d[Len(b) + 1] = e /\ a[Len(b) + 1] = 0
  <2>1. Table(b, u) /\ e \in Entries /\ \A i \in 1 .. Len(b) : b[i].key # e.key
    BY <1>2, <1>3
  <2> QED  BY <2>1, TableAppend, Zenon
<1>5. n \in 0 .. Len(d) /\ Expires(d, a, n) /\ data' = Drop(d, n) /\ age' = Drop(a, n)
  BY <1>1
<1> HIDE DEF d, a
<1>6. Len(d) <= MaxSessions + 1 /\ Len(d) >= 1 /\ d[Len(d)].key = h /\ a[Len(d)] = 0
  BY <1>0, <1>2, <1>3, <1>4
<1>7. ASSUME NEW g \in Held \ {h} PROVE \E j \in 1 .. Len(d) : d[j].key = g /\ a[j] = age[At(g)]
  <2>1. PICK j \in 1 .. Len(b) : b[j].key = g /\ u[j] = age[At(g)]
    BY <1>3
  <2>2. j \in 1 .. Len(d)
    BY <1>3, <1>4
  <2> QED  BY <1>4, <2>1, <2>2
<1> QED  BY <1>4, <1>5, <1>6, <1>7

LEMMA EndTurnKeeps ==
  ASSUME TableIInv, NEW h \in Guests, NEW redo \in BOOLEAN, EndTurn(h, redo)
  PROVE  /\ TableIInv'
         /\ \A g \in Held \ Survivors : Forgets(g)
         /\ \A g \in Guests : turn[g] = NoTurn /\ turn'[g] > 0 => age[At(g)] < Ttl
<1>0. /\ Table(data, age) /\ Len(data) <= MaxSessions /\ turn \in [Guests -> {NoTurn} \cup Nat]
      /\ Len(data) \in Nat /\ MaxSessions \in Nat /\ MaxSessions >= 1 /\ Ttl \in Nat /\ Ttl >= 1
  BY GuestStoreAssumption DEF TableIInv, Table
<1> DEFINE turns == (IF redo THEN turn[h] ELSE Loaded(h)) + 1
<1>1. Saved(h, turns) /\ turn[h] # NoTurn /\ turn' = [turn EXCEPT ![h] = NoTurn]
  BY DEF EndTurn
<1>2. turns \in Nat
  <2>1. turn[h] \in Nat
    BY <1>0, <1>1
  <2>2. Loaded(h) \in Nat
    BY <1>0, LoadedProps
  <2> QED  BY <2>1, <2>2
<1> HIDE DEF turns
<1>3. PICK d, a : \E n \in 0 .. Len(d) :
           /\ Table(d, a) /\ Len(d) <= MaxSessions + 1
           /\ Expires(d, a, n) /\ data' = Drop(d, n) /\ age' = Drop(a, n)
           /\ Len(d) >= 1 /\ d[Len(d)].key = h /\ a[Len(d)] = 0
           /\ \A g \in Held \ {h} : \E j \in 1 .. Len(d) : d[j].key = g /\ a[j] = age[At(g)]
  BY <1>0, <1>1, <1>2, SavedTable
<1>4. PICK n \in 0 .. Len(d) : Expires(d, a, n) /\ data' = Drop(d, n) /\ age' = Drop(a, n)
  BY <1>3
<1>5. /\ Table(d, a) /\ Len(d) <= MaxSessions + 1 /\ Len(d) \in Nat
      /\ Len(d) >= 1 /\ d[Len(d)].key = h /\ a[Len(d)] = 0
      /\ \A g \in Held \ {h} : \E j \in 1 .. Len(d) : d[j].key = g /\ a[j] = age[At(g)]
  BY <1>3 DEF Table
<1>6. /\ Len(data') = Len(d) - n /\ DOMAIN data' = 1 .. Len(d) - n
      /\ \A i \in 1 .. Len(d) - n : data'[i] = d[i + n]
  <2>1. d \in Seq(Entries)
    BY <1>5 DEF Table
  <2>2. /\ Drop(d, n) \in Seq(Entries) /\ Len(Drop(d, n)) = Len(d) - n
        /\ \A i \in 1 .. Len(d) - n : Drop(d, n)[i] = d[i + n]
    BY <2>1, DropProps
  <2> QED  BY <1>4, <2>2
<1>7. TableIInv'
  <2>1. Table(data', age') /\ Len(data') <= MaxSessions
    BY <1>4, <1>5, DroppedEnough
  <2>2. turn' \in [Guests -> {NoTurn} \cup Nat]
    BY <1>0, <1>1
  <2> QED  BY <2>1, <2>2 DEF TableIInv, Table
<1>8. h \in Survivors
  <2>1. n # Len(d)
    <3>1. SUFFICES ASSUME n = Len(d) PROVE FALSE
      OBVIOUS
    <3>2. Len(d) \in 1 .. n
      BY <1>5, <3>1
    <3>3. a[Len(d)] >= Ttl \/ Len(d) - Len(d) + 1 > MaxSessions
      BY <1>4, <3>2 DEF Expires
    <3> QED  BY <1>0, <1>5, <3>3
  <2>2. Len(d) - n \in 1 .. Len(d) - n /\ (Len(d) - n) + n = Len(d)
    BY <1>5, <2>1
  <2>3. data'[Len(d) - n].key = h
    BY <1>5, <1>6, <2>2
  <2> QED  BY <1>6, <2>2, <2>3 DEF Survivors
<1>9. ASSUME NEW g \in Held \ Survivors PROVE Forgets(g)
  <2>1. PICK j \in 1 .. Len(d) : d[j].key = g /\ a[j] = age[At(g)]
    BY <1>5, <1>8
  <2>2. \A i \in 1 .. Len(d) - n : Drop(d, n)[i].key # d[j].key
    BY <1>4, <1>6, <2>1 DEF Survivors
  <2>3. \/ a[j] >= Ttl
        \/ /\ Len(Drop(d, n)) = MaxSessions
           /\ \A i \in DOMAIN Drop(a, n) : Drop(a, n)[i] <= a[j]
    BY <1>4, <1>5, <2>2, DroppedRightly
  <2> QED  BY <1>4, <2>1, <2>3 DEF Forgets
<1>10. ASSUME NEW g \in Guests, turn[g] = NoTurn, turn'[g] > 0 PROVE FALSE
  BY <1>0, <1>1, <1>10 DEF NoTurn
<1> QED  BY <1>7, <1>9, <1>10

LEMMA ClearKeeps ==
  ASSUME TableIInv, NEW h \in Guests, Clear(h)
  PROVE  TableIInv' /\ \A g \in Held \ Survivors : g = h
<1>0. /\ Table(data, age) /\ Len(data) <= MaxSessions /\ turn \in [Guests -> {NoTurn} \cup Nat]
      /\ Len(data) \in Nat /\ MaxSessions \in Nat
  BY GuestStoreAssumption DEF TableIInv, Table
<1> DEFINE k == At(h)
<1>1. h \in Held /\ data' = RemoveAt(data, k) /\ age' = RemoveAt(age, k) /\ turn' = turn
  BY DEF Clear
<1>2. k \in 1 .. Len(data) /\ data[k].key = h
  BY <1>0, <1>1, HeldProps
<1> HIDE DEF k
<1>3. /\ Table(data', age') /\ Len(data') = Len(data) - 1
      /\ \A j \in 1 .. Len(data) : j # k => \E i \in 1 .. Len(data) - 1 : data'[i] = data[j]
  <2>1. /\ Table(RemoveAt(data, k), RemoveAt(age, k)) /\ Len(RemoveAt(data, k)) = Len(data) - 1
        /\ \A j \in 1 .. Len(data) : j # k => \E i \in 1 .. Len(data) - 1 :
             RemoveAt(data, k)[i] = data[j] /\ RemoveAt(age, k)[i] = age[j]
    BY <1>0, <1>2, TableRemove
  <2> QED  BY <1>1, <2>1
<1>4. TableIInv'
  BY <1>0, <1>1, <1>3 DEF TableIInv, Table
<1>5. ASSUME NEW g \in Held \ Survivors PROVE g = h
  <2>1. At(g) \in 1 .. Len(data) /\ data[At(g)].key = g
    BY <1>0, HeldProps
  <2>2. CASE At(g) # k
    <3>1. PICK i \in 1 .. Len(data) - 1 : data'[i] = data[At(g)]
      BY <1>3, <2>1, <2>2
    <3>2. i \in DOMAIN data'
      BY <1>0, <1>3 DEF Table
    <3> QED  BY <2>1, <3>1, <3>2 DEF Survivors
  <2> QED  BY <1>2, <2>1, <2>2
<1> QED  BY <1>4, <1>5

LEMMA TickKeeps ==
  ASSUME TableIInv, GuestTick
  PROVE  TableIInv' /\ data' = data /\ turn' = turn
<1>0. /\ Table(data, age) /\ Len(data) <= MaxSessions /\ turn \in [Guests -> {NoTurn} \cup Nat]
      /\ Len(data) \in Nat /\ GuestHorizon \in Nat /\ age \in Seq(Nat) /\ Len(age) = Len(data)
  BY GuestStoreAssumption DEF TableIInv, Table
<1>1. data' = data /\ turn' = turn
  BY DEF GuestTick
<1>2. /\ DOMAIN age = 1 .. Len(data)
      /\ age' = [i \in 1 .. Len(data) |-> IF age[i] < GuestHorizon THEN age[i] + 1 ELSE age[i]]
  BY <1>0 DEF GuestTick
<1>3. age' \in Seq(Nat) /\ Len(age') = Len(data)
  <2>1. \A i \in 1 .. Len(data) : age[i] \in Nat
    BY <1>0
  <2>2. age' \in [1 .. Len(data) -> Nat]
    BY <1>0, <1>2, <2>1
  <2> QED  BY <1>0, <2>2
<1>4. \A i, j \in 1 .. Len(data) : i < j => age'[i] >= age'[j]
  <2> SUFFICES ASSUME NEW i \in 1 .. Len(data), NEW j \in 1 .. Len(data), i < j
               PROVE  age'[i] >= age'[j]
    OBVIOUS
  <2>1. age[i] >= age[j]
    BY <1>0 DEF Table
  <2>2. age[i] \in Nat /\ age[j] \in Nat
    BY <1>0
  <2> QED  BY <1>0, <1>2, <2>1, <2>2
<1> QED  BY <1>0, <1>1, <1>3, <1>4 DEF TableIInv, Table

-----------------------------------------------------------------------------
LEMMA TableInit == GuestStoreInit => TableIInv
<1> SUFFICES ASSUME GuestStoreInit PROVE TableIInv
  OBVIOUS
<1> QED  BY GuestStoreAssumption DEF GuestStoreInit, TableIInv, Table, NoTurn

(* A guest's conversation goes only when it is cleared, too old, or the    *)
(* oldest of too many, and no turn is given one that is too old: the       *)
(* _expire of EphemeralSessionStore, which stops at the first entry that   *)
(* may stay, because the entries are in the order of their use             *)
(* (shared/guest_store.py:29-34).                                          *)
THEOREM GuestsRemembered == GuestStoreSpec => GuestMemory
<1> DEFINE Remembers ==
      /\ \A g \in Held \ Survivors :
           \/ Clear(g) \/ age[At(g)] >= Ttl
           \/ Len(data') = MaxSessions /\ \A i \in DOMAIN age' : age'[i] <= age[At(g)]
      /\ Len(data') <= MaxSessions
      /\ \A g \in Guests : turn[g] = NoTurn /\ turn'[g] > 0 => age[At(g)] < Ttl
<1>1. TableIInv /\ [GuestStoreNext]_guestStore => TableIInv' /\ [Remembers]_guestStore
  <2> SUFFICES ASSUME TableIInv, [GuestStoreNext]_guestStore
               PROVE  TableIInv' /\ [Remembers]_guestStore
    OBVIOUS
  <2>0. TableIInv' => Len(data') <= MaxSessions
    BY DEF TableIInv
  <2>1. ASSUME NEW g \in Guests, BeginTurn(g) PROVE TableIInv' /\ Remembers
    BY <2>0, <2>1, BeginTurnKeeps DEF Forgets
  <2>2. ASSUME NEW g \in Guests, FailTurn(g) PROVE TableIInv' /\ Remembers
    <3>1. data' = data /\ age' = age /\ turn' = [turn EXCEPT ![g] = NoTurn]
      BY <2>2 DEF FailTurn
    <3>2. TableIInv'
      BY <3>1 DEF TableIInv, Table, NoTurn
    <3>3. Held \ Survivors = {}
      BY <3>1 DEF Held, Survivors
    <3>4. ASSUME NEW h \in Guests, turn[h] = NoTurn, turn'[h] > 0 PROVE FALSE
      BY <3>1, <3>4 DEF NoTurn, TableIInv
    <3> QED  BY <2>0, <3>2, <3>3, <3>4
  <2>3. ASSUME NEW g \in Guests, Clear(g) PROVE TableIInv' /\ Remembers
    <3>1. TableIInv' /\ \A h \in Held \ Survivors : h = g
      BY <2>3, ClearKeeps
    <3>2. turn' = turn
      BY <2>3 DEF Clear
    <3>3. ASSUME NEW h \in Guests, turn[h] = NoTurn, turn'[h] > 0 PROVE FALSE
      BY <3>2, <3>3 DEF NoTurn
    <3> QED  BY <2>0, <2>3, <3>1, <3>3
  <2>4. ASSUME NEW g \in Guests, NEW redo \in BOOLEAN, EndTurn(g, redo) PROVE TableIInv' /\ Remembers
    BY <2>0, <2>4, EndTurnKeeps DEF Forgets
  <2>5. CASE GuestTick
    <3>1. TableIInv' /\ data' = data /\ turn' = turn
      BY <2>5, TickKeeps
    <3>2. Held \ Survivors = {}
      BY <3>1 DEF Held, Survivors
    <3>3. ASSUME NEW h \in Guests, turn[h] = NoTurn, turn'[h] > 0 PROVE FALSE
      BY <3>1, <3>3 DEF NoTurn
    <3> QED  BY <2>0, <3>1, <3>2, <3>3
  <2>6. CASE UNCHANGED guestStore
    BY <2>6 DEF guestStore, TableIInv, Table
  <2> QED  BY <2>1, <2>2, <2>3, <2>4, <2>5, <2>6 DEF GuestStoreNext
<1> QED  BY <1>1, TableInit, PTL DEF GuestStoreSpec, GuestMemory
=============================================================================
