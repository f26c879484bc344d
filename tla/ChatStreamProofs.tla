--------------------------- MODULE ChatStreamProofs ---------------------------
(***************************************************************************)
(* What a session's history holds, for any sessions, requests and redo     *)
(* requests, any MAX_HISTORY and any maximal age of a lease. The history   *)
(* is what was committed because at most one request of a session can      *)
(* still write to it; that follows from the leases, whose generations are  *)
(* never given out twice.                                                  *)
(***************************************************************************)
EXTENDS ChatStream, ConversationStoreProofs, TLAPS

Turns == [role : Roles, of : Requests]

(* The invariants. A history, and what a request will add to, is made of   *)
(* whole exchanges.                                                        *)
Whole(h) == \E rs \in Seq(Requests) : h = Exchanges(rs)

Leased == {"leased", "loading", "answering", "saving", "closing"}

StreamTyped ==
  /\ clock \in Nat
  /\ held \in [Sessions -> Locks!HeldEntry]
  /\ generations \in Nat
  /\ lease \in [Requests -> Locks!LeaseObject]
  /\ history \in [Sessions -> Seq(Turns)]
  /\ request \in [Requests -> Leased \cup {"idle", "closed"}]
  /\ saver \in [Requests -> {"none", "queued", "read", "stopped"}]
  /\ seen \in [Requests -> Seq(Turns)]
  /\ committed \in [Sessions -> Seq(Requests)]

(* A save belongs to a request that has come as far as its save.           *)
SavesAreLate ==
  \A r \in Requests :
    /\ Saving(r) => request[r] \in {"saving", "closing", "closed"}
    /\ saver[r] = "read" => r \notin Redo

(* Each request that has its lease has one of its own session and of a     *)
(* generation of its own; and while nobody took a session over, it is the  *)
(* one that holds the session.                                             *)
OwnLease ==
  /\ \A r \in Requests : request[r] \in Leased =>
       /\ lease[r].key = SessionOf[r]
       /\ lease[r].generation \in 1 .. generations
  /\ \A q, r \in Requests :
       q # r /\ request[q] \in Leased /\ request[r] \in Leased
         => lease[q].generation # lease[r].generation
  /\ \A r \in Requests : request[r] \in Leased /\ SessionOf[r] \notin spoiled
         => held[SessionOf[r]].generation = lease[r].generation

Active(r) == request[r] \in Leased \/ Saving(r)
Excused == spoiled \cup overtaken

(* Then at most one request of a session can still write to it,            *)
OneActive ==
  \A q, r \in Requests :
    q # r /\ SessionOf[q] = SessionOf[r] /\ SessionOf[r] \notin Excused
      => ~(Active(q) /\ Active(r))

(* what it read is what is there,                                          *)
SeenIsThere ==
  \A r \in Requests : WillWriteWhatItSaw(r) /\ SessionOf[r] \notin Excused =>
    seen[r] = IF r \in Redo THEN WithoutLastExchange(history[SessionOf[r]])
              ELSE history[SessionOf[r]]

(* and what is there is what was committed.                                *)
StoredIsCommitted ==
  \A s \in Sessions : s \notin Excused =>
    history[s] = LastN(Exchanges(committed[s]), MaxHistory)

StreamIInv ==
  /\ StreamTyped /\ SavesAreLate /\ OwnLease
  /\ OneActive /\ SeenIsThere /\ StoredIsCommitted

-----------------------------------------------------------------------------
(* A redo replaces the last exchange, even where MAX_HISTORY cut it off. *)
LEMMA RedoneOnWhatIsThere ==
  ASSUME NEW f \in Seq(Requests), NEW q \in Requests, NEW r \in Requests
  PROVE  Extended(WithoutLastExchange(LastN(Exchanges(Append(f, q)), MaxHistory)), Exchange(r))
           = LastN(Exchanges(Append(f, r)), MaxHistory)
<1> DEFINE g == Exchanges(f)
           h == LastN(Exchanges(Append(f, q)), MaxHistory)
           w == WithoutLastExchange(h)
           x == Exchange(r)
           m == IF MaxHistory >= 2 THEN MaxHistory - 2 ELSE 0
<1>0. MaxHistory \in Nat /\ MaxHistory >= 1 /\ m \in Nat /\ ~(m + 2 < MaxHistory) /\ m + 2 \in Nat
      /\ (MaxHistory >= 2 => m = MaxHistory - 2) /\ (MaxHistory < 2 => m = 0)
  BY MaxHistoryAssumption
<1>1. g \in Seq(Turns) /\ Len(g) = 2 * Len(f)
  BY ExchangesProps DEF Turns
<1>2. /\ Exchange(q) \in Seq(Turns) /\ Len(Exchange(q)) = 2
      /\ Exchanges(Append(f, q)) = g \o Exchange(q)
  BY ExchangesMore DEF Turns
<1>3. /\ x \in Seq(Turns) /\ Len(x) = 2 /\ Exchanges(Append(f, r)) = g \o x
  BY ExchangesMore DEF Turns
<1>4. Len(g) \in Nat
  BY <1>1
<1> HIDE DEF g, x, m
<1>5. g \o Exchange(q) \in Seq(Turns) /\ Len(g \o Exchange(q)) = Len(g) + 2
  <2>1. g \in Seq(Turns) /\ Exchange(q) \in Seq(Turns)
    BY <1>1, <1>2
  <2>2. /\ g \o Exchange(q) \in Seq(Turns)
        /\ Len(g \o Exchange(q)) = Len(g) + Len(Exchange(q))
    BY <2>1, ConcatProperties
  <2> QED  BY <1>2, <2>2
<1>6. /\ h \in Seq(Turns) /\ Ends(h, g \o Exchange(q))
      /\ Len(h) = IF Len(g) + 2 > MaxHistory THEN MaxHistory ELSE Len(g) + 2
  <2> SUFFICES ASSUME NEW b, b = g \o Exchange(q) PROVE
         /\ LastN(b, MaxHistory) \in Seq(Turns) /\ Ends(LastN(b, MaxHistory), b)
         /\ Len(LastN(b, MaxHistory)) = IF Len(g) + 2 > MaxHistory THEN MaxHistory ELSE Len(g) + 2
    BY <1>2
  <2>1. b \in Seq(Turns) /\ Len(b) = Len(g) + 2
    BY <1>5
  <2>2. MaxHistory \in Nat
    BY <1>0
  <2>3. /\ LastN(b, MaxHistory) \in Seq(Turns) /\ Ends(LastN(b, MaxHistory), b)
        /\ Len(LastN(b, MaxHistory)) = IF Len(b) > MaxHistory THEN MaxHistory ELSE Len(b)
    BY <2>1, <2>2, LastNProps
  <2> QED  BY <2>1, <2>3
<1> HIDE DEF h
<1>7. w \in Seq(Turns) /\ Ends(w, g) /\ Len(w) = IF Len(h) > 2 THEN Len(h) - 2 ELSE 0
  BY <1>1, <1>6, WithoutEnd DEF Turns
<1> HIDE DEF w
<1>8. /\ LastN(g, m) \in Seq(Turns) /\ Ends(LastN(g, m), g)
      /\ Len(LastN(g, m)) = IF Len(g) > m THEN m ELSE Len(g)
  BY <1>0, <1>1, LastNProps
<1>9. Len(w) = Len(LastN(g, m))
  <2>1. CASE MaxHistory >= 2
    BY <1>0, <1>4, <1>6, <1>7, <1>8, <2>1
  <2>2. CASE MaxHistory = 1
    BY <1>0, <1>4, <1>6, <1>7, <1>8, <2>2
  <2> QED  BY <1>0, <2>1, <2>2
<1>10. w = LastN(g, m)
  BY <1>1, <1>7, <1>8, <1>9, OneEnd
<1>11. w \o x = LastN(g \o x, m + 2)
  BY <1>0, <1>1, <1>3, <1>10, LastAndMore
<1>12. g \o x \in Seq(Turns)
  BY <1>1, <1>3
<1>13. LastN(LastN(g \o x, m + 2), MaxHistory) = LastN(g \o x, MaxHistory)
  BY <1>0, <1>12, LastOfLast
<1>14. Extended(w, x) = LastN(g \o x, MaxHistory)
  BY <1>11, <1>13 DEF Extended
<1> QED  BY <1>3, <1>14 DEF w, h, x

LEMMA WithoutTyped ==
  ASSUME NEW h \in Seq(Turns)
  PROVE  WithoutLastExchange(h) \in Seq(Turns)
<1>1. ASSUME NEW g \in Seq(Turns), NEW role
      PROVE  WithoutLast(g, role) \in Seq(Turns)
  <2>1. CASE g = <<>>
    BY <2>1 DEF WithoutLast
  <2>2. CASE g # <<>>
    <3>1. SubSeq(g, 1, Len(g) - 1) \in Seq(Turns)
      BY <2>2, FrontProps
    <3> QED  BY <3>1 DEF WithoutLast
  <2> QED  BY <2>1, <2>2
<1> QED  BY <1>1 DEF WithoutLastExchange

LEMMA ExtendedTyped ==
  ASSUME NEW h \in Seq(Turns), NEW r \in Requests
  PROVE  Extended(h, Exchange(r)) \in Seq(Turns)
<1>1. Exchange(r) \in Seq(Turns)
  <2>1. <<>> \in Seq(Requests)
    OBVIOUS
  <2> QED  BY <2>1, ExchangesMore DEF Turns
<1>2. ASSUME NEW b \in Seq(Turns) PROVE LastN(b, MaxHistory) \in Seq(Turns)
  BY MaxHistoryAssumption, LastNProps
<1>3. h \o Exchange(r) \in Seq(Turns)
  BY <1>1
<1> QED  BY <1>2, <1>3 DEF Extended

-----------------------------------------------------------------------------
LEMMA StreamInit == Init => StreamIInv
<1> SUFFICES ASSUME Init PROVE StreamIInv
  OBVIOUS
<1>0. /\ history = [s \in Sessions |-> <<>>] /\ request = [r \in Requests |-> "idle"]
      /\ saver = [r \in Requests |-> "none"] /\ seen = [r \in Requests |-> <<>>]
      /\ committed = [s \in Sessions |-> <<>>]
      /\ held = [k \in Sessions |-> Locks!NotHeld] /\ generations = 0 /\ clock = 0
      /\ lease = [l \in Requests |-> Locks!NoLease]
  BY DEF Init, Locks!Init
<1>1. StreamTyped
  <2>1. /\ held \in [Sessions -> Locks!HeldEntry] /\ generations \in Nat
        /\ lease \in [Requests -> Locks!LeaseObject] /\ clock \in Nat
    BY <1>0 DEF Locks!NotHeld, Locks!HeldEntry, Locks!NoLease, Locks!LeaseObject
  <2>2. /\ request \in [Requests -> Leased \cup {"idle", "closed"}]
        /\ saver \in [Requests -> {"none", "queued", "read", "stopped"}]
    BY <1>0
  <2>3. <<>> \in Seq(Turns) /\ <<>> \in Seq(Requests)
    OBVIOUS
  <2>4. /\ history \in [Sessions -> Seq(Turns)] /\ seen \in [Requests -> Seq(Turns)]
        /\ committed \in [Sessions -> Seq(Requests)]
    BY <1>0, <2>3
  <2> QED  BY <2>1, <2>2, <2>4 DEF StreamTyped
<1>2. \A r \in Requests : request[r] = "idle" /\ saver[r] = "none"
  BY <1>0
<1>3. SavesAreLate /\ OwnLease /\ OneActive /\ SeenIsThere
  BY <1>2 DEF SavesAreLate, OwnLease, OneActive, SeenIsThere, WillWriteWhatItSaw, Active, Saving, Leased
<1>4. StoredIsCommitted
  BY <1>0, NothingSaved DEF StoredIsCommitted
<1> QED  BY <1>1, <1>3, <1>4 DEF StreamIInv

(* The steps of a request that leave the registry and the store alone. *)
Inner(r) ==
  \/ Start(r) \/ LoadHistory(r) \/ StopBeforeSave(r) \/ QueueSave(r) \/ Finish(r)
  \/ LeaveDuringSave(r) \/ ReadTurns(r) \/ FailSave(r)

LEMMA StepCases ==
  ASSUME [Next]_vars
  PROVE  \/ \E r \in Requests : Inner(r)
         \/ \E r \in Requests : Begin(r)
         \/ \E r \in Requests : LeaveBeforeStart(r) \/ EndSession(r)
         \/ \E r \in Requests : WriteTurns(r)
         \/ \E s \in Sessions : ClearSession(s)
         \/ Tick \/ UNCHANGED vars
BY DEF Next, RequestNext, SaverNext, Inner

(* They read the history, or take nothing new in hand. *)
LEMMA InnerFrame ==
  ASSUME NEW r \in Requests, Inner(r), StreamIInv
  PROVE  /\ UNCHANGED <<clock, held, generations, lease, history, committed, spoiled, overtaken>>
         /\ StreamTyped' /\ SavesAreLate'
         /\ \A q \in Requests \ {r} : request'[q] = request[q] /\ saver'[q] = saver[q] /\ seen'[q] = seen[q]
         /\ request'[r] \in Leased => request[r] \in Leased
         /\ Active(r)' => Active(r)
         /\ WillWriteWhatItSaw(r)' =>
              \/ WillWriteWhatItSaw(r) /\ seen'[r] = seen[r]
              \/ /\ seen'[r] = IF r \in Redo THEN WithoutLastExchange(history[SessionOf[r]])
                               ELSE history[SessionOf[r]]
<1> DEFINE s == SessionOf[r]
           Frame == /\ UNCHANGED <<clock, held, generations, lease, history, committed, spoiled, overtaken>>
                    /\ request' = [request EXCEPT ![r] = request'[r]]
                    /\ saver' = [saver EXCEPT ![r] = saver'[r]]
                    /\ seen' = [seen EXCEPT ![r] = seen'[r]]
           Goes == /\ request'[r] \in Leased \cup {"closed"}
                   /\ saver'[r] \in {"none", "queued", "read", "stopped"}
                   /\ saver'[r] \in {"queued", "read"} => request'[r] \in {"saving", "closing", "closed"}
                   /\ saver'[r] = "read" => r \notin Redo
                   /\ request'[r] \in Leased => request[r] \in Leased
                   /\ saver'[r] \in {"queued", "read"} => request[r] \in Leased \/ saver[r] \in {"queued", "read"}
           Will == saver[r] = "read" \/ (r \in Redo /\ (request[r] = "answering" \/ saver[r] = "queued"))
           WillNow == saver'[r] = "read" \/ (r \in Redo /\ (request'[r] = "answering" \/ saver'[r] = "queued"))
           There == IF r \in Redo THEN WithoutLastExchange(history[s]) ELSE history[s]
           Reads == /\ seen'[r] \in Seq(Turns)
                    /\ WillNow => \/ Will /\ seen'[r] = seen[r]
                                  \/ seen'[r] = There
<1>1. /\ s \in Sessions /\ history[s] \in Seq(Turns) /\ seen[r] \in Seq(Turns)
      /\ <<>> \in Seq(Turns) /\ WithoutLastExchange(history[s]) \in Seq(Turns)
  <2>1. s \in Sessions /\ history[s] \in Seq(Turns)
    BY SessionOfAssumption DEF StreamIInv, StreamTyped
  <2>2. <<>> \in Seq(Turns)
    OBVIOUS
  <2> QED  BY <2>1, <2>2, WithoutTyped DEF StreamIInv, StreamTyped
<1>2. /\ request \in [Requests -> Leased \cup {"idle", "closed"}]
      /\ saver \in [Requests -> {"none", "queued", "read", "stopped"}]
      /\ seen \in [Requests -> Seq(Turns)]
  BY DEF StreamIInv, StreamTyped
<1>3. /\ saver[r] \in {"queued", "read"} => request[r] \in {"saving", "closing", "closed"}
      /\ saver[r] = "read" => r \notin Redo
  BY DEF StreamIInv, SavesAreLate, Saving
<1>4. Frame /\ Goes /\ Reads
  <2>1. CASE Start(r)
    BY <1>1, <1>2, <1>3, <2>1 DEF Start, RequestStep, registry, ghosts, Leased
  <2>2. CASE LoadHistory(r)
    BY <1>1, <1>2, <1>3, <2>2 DEF LoadHistory, RequestStep, registry, ghosts, Leased
  <2>3. CASE StopBeforeSave(r)
    BY <1>1, <1>2, <1>3, <2>3 DEF StopBeforeSave, Close, registry, ghosts, Leased
  <2>4. CASE QueueSave(r)
    BY <1>1, <1>2, <1>3, <2>4 DEF QueueSave, RequestStep, registry, ghosts, Leased
  <2>5. CASE Finish(r)
    BY <1>1, <1>2, <1>3, <2>5 DEF Finish, Close, registry, ghosts, Leased
  <2>6. CASE LeaveDuringSave(r)
    BY <1>1, <1>2, <1>3, <2>6 DEF LeaveDuringSave, Close, registry, ghosts, Leased
  <2>7. CASE ReadTurns(r)
    BY <1>1, <1>2, <1>3, <2>7 DEF ReadTurns, registry, ghosts, Leased
  <2>8. CASE FailSave(r)
    BY <1>1, <1>2, <1>3, <2>8 DEF FailSave, Saving, registry, ghosts, Leased
  <2> HIDE DEF Frame, Goes, Reads
  <2> QED  BY <2>1, <2>2, <2>3, <2>4, <2>5, <2>6, <2>7, <2>8 DEF Inner
<1>5. \A q \in Requests \ {r} : request'[q] = request[q] /\ saver'[q] = saver[q] /\ seen'[q] = seen[q]
  BY <1>2, <1>4
<1>6. StreamTyped'
  <2>1. request'[r] \in Leased \cup {"idle", "closed"} /\ saver'[r] \in {"none", "queued", "read", "stopped"}
    BY <1>4
  <2>2. /\ request' \in [Requests -> Leased \cup {"idle", "closed"}]
        /\ saver' \in [Requests -> {"none", "queued", "read", "stopped"}]
    BY <1>2, <1>4, <2>1
  <2>3. seen' \in [Requests -> Seq(Turns)]
    BY <1>2, <1>4
  <2>4. UNCHANGED <<clock, held, generations, lease, history, committed>>
    BY <1>4
  <2> QED  BY <2>2, <2>3, <2>4 DEF StreamIInv, StreamTyped
<1>7. SavesAreLate'
  BY <1>4, <1>5 DEF StreamIInv, SavesAreLate, Saving
<1>8. /\ request'[r] \in Leased => request[r] \in Leased
      /\ Active(r)' => Active(r)
  BY <1>4 DEF Active, Saving
<1>9. WillWriteWhatItSaw(r)' =>
        \/ WillWriteWhatItSaw(r) /\ seen'[r] = seen[r]
        \/ seen'[r] = There
  <2>1. (WillWriteWhatItSaw(r) <=> Will) /\ (WillWriteWhatItSaw(r)' <=> WillNow)
    BY DEF WillWriteWhatItSaw
  <2>2. WillNow => (Will /\ seen'[r] = seen[r]) \/ seen'[r] = There
    BY <1>4
  <2> HIDE DEF Will, WillNow, There
  <2> QED  BY <2>1, <2>2
<1>10. UNCHANGED <<clock, held, generations, lease, history, committed, spoiled, overtaken>>
  BY <1>4
<1> QED  BY <1>5, <1>6, <1>7, <1>8, <1>9, <1>10

LEMMA InnerKeeps ==
  ASSUME StreamIInv, NEW r \in Requests, Inner(r)
  PROVE  StreamIInv'
<1>1. /\ UNCHANGED <<clock, held, generations, lease, history, committed, spoiled, overtaken>>
      /\ StreamTyped' /\ SavesAreLate'
      /\ \A q \in Requests \ {r} : request'[q] = request[q] /\ saver'[q] = saver[q] /\ seen'[q] = seen[q]
      /\ request'[r] \in Leased => request[r] \in Leased
      /\ Active(r)' => Active(r)
      /\ WillWriteWhatItSaw(r)' =>
           \/ WillWriteWhatItSaw(r) /\ seen'[r] = seen[r]
           \/ seen'[r] = IF r \in Redo THEN WithoutLastExchange(history[SessionOf[r]])
                         ELSE history[SessionOf[r]]
  BY InnerFrame
<1>2. \A q \in Requests : request'[q] \in Leased => request[q] \in Leased
  BY <1>1
<1>3. \A q \in Requests : Active(q)' => Active(q)
  BY <1>1 DEF Active, Saving
<1>4. OwnLease'
  BY <1>1, <1>2 DEF StreamIInv, OwnLease
<1>5. OneActive'
  BY <1>1, <1>3 DEF StreamIInv, OneActive, Excused
<1>6. SeenIsThere'
  <2> SUFFICES ASSUME NEW q \in Requests, WillWriteWhatItSaw(q)', SessionOf[q] \notin Excused'
               PROVE  (seen[q] = IF q \in Redo THEN WithoutLastExchange(history[SessionOf[q]])
                                 ELSE history[SessionOf[q]])'
    BY DEF SeenIsThere
  <2>1. SessionOf[q] \notin Excused /\ history' = history
    BY <1>1 DEF Excused
  <2>2. CASE q = r
    BY <1>1, <2>1, <2>2 DEF StreamIInv, SeenIsThere
  <2>3. CASE q # r
    <3>1. WillWriteWhatItSaw(q) /\ seen'[q] = seen[q]
      BY <1>1, <2>3 DEF WillWriteWhatItSaw
    <3> QED  BY <2>1, <3>1 DEF StreamIInv, SeenIsThere
  <2> QED  BY <2>2, <2>3
<1>7. StoredIsCommitted'
  BY <1>1 DEF StreamIInv, StoredIsCommitted, Excused
<1> QED  BY <1>1, <1>4, <1>5, <1>6, <1>7 DEF StreamIInv

(* A new request finds nobody active in its session, unless it is excused. *)
LEMMA BeginKeeps ==
  ASSUME StreamIInv, NEW r \in Requests, Begin(r)
  PROVE  StreamIInv'
<1> DEFINE s == SessionOf[r]
<1>0. s \in Sessions /\ r \in Requests
  BY SessionOfAssumption
<1>1. /\ request[r] = "idle" /\ request' = [request EXCEPT ![r] = "leased"]
      /\ generations' = generations + 1
      /\ held' = [held EXCEPT ![s] = [generation |-> generations + 1, holders |-> 1, since |-> clock]]
      /\ lease' = [lease EXCEPT ![r] = [key |-> s, generation |-> generations + 1, released |-> FALSE]]
      /\ spoiled' = IF held[s] # Locks!NotHeld THEN spoiled \cup {s} ELSE spoiled
      /\ overtaken' = IF \E q \in On(s) : request[q] = "closed" /\ Saving(q)
                      THEN overtaken \cup {s} ELSE overtaken
      /\ UNCHANGED <<history, saver, seen, committed>>
  BY DEF Begin, RequestStep, Locks!TryAcquire
<1> HIDE DEF s
<1>2. /\ clock \in Nat /\ generations \in Nat /\ generations + 1 \in Nat
      /\ held \in [Sessions -> Locks!HeldEntry] /\ lease \in [Requests -> Locks!LeaseObject]
      /\ request \in [Requests -> Leased \cup {"idle", "closed"}]
  BY DEF StreamIInv, StreamTyped
<1>3. clock' = clock
  BY DEF Begin, Locks!TryAcquire
<1>4. /\ held' \in [Sessions -> Locks!HeldEntry]
      /\ held'[s].generation = generations + 1
      /\ \A k \in Sessions \ {s} : held'[k] = held[k]
  <2>1. [generation |-> generations + 1, holders |-> 1, since |-> clock] \in Locks!HeldEntry
    BY <1>2 DEF Locks!HeldEntry
  <2> QED  BY <1>0, <1>1, <1>2, <2>1
<1>5. /\ lease' \in [Requests -> Locks!LeaseObject]
      /\ lease'[r].generation = generations + 1 /\ lease'[r].key = s
      /\ \A q \in Requests \ {r} : lease'[q] = lease[q]
  <2>1. [key |-> s, generation |-> generations + 1, released |-> FALSE] \in Locks!LeaseObject
    BY <1>0, <1>2 DEF Locks!LeaseObject
  <2> QED  BY <1>1, <1>2, <2>1
<1>6. /\ request' \in [Requests -> Leased \cup {"idle", "closed"}]
      /\ request'[r] = "leased" /\ \A q \in Requests \ {r} : request'[q] = request[q]
  BY <1>1, <1>2 DEF Leased
<1>7. StreamTyped'
  BY <1>1, <1>2, <1>3, <1>4, <1>5, <1>6 DEF StreamIInv, StreamTyped
<1>8. saver[r] \notin {"queued", "read"}
  BY <1>1 DEF StreamIInv, SavesAreLate, Saving
<1>9. SavesAreLate'
  BY <1>1, <1>6, <1>8 DEF StreamIInv, SavesAreLate, Saving
<1>10. spoiled \subseteq spoiled' /\ overtaken \subseteq overtaken' /\ Excused \subseteq Excused'
  BY <1>1 DEF Excused
<1>11. ASSUME s \notin spoiled'
       PROVE  \A q \in Requests : SessionOf[q] = s => request[q] \notin Leased
  <2>1. held[s] = Locks!NotHeld
    BY <1>1, <1>11
  <2>2. held[s].generation = 0
    BY <2>1 DEF Locks!NotHeld
  <2>3. s \notin spoiled
    BY <1>10, <1>11
  <2> SUFFICES ASSUME NEW q \in Requests, SessionOf[q] = s, request[q] \in Leased PROVE FALSE
    OBVIOUS
  <2>4. lease[q].generation \in 1 .. generations /\ held[s].generation = lease[q].generation
    BY <2>3 DEF StreamIInv, OwnLease
  <2> QED  BY <1>2, <2>2, <2>4
<1>12. OwnLease'
  <2>1. \A q \in Requests \ {r} : request[q] \in Leased => lease[q].generation \in 1 .. generations
    BY DEF StreamIInv, OwnLease
  <2>2. \A q \in Requests : request'[q] \in Leased =>
          lease'[q].key = SessionOf[q] /\ lease'[q].generation \in 1 .. generations'
    BY <1>1, <1>2, <1>5, <1>6, <2>1 DEF StreamIInv, OwnLease, s
  <2>3. \A p, q \in Requests : p # q /\ request'[p] \in Leased /\ request'[q] \in Leased
          => lease'[p].generation # lease'[q].generation
    BY <1>2, <1>5, <1>6, <2>1 DEF StreamIInv, OwnLease
  <2>4. ASSUME NEW q \in Requests, request'[q] \in Leased, SessionOf[q] \notin spoiled'
        PROVE  held'[SessionOf[q]].generation = lease'[q].generation
    <3>1. CASE q = r
      BY <1>4, <1>5, <3>1 DEF s
    <3>2. CASE q # r
      <4>1. request[q] \in Leased /\ SessionOf[q] \notin spoiled /\ SessionOf[q] \in Sessions
        BY <1>6, <1>10, <2>4, <3>2, SessionOfAssumption
      <4>2. SessionOf[q] # s
        BY <1>11, <2>4, <4>1
      <4>3. held'[SessionOf[q]] = held[SessionOf[q]] /\ lease'[q] = lease[q]
        BY <1>4, <1>5, <3>2, <4>1, <4>2
      <4> QED  BY <4>1, <4>3 DEF StreamIInv, OwnLease
    <3> QED  BY <3>1, <3>2
  <2> QED  BY <2>2, <2>3, <2>4 DEF OwnLease
<1>13. ASSUME s \notin Excused', NEW q \in Requests, SessionOf[q] = s, q # r
       PROVE  ~Active(q)'
  <2>1. request[q] \notin Leased
    BY <1>11, <1>13 DEF Excused
  <2>2. request[q] \in {"idle", "closed"}
    BY <1>2, <2>1
  <2>3. ~(request[q] = "closed" /\ Saving(q))
    <3>1. s \notin overtaken'
      BY <1>13 DEF Excused
    <3> QED  BY <1>0, <1>1, <1>13, <3>1 DEF On
  <2>4. ~Saving(q)
    BY <2>2, <2>3 DEF StreamIInv, SavesAreLate
  <2> QED  BY <1>1, <1>6, <1>13, <2>1, <2>4 DEF Active, Saving
<1>14. OneActive'
  <2> SUFFICES ASSUME NEW p \in Requests, NEW q \in Requests, p # q, SessionOf[p] = SessionOf[q],
                      SessionOf[q] \notin Excused', Active(p)', Active(q)'
               PROVE  FALSE
    BY DEF OneActive
  <2>1. CASE SessionOf[q] = s
    BY <1>13, <2>1
  <2>2. CASE SessionOf[q] # s
    <3>1. p # r /\ q # r
      BY <2>2 DEF s
    <3>2. Active(p) /\ Active(q) /\ SessionOf[q] \notin Excused
      BY <1>1, <1>6, <1>10, <3>1 DEF Active, Saving
    <3> QED  BY <3>2 DEF StreamIInv, OneActive
  <2> QED  BY <2>1, <2>2
<1>15. SeenIsThere'
  <2> SUFFICES ASSUME NEW q \in Requests, WillWriteWhatItSaw(q)', SessionOf[q] \notin Excused'
               PROVE  (seen[q] = IF q \in Redo THEN WithoutLastExchange(history[SessionOf[q]])
                                 ELSE history[SessionOf[q]])'
    BY DEF SeenIsThere
  <2>1. WillWriteWhatItSaw(q)
    BY <1>1, <1>6, <1>8 DEF WillWriteWhatItSaw
  <2>2. SessionOf[q] \notin Excused
    BY <1>10
  <2> QED  BY <1>1, <2>1, <2>2 DEF StreamIInv, SeenIsThere
<1>16. StoredIsCommitted'
  BY <1>1, <1>10 DEF StreamIInv, StoredIsCommitted
<1> QED  BY <1>7, <1>9, <1>12, <1>14, <1>15, <1>16 DEF StreamIInv

(* A request gives back its own lease, and no other request's. *)
LEMMA ReleaseKeeps ==
  ASSUME StreamIInv, NEW r \in Requests, LeaveBeforeStart(r) \/ EndSession(r)
  PROVE  StreamIInv'
<1> DEFINE s == SessionOf[r]
<1>0. s \in Sessions
  BY SessionOfAssumption
<1>1. /\ request[r] \in {"leased", "closing"} /\ request' = [request EXCEPT ![r] = "closed"]
      /\ lease' = [lease EXCEPT ![r].released = TRUE]
      /\ held' = [held EXCEPT ![lease[r].key] = Locks!EntryAfterRelease(r)]
      /\ UNCHANGED <<clock, generations, history, saver, seen, committed, spoiled, overtaken>>
  BY DEF LeaveBeforeStart, EndSession, RequestStep, Locks!Release, ghosts
<1>2. /\ clock \in Nat /\ generations \in Nat
      /\ held \in [Sessions -> Locks!HeldEntry] /\ lease \in [Requests -> Locks!LeaseObject]
      /\ request \in [Requests -> Leased \cup {"idle", "closed"}]
  BY DEF StreamIInv, StreamTyped
<1>3. lease[r].key = s
  BY <1>1 DEF StreamIInv, OwnLease, Leased
<1> HIDE DEF s
<1>4. /\ held' \in [Sessions -> Locks!HeldEntry]
      /\ \A k \in Sessions \ {s} : held'[k] = held[k]
  <2>1. Locks!EntryAfterRelease(r) \in Locks!HeldEntry
    <3> DEFINE entry == held[lease[r].key]
    <3>1. entry \in Locks!HeldEntry /\ Locks!NotHeld \in Locks!HeldEntry
      BY <1>0, <1>2, <1>3 DEF Locks!NotHeld, Locks!HeldEntry
    <3>2. ~(entry.holders <= 1) => [entry EXCEPT !.holders = @ - 1] \in Locks!HeldEntry
      <4> HIDE DEF entry
      <4> QED  BY <3>1 DEF Locks!HeldEntry
    <3> QED  BY <3>1, <3>2 DEF Locks!EntryAfterRelease
  <2> QED  BY <1>0, <1>1, <1>2, <1>3, <2>1
<1>5. /\ lease' \in [Requests -> Locks!LeaseObject]
      /\ \A q \in Requests \ {r} : lease'[q] = lease[q]
  BY <1>1, <1>2 DEF Locks!LeaseObject
<1>6. /\ request' \in [Requests -> Leased \cup {"idle", "closed"}]
      /\ request'[r] = "closed" /\ \A q \in Requests \ {r} : request'[q] = request[q]
  BY <1>1, <1>2
<1>7. StreamTyped'
  BY <1>1, <1>2, <1>4, <1>5, <1>6 DEF StreamIInv, StreamTyped
<1>8. SavesAreLate'
  BY <1>1, <1>6 DEF StreamIInv, SavesAreLate, Saving
<1>9. \A q \in Requests : request'[q] \in Leased => q # r /\ request[q] \in Leased /\ lease'[q] = lease[q]
  BY <1>5, <1>6 DEF Leased
<1>10. OwnLease'
  <2>1. /\ \A q \in Requests : request'[q] \in Leased =>
             lease'[q].key = SessionOf[q] /\ lease'[q].generation \in 1 .. generations'
        /\ \A p, q \in Requests : p # q /\ request'[p] \in Leased /\ request'[q] \in Leased
             => lease'[p].generation # lease'[q].generation
    BY <1>1, <1>9 DEF StreamIInv, OwnLease
  <2>2. ASSUME NEW q \in Requests, request'[q] \in Leased, SessionOf[q] \notin spoiled'
        PROVE  held'[SessionOf[q]].generation = lease'[q].generation
    <3>1. /\ q # r /\ request[q] \in Leased /\ request[r] \in Leased
          /\ lease'[q] = lease[q] /\ SessionOf[q] \notin spoiled /\ SessionOf[q] \in Sessions
      BY <1>1, <1>9, <2>2, SessionOfAssumption DEF Leased
    <3>2. held[SessionOf[q]].generation = lease[q].generation
      BY <3>1 DEF StreamIInv, OwnLease
    <3>3. CASE SessionOf[q] = s
      <4>1. held[s].generation = lease[r].generation
        BY <3>1, <3>3 DEF StreamIInv, OwnLease, s
      <4>2. lease[q].generation # lease[r].generation
        BY <3>1 DEF StreamIInv, OwnLease
      <4> QED  BY <3>2, <3>3, <4>1, <4>2
    <3>4. CASE SessionOf[q] # s
      BY <1>4, <3>1, <3>2, <3>4
    <3> QED  BY <3>3, <3>4
  <2> QED  BY <2>1, <2>2 DEF OwnLease
<1>11. \A q \in Requests : Active(q)' => Active(q)
  BY <1>1, <1>9 DEF Active, Saving
<1>12. OneActive'
  BY <1>1, <1>11 DEF StreamIInv, OneActive, Excused
<1>13. \A q \in Requests : WillWriteWhatItSaw(q)' => WillWriteWhatItSaw(q)
  BY <1>1, <1>6 DEF WillWriteWhatItSaw
<1>14. SeenIsThere' /\ StoredIsCommitted'
  BY <1>1, <1>13 DEF StreamIInv, SeenIsThere, StoredIsCommitted, Excused
<1> QED  BY <1>7, <1>8, <1>10, <1>12, <1>14 DEF StreamIInv

(* A write leaves what its request added to, which is what was committed. *)
LEMMA WriteKeeps ==
  ASSUME StreamIInv, NEW r \in Requests, WriteTurns(r)
  PROVE  StreamIInv'
<1> DEFINE s == SessionOf[r]
           before == committed[s]
           kept == IF r \in Redo /\ before # <<>> THEN SubSeq(before, 1, Len(before) - 1)
                   ELSE before
<1>0. s \in Sessions
  BY SessionOfAssumption
<1>1. /\ saver[r] = (IF r \in Redo THEN "queued" ELSE "read")
      /\ saver' = [saver EXCEPT ![r] = "stopped"]
      /\ history' = [history EXCEPT ![s] = Extended(seen[r], Exchange(r))]
      /\ seen' = [seen EXCEPT ![r] = <<>>]
      /\ committed' = [committed EXCEPT ![s] = Append(kept, r)]
      /\ UNCHANGED <<clock, held, generations, lease, request, spoiled, overtaken>>
  BY DEF WriteTurns, registry
<1>2. /\ history \in [Sessions -> Seq(Turns)] /\ seen \in [Requests -> Seq(Turns)]
      /\ committed \in [Sessions -> Seq(Requests)]
      /\ saver \in [Requests -> {"none", "queued", "read", "stopped"}]
  BY DEF StreamIInv, StreamTyped
<1>3. before \in Seq(Requests) /\ kept \in Seq(Requests)
  <2>1. before \in Seq(Requests)
    BY <1>0, <1>2
  <2> HIDE DEF before
  <2>2. before # <<>> => SubSeq(before, 1, Len(before) - 1) \in Seq(Requests)
    BY <2>1, FrontProps
  <2> QED  BY <2>1, <2>2
<1>4. Extended(seen[r], Exchange(r)) \in Seq(Turns)
  BY <1>2, ExtendedTyped
<1>5. s \notin Excused => Extended(seen[r], Exchange(r)) = LastN(Exchanges(Append(kept, r)), MaxHistory)
  <2> SUFFICES ASSUME s \notin Excused
               PROVE  Extended(seen[r], Exchange(r)) = LastN(Exchanges(Append(kept, r)), MaxHistory)
    OBVIOUS
  <2>1. history[s] = LastN(Exchanges(before), MaxHistory)
    BY <1>0 DEF StreamIInv, StoredIsCommitted
  <2>2. WillWriteWhatItSaw(r)
    BY <1>1 DEF WillWriteWhatItSaw
  <2>3. seen[r] = IF r \in Redo THEN WithoutLastExchange(history[s]) ELSE history[s]
    BY <2>2 DEF StreamIInv, SeenIsThere
  <2>4. CASE r \notin Redo
    <3>1. kept = before
      BY <2>4
    <3> HIDE DEF before, kept
    <3> QED  BY <1>3, <2>1, <2>3, <2>4, <3>1, ExchangeSaved
  <2>5. CASE r \in Redo /\ before = <<>>
    <3>1. history[s] = <<>> /\ kept = <<>>
      BY <2>1, <2>5, NothingSaved
    <3>2. WithoutLastExchange(<<>>) = <<>>
      BY DEF WithoutLastExchange, WithoutLast
    <3>3. seen[r] = LastN(Exchanges(<<>>), MaxHistory)
      BY <2>3, <2>5, <3>1, <3>2, NothingSaved
    <3> HIDE DEF before, kept
    <3> QED  BY <1>3, <3>1, <3>3, ExchangeSaved
  <2>6. CASE r \in Redo /\ before # <<>>
    <3>1. PICK q \in Requests : before = Append(kept, q)
      <4>1. kept = SubSeq(before, 1, Len(before) - 1)
        BY <2>6
      <4> HIDE DEF before, kept
      <4>2. before[Len(before)] \in Requests /\ before = Append(kept, before[Len(before)])
        BY <1>3, <2>6, <4>1, FrontAndLast
      <4> QED  BY <4>2
    <3> HIDE DEF before, kept
    <3>2. seen[r] = WithoutLastExchange(LastN(Exchanges(Append(kept, q)), MaxHistory))
      BY <2>1, <2>3, <2>6, <3>1
    <3> QED  BY <1>3, <3>2, RedoneOnWhatIsThere
  <2> QED  BY <2>4, <2>5, <2>6
<1> HIDE DEF s, kept
<1>6. /\ history' \in [Sessions -> Seq(Turns)] /\ seen' \in [Requests -> Seq(Turns)]
      /\ committed' \in [Sessions -> Seq(Requests)]
      /\ saver' \in [Requests -> {"none", "queued", "read", "stopped"}]
      /\ saver'[r] = "stopped"
      /\ \A q \in Requests \ {r} : saver'[q] = saver[q] /\ seen'[q] = seen[q]
      /\ history'[s] = Extended(seen[r], Exchange(r)) /\ committed'[s] = Append(kept, r)
      /\ \A t \in Sessions \ {s} : history'[t] = history[t] /\ committed'[t] = committed[t]
  <2>1. <<>> \in Seq(Turns) /\ Append(kept, r) \in Seq(Requests)
    BY <1>3
  <2> QED  BY <1>0, <1>1, <1>2, <1>4, <2>1
<1>7. StreamTyped'
  BY <1>1, <1>6 DEF StreamIInv, StreamTyped
<1>8. SavesAreLate' /\ OwnLease'
  BY <1>1, <1>6 DEF StreamIInv, SavesAreLate, OwnLease, Saving
<1>9. \A q \in Requests : Active(q)' => Active(q)
  BY <1>1, <1>6 DEF Active, Saving
<1>10. OneActive'
  BY <1>1, <1>9 DEF StreamIInv, OneActive, Excused
<1>11. SeenIsThere'
  <2> SUFFICES ASSUME NEW q \in Requests, WillWriteWhatItSaw(q)', SessionOf[q] \notin Excused'
               PROVE  (seen[q] = IF q \in Redo THEN WithoutLastExchange(history[SessionOf[q]])
                                 ELSE history[SessionOf[q]])'
    BY DEF SeenIsThere
  <2>1. q # r
    <3>1. saver[r] \in {"queued", "read"} /\ request'[r] = request[r]
      BY <1>1
    <3>2. request[r] # "answering"
      BY <3>1 DEF StreamIInv, SavesAreLate, Saving
    <3> QED  BY <1>6, <3>1, <3>2 DEF WillWriteWhatItSaw
  <2>2. WillWriteWhatItSaw(q) /\ SessionOf[q] \notin Excused /\ SessionOf[q] \in Sessions
    BY <1>1, <1>6, <2>1, SessionOfAssumption DEF WillWriteWhatItSaw, Excused
  <2>3. Active(q) /\ Active(r)
    BY <1>1, <2>2 DEF WillWriteWhatItSaw, Active, Saving, Leased
  <2>4. SessionOf[q] # s
    BY <2>1, <2>2, <2>3 DEF StreamIInv, OneActive, s
  <2>5. seen'[q] = seen[q] /\ history'[SessionOf[q]] = history[SessionOf[q]]
    BY <1>6, <2>1, <2>2, <2>4
  <2> QED  BY <2>2, <2>5 DEF StreamIInv, SeenIsThere
<1>12. StoredIsCommitted'
  <2> SUFFICES ASSUME NEW t \in Sessions, t \notin Excused
               PROVE  history'[t] = LastN(Exchanges(committed'[t]), MaxHistory)
    BY <1>1 DEF StoredIsCommitted, Excused
  <2>1. CASE t = s
    BY <1>5, <1>6, <2>1
  <2>2. CASE t # s
    BY <1>6, <2>2 DEF StreamIInv, StoredIsCommitted
  <2> QED  BY <2>1, <2>2
<1> QED  BY <1>7, <1>8, <1>10, <1>11, <1>12 DEF StreamIInv

(* DELETE under a request that will write what it saw spoils the session.  *)
LEMMA ClearKeeps ==
  ASSUME StreamIInv, NEW s \in Sessions, ClearSession(s)
  PROVE  StreamIInv'
<1>1. /\ history' = [history EXCEPT ![s] = <<>>] /\ committed' = [committed EXCEPT ![s] = <<>>]
      /\ spoiled' = IF \E r \in On(s) : WillWriteWhatItSaw(r) THEN spoiled \cup {s} ELSE spoiled
      /\ UNCHANGED <<clock, held, generations, lease, request, saver, seen, overtaken>>
  BY DEF ClearSession, registry
<1>2. /\ history' \in [Sessions -> Seq(Turns)] /\ committed' \in [Sessions -> Seq(Requests)]
      /\ history'[s] = <<>> /\ committed'[s] = <<>>
      /\ \A t \in Sessions \ {s} : history'[t] = history[t] /\ committed'[t] = committed[t]
  <2>1. <<>> \in Seq(Turns) /\ <<>> \in Seq(Requests)
    OBVIOUS
  <2>2. history \in [Sessions -> Seq(Turns)] /\ committed \in [Sessions -> Seq(Requests)]
    BY DEF StreamIInv, StreamTyped
  <2> QED  BY <1>1, <2>1, <2>2
<1>3. StreamTyped'
  BY <1>1, <1>2 DEF StreamIInv, StreamTyped
<1>4. spoiled \subseteq spoiled' /\ Excused \subseteq Excused'
  BY <1>1 DEF Excused
<1>5. SavesAreLate' /\ OwnLease'
  BY <1>1, <1>4 DEF StreamIInv, SavesAreLate, OwnLease, Saving
<1>6. OneActive'
  BY <1>1, <1>4 DEF StreamIInv, OneActive, Active, Saving
<1>7. SeenIsThere'
  <2> SUFFICES ASSUME NEW q \in Requests, WillWriteWhatItSaw(q)', SessionOf[q] \notin Excused'
               PROVE  (seen[q] = IF q \in Redo THEN WithoutLastExchange(history[SessionOf[q]])
                                 ELSE history[SessionOf[q]])'
    BY DEF SeenIsThere
  <2>1. WillWriteWhatItSaw(q) /\ SessionOf[q] \notin Excused /\ SessionOf[q] \in Sessions
    BY <1>1, <1>4, SessionOfAssumption DEF WillWriteWhatItSaw
  <2>2. SessionOf[q] # s
    <3>1. SessionOf[q] \notin spoiled'
      BY DEF Excused
    <3> QED  BY <1>1, <2>1, <3>1 DEF On
  <2> QED  BY <1>1, <1>2, <2>1, <2>2 DEF StreamIInv, SeenIsThere
<1>8. StoredIsCommitted'
  <2> SUFFICES ASSUME NEW t \in Sessions, t \notin Excused'
               PROVE  history'[t] = LastN(Exchanges(committed'[t]), MaxHistory)
    BY DEF StoredIsCommitted
  <2>1. CASE t = s
    BY <1>2, <2>1, NothingSaved
  <2>2. CASE t # s
    BY <1>2, <1>4, <2>2 DEF StreamIInv, StoredIsCommitted
  <2> QED  BY <2>1, <2>2
<1> QED  BY <1>3, <1>5, <1>6, <1>7, <1>8 DEF StreamIInv

LEMMA RestKeeps ==
  ASSUME StreamIInv, Tick \/ UNCHANGED vars
  PROVE  StreamIInv'
<1>1. /\ clock' \in Nat
      /\ UNCHANGED <<held, generations, lease, history, request, saver, seen, committed, spoiled, overtaken>>
  BY DEF Tick, Locks!Tick, Locks!lockVars, vars, registry, ghosts, StreamIInv, StreamTyped
<1>2. StreamTyped' /\ SavesAreLate' /\ OwnLease'
  BY <1>1 DEF StreamIInv, StreamTyped, SavesAreLate, OwnLease, Saving
<1>3. OneActive' /\ SeenIsThere' /\ StoredIsCommitted'
  BY <1>1 DEF StreamIInv, OneActive, SeenIsThere, StoredIsCommitted, Excused, Active, Saving, WillWriteWhatItSaw
<1> QED  BY <1>2, <1>3 DEF StreamIInv

LEMMA StreamQueue == Spec => []StreamIInv
<1>1. ASSUME StreamIInv, [Next]_vars PROVE StreamIInv'
  BY <1>1, StepCases, InnerKeeps, BeginKeeps, ReleaseKeeps, WriteKeeps, ClearKeeps, RestKeeps
<1> QED  BY StreamInit, <1>1, PTL DEF Spec

(* With no save under way, the history of a session that nobody cleared or *)
(* took over meanwhile is the last MAX_HISTORY turns of what was           *)
(* committed, redo requests included (conversation_store.py:170-211,       *)
(* 257-268).                                                               *)
THEOREM CommittedIsStored == Spec => []HistoryIsCommitted
<1>1. StreamIInv => HistoryIsCommitted
  BY DEF StreamIInv, StoredIsCommitted, HistoryIsCommitted, Excused
<1> QED  BY StreamQueue, <1>1, PTL

-----------------------------------------------------------------------------
(* Who is to free a session. A request holds one share, so the hold goes   *)
(* with it; a hold that took over an expired one is its own request's.     *)
HeldIInv ==
  \A s \in Sessions : held[s] # Locks!NotHeld =>
    /\ held[s].holders = 1
    /\ \E r \in On(s) : request[r] \in Leased /\ lease[r].generation = held[s].generation

LEMMA HeldBegins ==
  ASSUME StreamIInv, HeldIInv, NEW r \in Requests, Begin(r)
  PROVE  HeldIInv'
<1> DEFINE s == SessionOf[r]
<1>0. s \in Sessions /\ r \in On(s)
  BY SessionOfAssumption DEF On
<1>1. /\ request[r] = "idle" /\ request' = [request EXCEPT ![r] = "leased"]
      /\ held' = [held EXCEPT ![s] = [generation |-> generations + 1, holders |-> 1, since |-> clock]]
      /\ lease' = [lease EXCEPT ![r] = [key |-> s, generation |-> generations + 1, released |-> FALSE]]
  BY DEF Begin, RequestStep, Locks!TryAcquire
<1>2. /\ held \in [Sessions -> Locks!HeldEntry] /\ lease \in [Requests -> Locks!LeaseObject]
      /\ request \in [Requests -> Leased \cup {"idle", "closed"}]
  BY DEF StreamIInv, StreamTyped
<1> HIDE DEF s
<1>3. /\ held'[s].holders = 1 /\ held'[s].generation = generations + 1
      /\ \A k \in Sessions \ {s} : held'[k] = held[k]
  BY <1>0, <1>1, <1>2
<1>4. /\ request'[r] = "leased" /\ lease'[r].generation = generations + 1
      /\ \A q \in Requests \ {r} : request'[q] = request[q] /\ lease'[q] = lease[q]
  BY <1>1, <1>2
<1>5. request[r] \notin Leased
  BY <1>1 DEF Leased
<1> SUFFICES ASSUME NEW k \in Sessions, held'[k] # Locks!NotHeld
             PROVE  /\ held'[k].holders = 1
                    /\ \E q \in On(k) : request'[q] \in Leased /\ lease'[q].generation = held'[k].generation
  BY DEF HeldIInv, On, Leased
<1>6. CASE k = s
  BY <1>0, <1>3, <1>4, <1>6 DEF Leased
<1>7. CASE k # s
  <2>1. held'[k] = held[k]
    BY <1>3, <1>7
  <2>2. /\ held[k].holders = 1
        /\ \E q \in On(k) : request[q] \in Leased /\ lease[q].generation = held[k].generation
    BY <2>1 DEF HeldIInv
  <2> QED  BY <1>4, <1>5, <2>1, <2>2 DEF On
<1> QED  BY <1>6, <1>7

LEMMA HeldReleases ==
  ASSUME StreamIInv, HeldIInv, NEW r \in Requests, LeaveBeforeStart(r) \/ EndSession(r)
  PROVE  HeldIInv'
<1> DEFINE s == SessionOf[r]
<1>0. s \in Sessions
  BY SessionOfAssumption
<1>1. /\ request[r] \in {"leased", "closing"} /\ request' = [request EXCEPT ![r] = "closed"]
      /\ lease' = [lease EXCEPT ![r].released = TRUE]
      /\ held' = [held EXCEPT ![lease[r].key] = Locks!EntryAfterRelease(r)]
  BY DEF LeaveBeforeStart, EndSession, RequestStep, Locks!Release
<1>2. /\ held \in [Sessions -> Locks!HeldEntry] /\ lease \in [Requests -> Locks!LeaseObject]
      /\ request \in [Requests -> Leased \cup {"idle", "closed"}]
  BY DEF StreamIInv, StreamTyped
<1>3. lease[r].key = s
  BY <1>1 DEF StreamIInv, OwnLease, Leased
<1> HIDE DEF s
<1>4. /\ held'[s] = Locks!EntryAfterRelease(r)
      /\ \A k \in Sessions \ {s} : held'[k] = held[k]
  BY <1>0, <1>1, <1>2, <1>3
<1>5. \A q \in Requests \ {r} : request'[q] = request[q] /\ lease'[q] = lease[q]
  BY <1>1, <1>2
(* Whose hold is still there did not leave. *)
<1>6. ASSUME NEW k \in Sessions, held'[k] # Locks!NotHeld
      PROVE  /\ held[k] # Locks!NotHeld /\ held'[k] = held[k]
             /\ k = s => held[k].generation # lease[r].generation
  <2>1. CASE k # s
    BY <1>4, <1>6, <2>1
  <2>2. CASE k = s
    <3>1. held[s] # Locks!NotHeld
      BY <1>3, <1>4, <1>6, <2>2 DEF Locks!EntryAfterRelease
    <3>2. held[s].holders <= 1
      BY <1>0, <3>1 DEF HeldIInv
    <3>3. held[s].generation # lease[r].generation
      BY <1>3, <1>4, <1>6, <2>2, <3>2 DEF Locks!EntryAfterRelease
    <3> QED  BY <1>3, <1>4, <2>2, <3>1, <3>3 DEF Locks!EntryAfterRelease
  <2> QED  BY <2>1, <2>2
<1> SUFFICES ASSUME NEW k \in Sessions, held'[k] # Locks!NotHeld
             PROVE  /\ held'[k].holders = 1
                    /\ \E q \in On(k) : request'[q] \in Leased /\ lease'[q].generation = held'[k].generation
  BY DEF HeldIInv, On, Leased
<1>7. /\ held[k] # Locks!NotHeld /\ held'[k] = held[k]
      /\ k = s => held[k].generation # lease[r].generation
  BY <1>6
<1>8. PICK q \in On(k) : request[q] \in Leased /\ lease[q].generation = held[k].generation
  BY <1>7 DEF HeldIInv
<1>9. q \in Requests \ {r}
  BY <1>7, <1>8 DEF On, s
<1> QED  BY <1>5, <1>7, <1>8, <1>9 DEF HeldIInv

LEMMA HeldStep ==
  ASSUME StreamIInv, HeldIInv, [Next]_vars
  PROVE  HeldIInv'
<1>1. ASSUME UNCHANGED <<held, lease>>,
             \A q \in Requests : request[q] \in Leased => request'[q] \in Leased
      PROVE  HeldIInv'
  BY <1>1 DEF HeldIInv, On, Leased
<1>2. ASSUME NEW r \in Requests, Inner(r) PROVE HeldIInv'
  <2>1. /\ UNCHANGED <<held, lease>>
        /\ \A q \in Requests \ {r} : request'[q] = request[q]
    BY <1>2, InnerFrame
  <2>2. request[r] \in Leased => request'[r] \in Leased
    BY <1>2 DEF Inner, Start, LoadHistory, StopBeforeSave, QueueSave, Finish, LeaveDuringSave,
                ReadTurns, FailSave, RequestStep, Close, Leased, StreamIInv, StreamTyped
  <2> QED  BY <1>1, <2>1, <2>2
<1>3. ASSUME NEW r \in Requests, WriteTurns(r) PROVE HeldIInv'
  BY <1>1, <1>3 DEF WriteTurns, registry
<1>4. ASSUME NEW s \in Sessions, ClearSession(s) PROVE HeldIInv'
  BY <1>1, <1>4 DEF ClearSession, registry
<1>5. CASE Tick \/ UNCHANGED vars
  BY <1>1, <1>5 DEF Tick, Locks!Tick, Locks!lockVars, vars, registry
<1> QED  BY <1>2, <1>3, <1>4, <1>5, StepCases, HeldBegins, HeldReleases

(* As long as a session is busy, the request whose hold it is has still to *)
(* end it, for any interleaving of departures, takeovers of expired leases *)
(* and late releases (sse.py:62-83, session_locks.py:104-147).             *)
THEOREM BusyMeansLeased == Spec => []HeldByTheLiving
<1>1. Init => HeldIInv
  BY DEF Init, Locks!Init, HeldIInv
<1>2. HeldIInv => HeldByTheLiving
  BY DEF HeldIInv, HeldByTheLiving, Leased, On
<1> QED  BY <1>1, <1>2, StreamQueue, HeldStep, PTL DEF Spec

-----------------------------------------------------------------------------
(* Whole exchanges: what is cut off and what a redo takes away are whole   *)
(* exchanges too, if the history holds a whole number of them.             *)
LEMMA EndsExchanged ==
  ASSUME NEW g \in Seq(Requests), NEW rs \in Seq(Requests), Ends(g, rs)
  PROVE  Ends(Exchanges(g), Exchanges(rs))
<1> DEFINE who(i) == IF i % 2 = 1 THEN "user" ELSE "assistant"
           m == Len(g)
           n == Len(rs)
<1>1. m \in Nat /\ n \in Nat /\ m <= n /\ \A i \in 1 .. m : g[i] = rs[n - m + i]
  BY DEF Ends
<1>2. /\ Len(Exchanges(g)) = 2 * m
      /\ \A i \in 1 .. 2 * m : Exchanges(g)[i] = Turn(who(i), g[(i + 1) \div 2])
  BY ExchangesProps
<1>3. /\ Len(Exchanges(rs)) = 2 * n
      /\ \A i \in 1 .. 2 * n : Exchanges(rs)[i] = Turn(who(i), rs[(i + 1) \div 2])
  BY ExchangesProps
<1> HIDE DEF m, n
<1>4. ASSUME NEW i \in 1 .. 2 * m PROVE Exchanges(g)[i] = Exchanges(rs)[2 * n - 2 * m + i]
  <2> SUFFICES ASSUME NEW j, j = 2 * n - 2 * m + i PROVE Exchanges(g)[i] = Exchanges(rs)[j]
    OBVIOUS
  <2>1. j \in 1 .. 2 * n /\ j % 2 = i % 2 /\ (j + 1) \div 2 = n - m + ((i + 1) \div 2)
        /\ (i + 1) \div 2 \in 1 .. m
    BY <1>1
  <2>2. g[(i + 1) \div 2] = rs[(j + 1) \div 2]
    BY <1>1, <2>1
  <2>3. Exchanges(g)[i] = Turn(who(i), g[(i + 1) \div 2])
    BY <1>2
  <2>4. Exchanges(rs)[j] = Turn(who(j), rs[(j + 1) \div 2])
    BY <1>3, <2>1
  <2> QED  BY <2>1, <2>2, <2>3, <2>4
<1>5. 2 * m <= 2 * n
  BY <1>1
<1> QED  BY <1>2, <1>3, <1>4, <1>5 DEF Ends

LEMMA LastExchanges ==
  ASSUME NEW rs \in Seq(Requests), NEW k \in Nat
  PROVE  LastN(Exchanges(rs), 2 * k) = Exchanges(LastN(rs, k))
<1> DEFINE e == Exchanges(rs)
           g == LastN(rs, k)
           f == Exchanges(g)
           l == LastN(e, 2 * k)
<1>1. g \in Seq(Requests) /\ Ends(g, rs) /\ Len(g) = IF Len(rs) > k THEN k ELSE Len(rs)
  BY LastNProps
<1>2. e \in Seq(Turns) /\ Len(e) = 2 * Len(rs)
  BY ExchangesProps DEF Turns
<1> HIDE DEF g
<1>3. f \in Seq(Turns) /\ Len(f) = 2 * Len(g) /\ Ends(f, e)
  BY <1>1, ExchangesProps, EndsExchanged DEF Turns
<1>4. 2 * k \in Nat
  OBVIOUS
<1> HIDE DEF e, f
<1>5. l \in Seq(Turns) /\ Ends(l, e) /\ Len(l) = IF Len(e) > 2 * k THEN 2 * k ELSE Len(e)
  BY <1>2, <1>4, LastNProps
<1>6. Len(rs) \in Nat
  OBVIOUS
<1> HIDE DEF l
<1>7. Len(l) = Len(f)
  BY <1>1, <1>2, <1>3, <1>5, <1>6
<1>8. l = f
  BY <1>2, <1>3, <1>5, <1>7, OneEnd
<1> QED  BY <1>8 DEF l, f, e, g

(* A redo leaves whole exchanges. *)
LEMMA RedoneWhole ==
  ASSUME NEW h, Whole(h)
  PROVE  Whole(WithoutLastExchange(h))
<1>1. PICK rs \in Seq(Requests) : h = Exchanges(rs)
  BY DEF Whole
<1>2. CASE rs = <<>>
  <2>1. WithoutLastExchange(<<>>) = <<>>
    BY DEF WithoutLastExchange, WithoutLast
  <2> QED  BY <1>1, <1>2, <2>1, NothingSaved DEF Whole
<1>3. CASE rs # <<>>
  <2> DEFINE f == SubSeq(rs, 1, Len(rs) - 1)
             q == rs[Len(rs)]
             g == Exchanges(f)
             w == WithoutLastExchange(h)
  <2>1. f \in Seq(Requests) /\ q \in Requests /\ rs = Append(f, q)
    BY <1>3, FrontProps, FrontAndLast
  <2> HIDE DEF f, q
  <2>2. g \in Seq(Turns) /\ Len(g) = 2 * Len(f) /\ Len(g) \in Nat
    <3>1. Len(f) \in Nat
      BY <2>1
    <3>2. Exchanges(f) \in Seq(Turns) /\ Len(Exchanges(f)) = 2 * Len(f)
      BY <2>1, ExchangesProps DEF Turns
    <3> QED  BY <3>1, <3>2
  <2>3. h = g \o Exchange(q) /\ Exchange(q) \in Seq(Turns) /\ Len(Exchange(q)) = 2
    BY <1>1, <2>1, ExchangesMore DEF Turns
  <2> HIDE DEF g
  <2>4. h \in Seq(Turns) /\ Len(h) = Len(g) + 2
    <3>1. /\ g \o Exchange(q) \in Seq(Turns)
          /\ Len(g \o Exchange(q)) = Len(g) + Len(Exchange(q))
      BY <2>2, <2>3, ConcatProperties
    <3> QED  BY <2>3, <3>1
  <2>5. Ends(h, g \o Exchange(q)) /\ Ends(g, g)
    BY <2>2, <2>3, <2>4 DEF Ends
  <2>6. w \in Seq(Turns) /\ Ends(w, g) /\ Len(w) = IF Len(h) > 2 THEN Len(h) - 2 ELSE 0
    BY <2>1, <2>2, <2>4, <2>5, WithoutEnd DEF Turns
  <2> HIDE DEF w
  <2>7. Len(w) = Len(g)
    BY <2>2, <2>4, <2>6
  <2>8. w = g
    BY <2>2, <2>5, <2>6, <2>7, OneEnd
  <2> QED  BY <2>1, <2>8 DEF Whole, w, g
<1> QED  BY <1>2, <1>3

(* So does a write. *)
LEMMA ExtendedWhole ==
  ASSUME MaxHistory % 2 = 0, NEW h, Whole(h), NEW r \in Requests
  PROVE  Whole(Extended(h, Exchange(r)))
<1>1. PICK rs \in Seq(Requests) : h = Exchanges(rs)
  BY DEF Whole
<1>2. PICK k \in Nat : MaxHistory = 2 * k
  <2>1. MaxHistory \div 2 \in Nat /\ MaxHistory = 2 * (MaxHistory \div 2)
    <3>1. MaxHistory \in Nat
      BY MaxHistoryAssumption
    <3> QED  BY <3>1
  <2> QED  BY <2>1
<1>3. h \o Exchange(r) = Exchanges(Append(rs, r)) /\ Append(rs, r) \in Seq(Requests)
  <2>1. Exchanges(Append(rs, r)) = Exchanges(rs) \o Exchange(r)
    BY ExchangesMore
  <2>2. Append(rs, r) \in Seq(Requests)
    OBVIOUS
  <2> QED  BY <1>1, <2>1, <2>2
<1>4. ASSUME NEW more \in Seq(Requests)
      PROVE  LastN(Exchanges(more), 2 * k) = Exchanges(LastN(more, k)) /\ LastN(more, k) \in Seq(Requests)
  BY LastExchanges, LastNProps
<1>5. Extended(h, Exchange(r)) = LastN(Exchanges(Append(rs, r)), 2 * k)
  BY <1>2, <1>3 DEF Extended
<1> QED  BY <1>3, <1>4, <1>5 DEF Whole

Pairing == (\A s \in Sessions : Whole(history[s])) /\ (\A r \in Requests : Whole(seen[r]))

LEMMA PairingKept ==
  ASSUME MaxHistory % 2 = 0, StreamIInv, Pairing, [Next]_vars
  PROVE  Pairing'
<1>1. history \in [Sessions -> Seq(Turns)] /\ seen \in [Requests -> Seq(Turns)]
  BY DEF StreamIInv, StreamTyped
<1>2. Whole(<<>>)
  <2>1. <<>> \in Seq(Requests)
    OBVIOUS
  <2> QED  BY <2>1, NothingSaved DEF Whole
<1>3. CASE UNCHANGED <<history, seen>>
  BY <1>3 DEF Pairing, Whole
<1>4. ASSUME NEW r \in Requests, NEW g, Whole(g),
             history' = history, seen' = [seen EXCEPT ![r] = g]
      PROVE  Pairing'
  BY <1>1, <1>4 DEF Pairing, Whole
<1>5. ASSUME NEW r \in Requests, WriteTurns(r)
      PROVE  Pairing'
  <2> DEFINE s == SessionOf[r]
             h == Extended(seen[r], Exchange(r))
  <2>1. history' = [history EXCEPT ![s] = h] /\ seen' = [seen EXCEPT ![r] = <<>>] /\ s \in Sessions
    BY <1>5, SessionOfAssumption DEF WriteTurns
  <2>2. Whole(h)
    BY ExtendedWhole DEF Pairing
  <2> HIDE DEF s, h
  <2>3. \A t \in Sessions : history'[t] = IF t = s THEN h ELSE history[t]
    BY <1>1, <2>1
  <2>4. \A q \in Requests : seen'[q] = IF q = r THEN <<>> ELSE seen[q]
    BY <1>1, <2>1
  <2> QED  BY <1>2, <2>2, <2>3, <2>4 DEF Pairing, Whole
<1>6. ASSUME NEW s \in Sessions, ClearSession(s)
      PROVE  Pairing'
  <2>1. history' = [history EXCEPT ![s] = <<>>] /\ seen' = seen
    BY <1>6 DEF ClearSession
  <2>2. \A t \in Sessions : history'[t] = IF t = s THEN <<>> ELSE history[t]
    BY <1>1, <2>1
  <2> QED  BY <1>2, <2>1, <2>2 DEF Pairing, Whole
<1>7. ASSUME NEW r \in Requests, Inner(r)
      PROVE  Pairing'
  <2>1. CASE Start(r) \/ QueueSave(r) \/ Finish(r)
    BY <1>3, <2>1 DEF Start, QueueSave, Finish
  <2>2. CASE LoadHistory(r)
    <3> DEFINE g == IF r \in Redo THEN WithoutLastExchange(history[SessionOf[r]]) ELSE <<>>
    <3>1. Whole(g)
      BY <1>2, RedoneWhole, SessionOfAssumption DEF Pairing
    <3>2. history' = history /\ seen' = [seen EXCEPT ![r] = g]
      BY <2>2 DEF LoadHistory
    <3> HIDE DEF g
    <3> QED  BY <1>4, <3>1, <3>2
  <2>3. CASE StopBeforeSave(r) \/ FailSave(r)
    BY <1>2, <1>4, <2>3 DEF StopBeforeSave, FailSave
  <2>4. CASE LeaveDuringSave(r)
    BY <1>2, <1>3, <1>4, <2>4 DEF LeaveDuringSave
  <2>5. CASE ReadTurns(r)
    <3>1. Whole(history[SessionOf[r]])
      BY SessionOfAssumption DEF Pairing
    <3> QED  BY <1>4, <2>5, <3>1 DEF ReadTurns
  <2> QED  BY <1>7, <2>1, <2>2, <2>3, <2>4, <2>5 DEF Inner
<1>8. CASE \E r \in Requests : Begin(r) \/ LeaveBeforeStart(r) \/ EndSession(r)
  BY <1>3, <1>8 DEF Begin, LeaveBeforeStart, EndSession
<1>9. CASE Tick \/ UNCHANGED vars
  BY <1>3, <1>9 DEF Tick, vars
<1> QED  BY <1>5, <1>6, <1>7, <1>8, <1>9, StepCases

(* An even MAX_HISTORY (the default is 20) keeps questions with their      *)
(* answers, through overlapping saves, takeovers and DELETE; an odd one    *)
(* would keep the oldest answer without its question                       *)
(* (conversation_store.py:170-179, 203-211).                               *)
THEOREM PairsStayTogether ==
  ASSUME MaxHistory % 2 = 0
  PROVE  Spec => []HistoryPaired
<1>1. Init => Pairing
  <2>1. <<>> \in Seq(Requests)
    OBVIOUS
  <2> QED  BY <2>1, NothingSaved DEF Init, Pairing, Whole
<1>2. StreamIInv /\ Pairing /\ [Next]_vars => Pairing'
  BY PairingKept
<1>3. Pairing => HistoryPaired
  <2> SUFFICES ASSUME Pairing, NEW s \in Sessions
               PROVE  \E rs \in [1 .. Len(history[s]) \div 2 -> Requests] : history[s] = Exchanges(rs)
    BY DEF HistoryPaired
  <2>1. PICK rs \in Seq(Requests) : history[s] = Exchanges(rs)
    BY DEF Pairing, Whole
  <2>2. Len(history[s]) = 2 * Len(rs) /\ Len(rs) \in Nat
    <3>1. Len(Exchanges(rs)) = 2 * Len(rs)
      BY ExchangesProps
    <3>2. Len(rs) \in Nat
      OBVIOUS
    <3> QED  BY <2>1, <3>1, <3>2
  <2>3. Len(history[s]) \div 2 = Len(rs)
    BY <2>2
  <2>4. rs \in [1 .. Len(rs) -> Requests]
    OBVIOUS
  <2>5. rs \in [1 .. Len(history[s]) \div 2 -> Requests]
    BY <2>3, <2>4
  <2> QED  BY <2>1, <2>5
<1> QED  BY StreamQueue, <1>1, <1>2, <1>3, PTL DEF Spec
=============================================================================
