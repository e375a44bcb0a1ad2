--------------------------- MODULE ServicesProofs ---------------------------
(***************************************************************************)
(* The components of Services, for every set of requests, clients, jobs,   *)
(* runs and so on, and any number of failures and restarts.                *)
(*                                                                         *)
(* A behaviour is one of one component.  So each part below has an         *)
(* invariant of its component, shown of the component's Init and Next, and *)
(* carries it over to Services at its end.                                 *)
(***************************************************************************)
EXTENDS Services, FiniteSetTheorems, TLAPS

LEMMA Chosen ==
  /\ ServicesInit =>
       /\ Board!InitBoardLog /\ Ledgers!InitMetering /\ Admission!InitPermits
       /\ Agent!InitLoop /\ Broker!InitApproval /\ Timer!InitSchedule
       /\ Judge!InitCompletion /\ Engine!InitWorkflow /\ Settings!InitProvider
       /\ Account!InitCredentials
  /\ [ServicesNext]_services =>
       /\ component' = component
       /\ component = "board" => Board!NextBoardLog \/ UNCHANGED board
       /\ component = "ledgers" => Ledgers!NextMetering \/ UNCHANGED ledgers
       /\ component = "permits" => Admission!NextPermits \/ UNCHANGED permits
       /\ component = "loop" => Agent!NextLoop \/ UNCHANGED loop
       /\ component = "approval" => Broker!NextApproval \/ UNCHANGED approvals
       /\ component = "schedule" => Timer!NextSchedule \/ UNCHANGED timer
       /\ component = "completion" => Judge!NextCompletion \/ UNCHANGED completions
       /\ component = "workflow" => Engine!NextWorkflow \/ UNCHANGED flows
       /\ component = "provider" => Settings!NextProvider \/ UNCHANGED settings
       /\ component = "account" => Account!NextCredentials \/ UNCHANGED account
BY DEF ServicesInit, ServicesNext, services

-----------------------------------------------------------------------------
(* The snapshot of a board *)

Honest(s) == s = None \/ s.late \/ s.stamp \in {None, s.upto}

WriterOK(w) ==
  /\ at[w] \notin Board!Reading \cup {"replace"} => seen[w] = None
  /\ at[w] \in Board!Reading => Honest(seen[w])
  /\ at[w] = "stamp" /\ w \notin late => base[w] = log
  /\ at[w] = "replace" /\ w \notin late => seen[w] \in {None, base[w]}

BoardInv ==
  /\ log \in Nat /\ Honest(snap)
  /\ DOMAIN at = Writers /\ DOMAIN base = Writers /\ DOMAIN seen = Writers
  /\ \A w \in Writers : WriterOK(w)

LEMMA WriterSteps ==
  ASSUME BoardInv, Board!NextBoardLog
  PROVE  BoardInv'
<1> USE DEF Board!Go, Board!Return, Board!Reading, Honest
<1>1. ASSUME NEW w \in Writers, DOMAIN at' = Writers, DOMAIN base' = Writers, DOMAIN seen' = Writers,
             log' \in Nat, Honest(snap)', WriterOK(w)', late' \subseteq late,
             log' = log, late \subseteq late' \cup {w},
             \A v \in Writers \ {w} : at'[v] = at[v] /\ base'[v] = base[v] /\ seen'[v] = seen[v]
      PROVE  BoardInv'
  <2>1. ASSUME NEW v \in Writers \ {w}
        PROVE  WriterOK(v)'
    BY <1>1 DEF BoardInv, WriterOK
  <2> QED
    BY <1>1, <2>1 DEF BoardInv
<1>2. ASSUME NEW w \in Writers, Board!ReadSnapshot(w) \/ Board!Load(w) \/ Board!TakeLock(w)
               \/ Board!LockTimesOut(w) \/ Board!CheckDrift(w) \/ Board!Refused(w)
      PROVE  BoardInv'
  <2>1. /\ DOMAIN at' = Writers /\ DOMAIN base' = Writers /\ DOMAIN seen' = Writers
        /\ log' \in Nat /\ Honest(snap)' /\ late' = late /\ log' = log
        /\ \A v \in Writers \ {w} : at'[v] = at[v] /\ base'[v] = base[v] /\ seen'[v] = seen[v]
    BY <1>2 DEF BoardInv, Board!ReadSnapshot, Board!Load, Board!TakeLock, Board!LockTimesOut,
         Board!CheckDrift, Board!Refused
  <2>2. WriterOK(w)'
    BY <1>2 DEF BoardInv, WriterOK, Board!ReadSnapshot, Board!Load, Board!TakeLock,
         Board!LockTimesOut, Board!CheckDrift, Board!Refused
  <2> QED
    BY <1>1, <2>1, <2>2
<1>3. ASSUME NEW w \in Writers, Board!ReadAnchor(w) \/ Board!ReadStamp(w) \/ Board!Replace(w)
               \/ Board!SaveFails(w) \/ Board!WriterDies(w)
      PROVE  BoardInv'
  <2>1. /\ DOMAIN at' = Writers /\ DOMAIN base' = Writers /\ DOMAIN seen' = Writers
        /\ log' \in Nat /\ late' \subseteq late /\ log' = log /\ late \subseteq late' \cup {w}
        /\ \A v \in Writers \ {w} : at'[v] = at[v] /\ base'[v] = base[v] /\ seen'[v] = seen[v]
    BY <1>3 DEF BoardInv, Board!ReadAnchor, Board!ReadStamp, Board!Replace, Board!SaveFails, Board!WriterDies
  <2>2. Honest(snap)'
    <3>1. CASE UNCHANGED snap
      BY <3>1 DEF BoardInv
    <3>2. CASE Board!Replace(w)
      BY <3>2 DEF BoardInv, WriterOK, Board!Replace
    <3> QED
      BY <1>3, <3>1, <3>2 DEF Board!ReadAnchor, Board!ReadStamp, Board!SaveFails, Board!WriterDies
  <2>3. WriterOK(w)'
    BY <1>3 DEF BoardInv, WriterOK, Board!ReadAnchor, Board!ReadStamp, Board!Replace,
         Board!SaveFails, Board!WriterDies
  <2> QED
    BY <1>1, <2>1, <2>2, <2>3
<1>4. ASSUME NEW w \in Writers, Board!AppendEvent(w) \/ Board!AppendFails(w)
      PROVE  BoardInv'
  <2>1. /\ DOMAIN at' = Writers /\ DOMAIN base' = Writers /\ DOMAIN seen' = Writers
        /\ log' \in Nat /\ snap' = snap /\ at[w] = "append" /\ at'[w] \in {"anchor", "idle"} /\ seen' = seen
        /\ \A v \in Writers \ {w} : at'[v] = at[v] /\ base'[v] = base[v]
        /\ \/ log' = log /\ late' = late
           \/ late' = late \cup {v \in Writers : at[v] = "stamp"}
    BY <1>4 DEF BoardInv, Board!AppendEvent, Board!AppendFails, Board!Grows
  <2>2. ASSUME NEW v \in Writers
        PROVE  WriterOK(v)'
    <3>1. CASE v = w
      BY <2>1, <3>1 DEF BoardInv, WriterOK
    <3>2. CASE v # w
      BY <2>1, <3>2 DEF BoardInv, WriterOK
    <3> QED
      BY <3>1, <3>2
  <2> QED
    BY <2>1, <2>2 DEF BoardInv
<1>5. CASE Board!DeleteSnapshot
  BY <1>5 DEF BoardInv, WriterOK, Board!DeleteSnapshot
<1> QED
  BY <1>2, <1>3, <1>4, <1>5 DEF Board!NextBoardLog

\* A snapshot hides events only if the log grew between its anchor and its stamp
\* (Board::apply, which gives both locks back first, and save_snapshot).
THEOREM OnlyLateHidesHolds == ServicesSpec => []OnlyLateHides
<1>1. ServicesInit => BoardInv
  BY Chosen DEF Board!InitBoardLog, BoardInv, WriterOK, Honest, Board!Reading
<1>2. (component = "board" => BoardInv) /\ [ServicesNext]_services => (component = "board" => BoardInv)'
  <2>1. BoardInv /\ UNCHANGED board => BoardInv'
    BY DEF board, BoardInv, WriterOK, Honest
  <2> QED
    BY <2>1, Chosen, WriterSteps
<1>3. BoardInv => Board!OnlyLateHides
  <2> SUFFICES ASSUME BoardInv, NEW s \in Board!Snapshots
               PROVE  Board!Believed(s) = log \/ s.late
    BY DEF Board!OnlyLateHides
  <2>1. s # None /\ Honest(s)
    BY DEF Board!Snapshots, BoardInv, WriterOK
  <2> QED
    BY <2>1, BoardAssumption DEF Honest, Board!Believed, BoardInv
<1>4. (component = "board" => BoardInv) => OnlyLateHides
  BY <1>3 DEF OnlyLateHides
<1> QED
  BY <1>1, <1>2, <1>4, PTL DEF ServicesSpec


-----------------------------------------------------------------------------
(* The ledgers of the usage *)

\* The requests of the run; what is said below is said of them.  Those outside
\* it come and go in any state of the Session, and touch entries of their own.
Own == Requests \ Aside

ClaimRecords == [phase : {"prepared", "started"}, known : BOOLEAN]
UsageRecords == [count : [Requests -> Nat], known : SUBSET Requests, receipts : SUBSET Requests, pending : SUBSET Requests]
GoalRecords == [count : [Requests -> Nat], receipts : SUBSET Requests]
Stages == {"count", "charge", "acknowledge", "finish", "forget", "end"}
Settlements == [request : Requests, stage : Stages, by : {"live", "boot", "owed", "deletion"}]
Sending == {"prepared", "started", "calling", "streamed"}
Places == {"idle", "settling", "over"} \cup Sending

MeteringTypes ==
  /\ pc \in [Requests -> Places] /\ told \in [Requests -> BOOLEAN]
  /\ claim \in [Requests -> ClaimRecords \cup {None}]
  /\ usage \in UsageRecords /\ usageMem \in UsageRecords
  /\ settling \in Settlements \cup {None} /\ process \in {"boot", "live", "failed"}
  /\ session \in {"alive", "marked", "staged", "restoring", "committed", "gone"}
  /\ goal \in GoalRecords \cup {None} /\ (session \notin {"committed", "gone"} => goal # None)
  /\ session \in {"staged", "restoring"} => manifest \in [usage : UsageRecords, goal : GoalRecords]

\* Memory and file differ in receipts that were not removed.
SameUsage == usage.count = usageMem.count /\ usage.known = usageMem.known /\ usage.pending = usageMem.pending

\* A request in the two ledgers.  Until its claim is gone its receipt guards
\* the Session, and until the charge is no longer owed one guards the Goal.
Entered(u, g, r) ==
  /\ u.count[r] \in {0, 1} /\ g.count[r] \in {0, 1}
  /\ u.count[r] = 0 => r \notin u.receipts /\ r \notin u.pending /\ g.count[r] = 0
  /\ g.count[r] = 0 => r \notin g.receipts /\ (r \in Bound /\ u.count[r] = 1 => r \in u.pending)
  /\ g.count[r] = 1 /\ r \in u.pending => r \in g.receipts
  /\ r \in u.pending => r \in Bound /\ claim[r] # None
  /\ claim[r] # None /\ u.count[r] = 1 => r \in u.receipts
  /\ r \in called /\ u.count[r] = 0 => claim[r] # None
  /\ r \in reported /\ u.count[r] = 1 => r \in u.known

\* The claim of a request, by the place of its caller.
ClaimOfCaller(r) ==
  /\ pc[r] = "idle" => claim[r] = None /\ r \notin called
  /\ pc[r] = "prepared" => claim[r] # None /\ claim[r].phase = "prepared"
  /\ pc[r] \in {"started", "calling", "streamed"} => claim[r] # None /\ claim[r].phase = "started"
  /\ pc[r] = "settling" /\ (settling = None \/ settling.request # r) => claim[r] # None /\ claim[r].phase = "started"
  /\ pc[r] \in {"idle"} \cup Sending => usageMem.count[r] = 0
  /\ claim[r] # None /\ claim[r].phase = "prepared" => usageMem.count[r] = 0 /\ r \notin called
  /\ pc[r] \in {"idle", "prepared", "started"} => r \notin called /\ r \notin reported
  /\ r \in reported /\ pc[r] \in {"calling", "streamed"} => told[r]
  /\ r \in reported /\ claim[r] # None => claim[r].known

\* A settlement has done what its stage says.
SettlementDone ==
  LET r == settling.request IN
  /\ settling.stage \in {"count", "charge", "acknowledge", "finish"} => claim[r] # None /\ claim[r].phase = "started"
  /\ settling.stage \in {"charge", "acknowledge", "finish"} => usageMem.count[r] = 1
  /\ settling.stage = "acknowledge" => r \in usageMem.pending /\ goal.count[r] = 1
  /\ settling.stage = "finish" => r \notin usageMem.pending
  /\ settling.stage = "forget" => claim[r] = None

SettlementOK ==
  settling # None =>
    /\ settling.by = "live" => process = "live" /\ pc[settling.request] = "settling" /\ session = "alive"
    /\ settling.by \in {"boot", "owed"} => process = "boot"
    /\ settling.by = "deletion" => process = "live" /\ session = "marked" /\ \A x \in Own : pc[x] \in {"idle", "over"}
    /\ settling.request \in Own => SettlementDone /\ session \in {"alive", "marked"}

\* Where the callers are, by the state of the process and of the Session.
Standing ==
  /\ process # "live" => \A r \in Requests : pc[r] \in {"idle", "over"}
  /\ session # "alive" => \A r \in Requests : pc[r] # "settling"
  /\ session \notin {"alive", "marked"} =>
       \A r \in Own : pc[r] \in {"idle", "over"} /\ claim[r] = None /\ r \notin usageMem.pending
  /\ session = "marked" => process = "live"

LedgersInv ==
  /\ MeteringTypes /\ SameUsage /\ SettlementOK /\ Standing
  /\ session \notin {"committed", "gone"} =>
       \A r \in Own : Entered(usage, goal, r) /\ Entered(usageMem, goal, r) /\ ClaimOfCaller(r)
  /\ session \in {"staged", "restoring"} =>
       \A r \in Own : Entered(manifest.usage, manifest.goal, r)
            /\ (pc[r] = "idle" => manifest.usage.count[r] = 0)

LEMMA LedgersInit == Ledgers!InitMetering => LedgersInv
<1> SUFFICES ASSUME Ledgers!InitMetering
             PROVE  LedgersInv
  OBVIOUS
<1>1. /\ Ledgers!Nothing \in UsageRecords /\ Ledgers!NewGoal \in GoalRecords /\ Ledgers!NewGoal # None
  BY LedgersAssumption DEF Ledgers!Nothing, Ledgers!NewGoal, UsageRecords, GoalRecords
<1>2. \A r \in Requests : Ledgers!Nothing.count[r] = 0 /\ Ledgers!NewGoal.count[r] = 0
  BY DEF Ledgers!Nothing, Ledgers!NewGoal
<1>3. /\ Ledgers!Nothing.receipts = {} /\ Ledgers!Nothing.pending = {} /\ Ledgers!Nothing.known = {}
      /\ Ledgers!NewGoal.receipts = {}
  BY DEF Ledgers!Nothing, Ledgers!NewGoal
<1>4. MeteringTypes
  BY <1>1 DEF Ledgers!InitMetering, MeteringTypes, Places
<1>5. \A r \in Own : Entered(usage, goal, r) /\ Entered(usageMem, goal, r) /\ ClaimOfCaller(r)
  BY <1>2, <1>3 DEF Ledgers!InitMetering, Entered, ClaimOfCaller, Sending, Own
<1> QED
  BY <1>4, <1>5 DEF Ledgers!InitMetering, LedgersInv, SameUsage, SettlementOK, Standing

\* A step of one caller, who writes its claim.
LEMMA CallerMoves ==
  ASSUME LedgersInv, NEW r \in Own, process = "live", pc[r] \in {"idle"} \cup Sending, pc[r] = "idle" => session = "alive",
         UNCHANGED <<usage, usageMem, goal, settling, process, session, manifest>>,
         NEW to \in {"over", "settling"} \cup Sending, pc' = [pc EXCEPT ![r] = to], to = "settling" => session = "alive",
         NEW t \in BOOLEAN, told' = [told EXCEPT ![r] = t],
         NEW c \in ClaimRecords \cup {None}, claim' = [claim EXCEPT ![r] = c],
         called \subseteq called', called' \subseteq called \cup {r}, reported \subseteq reported', reported' \subseteq reported \cup {r},
         to = "prepared" => c # None /\ c.phase = "prepared",
         to \in {"started", "calling", "streamed", "settling"} => c # None /\ c.phase = "started",
         c # None /\ c.phase = "prepared" => r \notin called',
         r \in called' => c # None,
         to \in {"prepared", "started"} => r \notin called' /\ r \notin reported',
         r \in reported' /\ to \in {"calling", "streamed"} => t,
         r \in reported' /\ c # None => c.known
  PROVE  LedgersInv'
<1>0. r \in Requests /\ MeteringTypes
  BY DEF Own, LedgersInv
<1>1. /\ session \in {"alive", "marked"} /\ (settling # None => settling.request # r /\ settling.by # "deletion")
  <2>1. session \in {"alive", "marked"}
    BY <1>0 DEF LedgersInv, MeteringTypes, Standing, Sending
  <2>2. settling # None => settling.by # "deletion"
    BY <1>0 DEF LedgersInv, SettlementOK, Sending
  <2>3. settling # None => settling.request # r
    <3> SUFFICES ASSUME settling # None, settling.request = r
                 PROVE  FALSE
      OBVIOUS
    <3>1. settling.by \in {"live", "boot", "owed"}
      BY <1>0, <2>2 DEF MeteringTypes, Settlements
    <3> QED
      BY <3>1 DEF LedgersInv, SettlementOK, Sending
  <2> QED
    BY <2>1, <2>2, <2>3
<1>2. /\ pc' \in [Requests -> Places] /\ pc'[r] = to /\ told'[r] = t /\ claim'[r] = c
      /\ \A x \in Requests : x # r => pc'[x] = pc[x] /\ told'[x] = told[x] /\ claim'[x] = claim[x]
  BY <1>0 DEF MeteringTypes, Places
<1>3. MeteringTypes'
  BY <1>0, <1>2 DEF MeteringTypes
<1>4. SettlementOK'
  <2>1. settling # None => settling.request \in Requests
    BY <1>0 DEF MeteringTypes, Settlements
  <2> QED
    BY <1>0, <1>1, <1>2, <2>1 DEF LedgersInv, SettlementOK, SettlementDone, Own
<1>5. Standing'
  BY <1>1, <1>2 DEF LedgersInv, Standing, Own
<1>6. \A x \in Own \ {r} : Entered(usage, goal, x)' /\ Entered(usageMem, goal, x)' /\ ClaimOfCaller(x)'
  BY <1>1, <1>2 DEF LedgersInv, Entered, ClaimOfCaller, Own
<1>7. usage.count[r] = 0 /\ usageMem.count[r] = 0 /\ Entered(usage, goal, r) /\ Entered(usageMem, goal, r)
  BY <1>1 DEF LedgersInv, ClaimOfCaller, SameUsage
<1>8. Entered(usage, goal, r)' /\ Entered(usageMem, goal, r)'
  BY <1>2, <1>7 DEF Entered
<1>9. ClaimOfCaller(r)'
  BY <1>1, <1>2, <1>7 DEF ClaimOfCaller, Sending
<1> QED
  BY <1>1, <1>3, <1>4, <1>5, <1>6, <1>8, <1>9 DEF LedgersInv, SameUsage

\* One outside the run: nothing of the others is touched.
LEMMA AsideMoves ==
  ASSUME LedgersInv, NEW r \in Requests, r \notin Own, process = "live", pc[r] # "settling",
         UNCHANGED <<usage, usageMem, goal, settling, process, session, manifest>>,
         NEW to \in Places, pc' = [pc EXCEPT ![r] = to], to = "settling" => session = "alive",
         NEW t \in BOOLEAN, told' = [told EXCEPT ![r] = t],
         NEW c \in ClaimRecords \cup {None}, claim' = [claim EXCEPT ![r] = c],
         called \subseteq called', called' \subseteq called \cup {r}, reported \subseteq reported', reported' \subseteq reported \cup {r}
  PROVE  LedgersInv'
<1>1. MeteringTypes
  BY DEF LedgersInv
<1>2. /\ pc' \in [Requests -> Places]
      /\ \A x \in Requests : x # r => pc'[x] = pc[x] /\ told'[x] = told[x] /\ claim'[x] = claim[x]
      /\ \A x \in Own : x \in Requests /\ x # r
  BY <1>1 DEF MeteringTypes, Own
<1>3. MeteringTypes'
  BY <1>1, <1>2 DEF MeteringTypes
<1>4. SettlementOK'
  <2>1. settling # None => settling.request \in Requests
    BY <1>1 DEF MeteringTypes, Settlements
  <2> QED
    BY <1>2, <2>1 DEF LedgersInv, SettlementOK, SettlementDone
<1>5. Standing'
  BY <1>1, <1>2 DEF LedgersInv, MeteringTypes, Standing
<1>6. session \notin {"committed", "gone"} => \A x \in Own : Entered(usage, goal, x)' /\ Entered(usageMem, goal, x)' /\ ClaimOfCaller(x)'
  BY <1>2 DEF LedgersInv, Entered, ClaimOfCaller
<1>7. session \in {"staged", "restoring"} =>
        \A x \in Own : Entered(manifest.usage, manifest.goal, x)' /\ (pc'[x] = "idle" => manifest.usage.count[x] = 0)
  BY <1>2 DEF LedgersInv, Entered
<1> QED
  BY <1>3, <1>4, <1>5, <1>6, <1>7 DEF LedgersInv, SameUsage

LEMMA CallersClaim ==
  ASSUME LedgersInv, NEW r \in Own,
         \/ Ledgers!Begin(r) \/ Ledgers!Discard(r) \/ Ledgers!MarkStarted(r) \/ Ledgers!Call(r) \/ Ledgers!Report(r) \/ Ledgers!Checkpoint(r)
  PROVE  LedgersInv'
<1>0. r \in Requests /\ r \notin Aside
  BY DEF Own
<1>1. /\ pc \in [Requests -> Places] /\ told \in [Requests -> BOOLEAN]
      /\ claim \in [Requests -> ClaimRecords \cup {None}]
  BY DEF LedgersInv, MeteringTypes
<1>2. /\ session \in {"alive", "marked", "staged", "restoring", "committed", "gone"}
      /\ told = [told EXCEPT ![r] = told[r]] /\ claim = [claim EXCEPT ![r] = claim[r]]
  BY <1>0, <1>1 DEF LedgersInv, MeteringTypes
<1>3. \A p \in {"prepared", "started"}, k \in BOOLEAN :
        Ledgers!Attempt(p, k) \in ClaimRecords /\ Ledgers!Attempt(p, k) # None
        /\ Ledgers!Attempt(p, k).phase = p /\ Ledgers!Attempt(p, k).known = k
  BY LedgersAssumption DEF Ledgers!Attempt, ClaimRecords
<1>4. ASSUME pc[r] \in Sending \/ session = "alive"
      PROVE  ClaimOfCaller(r)
  BY <1>0, <1>2, <1>4 DEF LedgersInv, Standing, Sending
<1>5. ASSUME Ledgers!Begin(r)
      PROVE  LedgersInv'
  <2>1. /\ process = "live" /\ pc[r] = "idle" /\ session = "alive"
        /\ UNCHANGED <<told, usage, usageMem, goal, settling, process, session, manifest, called, reported>>
    BY <1>0, <1>5 DEF Ledgers!Begin, Ledgers!Admitted, Ledgers!ledgers, Ledgers!deletion, Ledgers!ghosts
  <2>2. PICK c \in {claim[r], Ledgers!Attempt("prepared", FALSE)}, to \in {"prepared", "over"} :
          /\ pc' = [pc EXCEPT ![r] = to] /\ claim' = [claim EXCEPT ![r] = c]
          /\ to = "prepared" => c = Ledgers!Attempt("prepared", FALSE)
    BY <1>2, <1>5 DEF Ledgers!Begin, Ledgers!WriteClaim, Ledgers!At, Ledgers!Put
  <2>3. ClaimOfCaller(r) /\ claim[r] \in ClaimRecords \cup {None} /\ told[r] \in BOOLEAN
    BY <1>0, <1>1, <1>4, <2>1 DEF Sending
  <2>4. /\ c \in ClaimRecords \cup {None} /\ (c # None => c.phase = "prepared") /\ (to = "prepared" => c # None)
        /\ r \notin called /\ r \notin reported
    BY <1>3, <2>1, <2>2, <2>3 DEF ClaimOfCaller
  <2> QED
    BY <1>2, <2>1, <2>2, <2>3, <2>4, CallerMoves DEF Sending
<1>6. ASSUME Ledgers!Discard(r)
      PROVE  LedgersInv'
  <2>1. /\ process = "live" /\ pc[r] = "prepared"
        /\ UNCHANGED <<told, usage, usageMem, goal, settling, process, session, manifest, called, reported>>
    BY <1>6 DEF Ledgers!Discard, Ledgers!ledgers, Ledgers!deletion, Ledgers!ghosts
  <2>2. PICK c \in {claim[r], None}, to \in {"over"} : pc' = [pc EXCEPT ![r] = to] /\ claim' = [claim EXCEPT ![r] = c]
    BY <1>2, <1>6 DEF Ledgers!Discard, Ledgers!WriteClaim, Ledgers!At, Ledgers!Put
  <2>3. ClaimOfCaller(r) /\ claim[r] \in ClaimRecords \cup {None} /\ told[r] \in BOOLEAN
    BY <1>0, <1>1, <1>4, <2>1 DEF Sending
  <2>4. c \in ClaimRecords \cup {None} /\ r \notin called /\ r \notin reported
    BY <2>1, <2>2, <2>3 DEF ClaimOfCaller
  <2>5. PICK t \in BOOLEAN : t = told[r] /\ told' = [told EXCEPT ![r] = t]
    BY <1>2, <2>1, <2>3
  <2> QED
    BY <2>1, <2>2, <2>4, <2>5, CallerMoves DEF Sending
<1>7. ASSUME Ledgers!MarkStarted(r)
      PROVE  LedgersInv'
  <2>1. /\ process = "live" /\ pc[r] = "prepared"
        /\ UNCHANGED <<told, usage, usageMem, goal, settling, process, session, manifest, called, reported>>
    BY <1>7 DEF Ledgers!MarkStarted, Ledgers!ledgers, Ledgers!deletion, Ledgers!ghosts
  <2>2. PICK c \in {claim[r], Ledgers!Attempt("started", FALSE)}, to \in {"started", "over"} :
          /\ pc' = [pc EXCEPT ![r] = to] /\ claim' = [claim EXCEPT ![r] = c]
          /\ to = "started" => c = Ledgers!Attempt("started", FALSE)
    BY <1>2, <1>7 DEF Ledgers!MarkStarted, Ledgers!WriteClaim, Ledgers!At, Ledgers!Put
  <2>3. ClaimOfCaller(r) /\ claim[r] \in ClaimRecords \cup {None} /\ told[r] \in BOOLEAN
    BY <1>0, <1>1, <1>4, <2>1 DEF Sending
  <2>4. /\ c \in ClaimRecords /\ c # None /\ (to = "started" => c.phase = "started") /\ r \notin called /\ r \notin reported
    BY <1>3, <2>1, <2>2, <2>3 DEF ClaimOfCaller
  <2> QED
    BY <1>2, <2>1, <2>2, <2>3, <2>4, CallerMoves DEF Sending
<1>8. ASSUME Ledgers!Call(r)
      PROVE  LedgersInv'
  <2>1. /\ process = "live" /\ pc[r] = "started" /\ pc' = [pc EXCEPT ![r] = "calling"] /\ called' = called \cup {r}
        /\ UNCHANGED <<told, claim, usage, usageMem, goal, settling, process, session, manifest, reported>>
    BY <1>8 DEF Ledgers!Call, Ledgers!ledgers, Ledgers!deletion, Ledgers!At
  <2>2. ClaimOfCaller(r) /\ claim[r] \in ClaimRecords \cup {None} /\ told[r] \in BOOLEAN
    BY <1>0, <1>1, <1>4, <2>1 DEF Sending
  <2>3. claim[r] # None /\ claim[r].phase = "started" /\ r \notin reported
    BY <2>1, <2>2 DEF ClaimOfCaller
  <2>4. PICK c \in ClaimRecords \cup {None}, t \in BOOLEAN, to \in {"calling"} :
          /\ c = claim[r] /\ t = told[r] /\ pc' = [pc EXCEPT ![r] = to]
    BY <2>1, <2>2
  <2>5. told' = [told EXCEPT ![r] = t] /\ claim' = [claim EXCEPT ![r] = c] /\ c # None /\ c.phase = "started"
    BY <1>2, <2>1, <2>3, <2>4
  <2> QED
    BY <2>1, <2>3, <2>4, <2>5, CallerMoves DEF Sending
<1>9. ASSUME Ledgers!Report(r)
      PROVE  LedgersInv'
  <2>1. /\ process = "live" /\ pc[r] = "calling" /\ told' = [told EXCEPT ![r] = TRUE]
        /\ reported' = IF claim'[r] = claim[r] THEN reported ELSE reported \cup {r}
        /\ UNCHANGED <<usage, usageMem, goal, settling, process, session, manifest, called>>
    BY <1>9 DEF Ledgers!Report, Ledgers!ledgers, Ledgers!deletion
  <2>2. PICK c \in {claim[r], Ledgers!Attempt("started", TRUE)}, to \in {"calling", "streamed"} :
          pc' = [pc EXCEPT ![r] = to] /\ claim' = [claim EXCEPT ![r] = c]
    BY <1>2, <1>9 DEF Ledgers!Report, Ledgers!WriteClaim, Ledgers!At, Ledgers!Put
  <2>3. claim'[r] = c /\ (c # claim[r] => c = Ledgers!Attempt("started", TRUE))
    BY <1>0, <1>1, <2>2
  <2>4. ClaimOfCaller(r) /\ claim[r] \in ClaimRecords \cup {None} /\ told[r] \in BOOLEAN
    BY <1>0, <1>1, <1>4, <2>1 DEF Sending
  <2>5. /\ c \in ClaimRecords \cup {None} /\ c # None /\ c.phase = "started" /\ (r \in reported' => c.known)
    BY <1>3, <2>1, <2>2, <2>3, <2>4 DEF ClaimOfCaller
  <2> QED
    BY <1>2, <2>1, <2>2, <2>4, <2>5, CallerMoves DEF Sending
<1>10. ASSUME Ledgers!Checkpoint(r)
       PROVE  LedgersInv'
  <2>1. /\ process = "live" /\ pc[r] \in {"calling", "streamed"}
        /\ UNCHANGED <<told, usage, usageMem, goal, settling, process, session, manifest, called, reported>>
    BY <1>10 DEF Ledgers!Checkpoint, Ledgers!ledgers, Ledgers!deletion, Ledgers!ghosts
  <2>2. PICK c \in {claim[r], Ledgers!Attempt("started", told[r])}, to \in {"settling", "over"} :
          /\ pc' = [pc EXCEPT ![r] = to] /\ claim' = [claim EXCEPT ![r] = c]
          /\ to = "settling" => session = "alive" /\ c = Ledgers!Attempt("started", told[r])
    BY <1>2, <1>10 DEF Ledgers!Checkpoint, Ledgers!Admitted, Ledgers!WriteClaim, Ledgers!At, Ledgers!Put
  <2>3. told[r] \in BOOLEAN
    BY <1>0, <1>1
  <2>4. ClaimOfCaller(r) /\ claim[r] \in ClaimRecords \cup {None} /\ told[r] \in BOOLEAN
    BY <1>0, <1>1, <1>4, <2>1 DEF Sending
  <2>5. /\ c \in ClaimRecords \cup {None} /\ c # None /\ c.phase = "started" /\ (r \in reported => c.known)
    BY <1>3, <2>1, <2>2, <2>3, <2>4 DEF ClaimOfCaller
  <2> QED
    BY <1>2, <2>1, <2>2, <2>4, <2>5, CallerMoves DEF Sending
<1> QED
  BY <1>5, <1>6, <1>7, <1>8, <1>9, <1>10

LEMMA AsideClaims ==
  ASSUME LedgersInv, NEW r \in Requests, r \notin Own,
         \/ Ledgers!Begin(r) \/ Ledgers!Discard(r) \/ Ledgers!MarkStarted(r) \/ Ledgers!Call(r) \/ Ledgers!Report(r) \/ Ledgers!Checkpoint(r)
  PROVE  LedgersInv'
<1>1. /\ pc \in [Requests -> Places] /\ told \in [Requests -> BOOLEAN]
      /\ claim \in [Requests -> ClaimRecords \cup {None}]
  BY DEF LedgersInv, MeteringTypes
<1>2. /\ process = "live" /\ pc[r] # "settling" /\ UNCHANGED <<usage, usageMem, goal, settling, process, session, manifest>>
  BY DEF Ledgers!Begin, Ledgers!Discard, Ledgers!MarkStarted, Ledgers!Call, Ledgers!Report, Ledgers!Checkpoint,
         Ledgers!ledgers, Ledgers!deletion
<1>3. called' \in {called, called \cup {r}} /\ reported' \in {reported, reported \cup {r}}
  BY DEF Ledgers!Begin, Ledgers!Discard, Ledgers!MarkStarted, Ledgers!Call, Ledgers!Report, Ledgers!Checkpoint, Ledgers!ghosts
<1>4. PICK t \in BOOLEAN : told' = [told EXCEPT ![r] = t]
  <2>1. told = [told EXCEPT ![r] = told[r]] /\ told[r] \in BOOLEAN
    BY <1>1
  <2>2. told' = told \/ told' = [told EXCEPT ![r] = TRUE]
    BY DEF Ledgers!Begin, Ledgers!Discard, Ledgers!MarkStarted, Ledgers!Call, Ledgers!Report, Ledgers!Checkpoint
  <2> QED
    BY <2>1, <2>2
<1>5. PICK c \in ClaimRecords \cup {None}, to \in Places :
        /\ claim' = [claim EXCEPT ![r] = c] /\ pc' = [pc EXCEPT ![r] = to] /\ (to = "settling" => session = "alive")
  <2>1. claim = [claim EXCEPT ![r] = claim[r]] /\ claim[r] \in ClaimRecords \cup {None} /\ told[r] \in BOOLEAN
    BY <1>1
  <2>2. \A p \in {"prepared", "started"}, k \in BOOLEAN : Ledgers!Attempt(p, k) \in ClaimRecords
    BY DEF Ledgers!Attempt, ClaimRecords
  <2>3. ASSUME NEW v \in ClaimRecords \cup {None}, NEW then \in Places, NEW otherwise \in Places,
               Ledgers!WriteClaim(r, v, then, otherwise)
        PROVE  \E c \in ClaimRecords \cup {None}, to \in {then, otherwise} :
                 claim' = [claim EXCEPT ![r] = c] /\ pc' = [pc EXCEPT ![r] = to]
    BY <2>1, <2>3 DEF Ledgers!WriteClaim, Ledgers!At, Ledgers!Put
  <2>4. CASE Ledgers!Begin(r)
    <3>1. PICK c \in {claim[r], Ledgers!Attempt("prepared", FALSE)}, to \in {"prepared", "over"} :
            claim' = [claim EXCEPT ![r] = c] /\ pc' = [pc EXCEPT ![r] = to]
      BY <2>1, <2>4 DEF Ledgers!Begin, Ledgers!WriteClaim, Ledgers!At, Ledgers!Put
    <3> QED
      BY <2>1, <2>2, <3>1 DEF Places, Sending
  <2>5. CASE Ledgers!Discard(r)
    BY <2>3, <2>5 DEF Ledgers!Discard, Places, Sending
  <2>6. CASE Ledgers!MarkStarted(r)
    <3>1. PICK c \in {claim[r], Ledgers!Attempt("started", FALSE)}, to \in {"started", "over"} :
            claim' = [claim EXCEPT ![r] = c] /\ pc' = [pc EXCEPT ![r] = to]
      BY <2>1, <2>6 DEF Ledgers!MarkStarted, Ledgers!WriteClaim, Ledgers!At, Ledgers!Put
    <3> QED
      BY <2>1, <2>2, <3>1 DEF Places, Sending
  <2>7. CASE Ledgers!Call(r)
    BY <2>1, <2>7 DEF Ledgers!Call, Ledgers!At, Places, Sending
  <2>8. CASE Ledgers!Report(r)
    <3>1. PICK c \in {claim[r], Ledgers!Attempt("started", TRUE)}, to \in {"calling", "streamed"} :
            claim' = [claim EXCEPT ![r] = c] /\ pc' = [pc EXCEPT ![r] = to]
      BY <2>1, <2>8 DEF Ledgers!Report, Ledgers!WriteClaim, Ledgers!At, Ledgers!Put
    <3> QED
      BY <2>1, <2>2, <3>1 DEF Places, Sending
  <2>9. CASE Ledgers!Checkpoint(r)
    <3>1. CASE Ledgers!Admitted
      <4>1. Ledgers!WriteClaim(r, Ledgers!Attempt("started", told[r]), "settling", "over")
        BY <2>9, <3>1 DEF Ledgers!Checkpoint
      <4> QED
        BY <2>1, <2>2, <2>3, <3>1, <4>1 DEF Ledgers!Admitted, Places, Sending
    <3>2. CASE ~ Ledgers!Admitted
      BY <2>1, <2>9, <3>2 DEF Ledgers!Checkpoint, Ledgers!At, Places, Sending
    <3> QED
      BY <3>1, <3>2
  <2> QED
    BY <2>4, <2>5, <2>6, <2>7, <2>8, <2>9
<1> QED
  BY <1>2, <1>3, <1>4, <1>5, AsideMoves

LEMMA MapIsLocked ==
  ASSUME LedgersInv, NEW r \in Requests, Ledgers!LockMap(r)
  PROVE  LedgersInv'
<1>1. /\ process = "live" /\ pc[r] = "settling" /\ settling = None
      /\ settling' = [request |-> r, stage |-> "count", by |-> "live"]
      /\ UNCHANGED <<pc, told, claim, usage, usageMem, goal, process, session, manifest, called, reported>>
  BY DEF Ledgers!LockMap, Ledgers!Settle, Ledgers!requestVars, Ledgers!ledgers, Ledgers!deletion, Ledgers!ghosts
<1>2. settling' \in Settlements /\ settling'.request = r /\ settling'.stage = "count" /\ settling'.by = "live"
  BY <1>1 DEF Settlements, Stages
<1>3. session = "alive"
  BY <1>1 DEF LedgersInv, Standing, MeteringTypes
<1>4. MeteringTypes'
  BY <1>1, <1>2 DEF LedgersInv, MeteringTypes
<1>5. \A x \in Own : Entered(usage, goal, x)' /\ Entered(usageMem, goal, x)' /\ ClaimOfCaller(x)'
  BY <1>1, <1>3 DEF LedgersInv, Entered, ClaimOfCaller
<1>6. SettlementOK'
  BY <1>1, <1>2, <1>3 DEF LedgersInv, ClaimOfCaller, SettlementOK, SettlementDone
<1>7. Standing'
  BY <1>1, <1>3 DEF LedgersInv, Standing
<1> QED
  BY <1>1, <1>3, <1>4, <1>5, <1>6, <1>7 DEF LedgersInv, SameUsage

\* What a settlement that is under way says of its request.
LEMMA SettlementIs ==
  ASSUME LedgersInv, settling # None
  PROVE  /\ settling \in Settlements /\ settling.request \in Requests /\ settling.by \in {"live", "boot", "owed", "deletion"}
         /\ pc[settling.request] \in Places /\ (settling.by = "live" => pc[settling.request] = "settling")
BY DEF LedgersInv, MeteringTypes, Settlements, SettlementOK

LEMMA SettlementOf ==
  ASSUME LedgersInv, settling # None, settling.request \in Own
  PROVE  /\ session \in {"alive", "marked"} /\ goal \in GoalRecords /\ SettlementDone
         /\ pc[settling.request] \in {"idle", "settling", "over"}
         /\ settling.by # "live" => pc[settling.request] \in {"idle", "over"}
         /\ \A x \in Own : Entered(usage, goal, x) /\ Entered(usageMem, goal, x) /\ ClaimOfCaller(x)
         /\ settling.by = "live" => pc[settling.request] = "settling"
<1>1. settling.request \in Requests /\ settling.by \in {"live", "boot", "owed", "deletion"}
  BY SettlementIs
<1>2. session \in {"alive", "marked"} /\ SettlementDone
  BY DEF LedgersInv, SettlementOK
<1>3. settling.by # "live" => pc[settling.request] \in {"idle", "over"}
  BY <1>1 DEF LedgersInv, SettlementOK, Standing
<1>4. settling.by = "live" => pc[settling.request] = "settling"
  BY DEF LedgersInv, SettlementOK
<1> QED
  BY <1>1, <1>2, <1>3, <1>4 DEF LedgersInv, MeteringTypes

\* A settlement leaves the lock, having failed or not.
Leaves ==
  /\ settling' = None
  /\ pc' = IF settling.by = "live" THEN [pc EXCEPT ![settling.request] = "over"] ELSE pc
  /\ session' = session \/ (session' = "alive" /\ settling.by = "deletion")
  /\ process' = process \/ (process' = "failed" /\ settling.by \in {"boot", "owed"})

\* It writes what it says of its request, and either goes on or leaves.
LEMMA SettlementWrites ==
  ASSUME LedgersInv, settling # None, NEW r \in Own, r = settling.request,
         UNCHANGED <<told, manifest, called, reported>>,
         NEW c \in {claim[r], None}, claim' = [claim EXCEPT ![r] = c],
         usage' \in UsageRecords, usageMem' \in UsageRecords, goal' \in GoalRecords, SameUsage',
         \A x \in Own \ {r} :
           /\ usageMem'.count[x] = usageMem.count[x]
           /\ Entered(usage, goal, x)' /\ Entered(usageMem, goal, x)',
         Entered(usage, goal, r)', Entered(usageMem, goal, r)',
         usageMem'.count[r] = usageMem.count[r] \/ (claim[r] # None /\ claim[r].phase = "started"),
         \/ Leaves
         \/ /\ UNCHANGED <<pc, session, process>>
            /\ \E where \in {"charge", "acknowledge", "finish", "forget", "end"} :
                 /\ settling' = [settling EXCEPT !.stage = where]
                 /\ where \in {"charge", "acknowledge", "finish"} =>
                      c # None /\ c.phase = "started" /\ usageMem'.count[r] = 1
                 /\ where = "acknowledge" => r \in usageMem'.pending /\ goal'.count[r] = 1
                 /\ where = "finish" => r \notin usageMem'.pending
                 /\ where = "forget" => c = None
  PROVE  LedgersInv'
<1>1. /\ settling \in Settlements /\ session \in {"alive", "marked"} /\ pc[r] \in {"idle", "settling", "over"}
      /\ settling.by = "live" => pc[r] = "settling"
      /\ settling.by # "live" => pc[r] \in {"idle", "over"}
      /\ \A x \in Own : ClaimOfCaller(x)
      /\ r \in Requests /\ SettlementDone /\ goal' # None
  BY SettlementOf, SettlementIs, LedgersAssumption DEF Own, GoalRecords
<1>2. MeteringTypes
  BY DEF LedgersInv
<1>3. claim' \in [Requests -> ClaimRecords \cup {None}] /\ claim'[r] = c /\ \A x \in Requests : x # r => claim'[x] = claim[x]
  BY <1>1, <1>2 DEF MeteringTypes
<1>4. CASE Leaves
  <2>1. /\ settling' = None /\ session' \in {"alive", "marked"} /\ process' \in {"boot", "live", "failed"}
        /\ session' # "alive" => session' = session /\ session = "marked"
        /\ process' # "live" => process # "live"
        /\ process = "live" => process' = "live"
    BY <1>1, <1>4 DEF Leaves, LedgersInv, MeteringTypes, SettlementOK
  <2>2. /\ pc' \in [Requests -> Places] /\ \A x \in Requests : x # r => pc'[x] = pc[x]
        /\ pc'[r] \in {"idle", "over"} /\ (pc'[r] = "idle" => pc[r] = "idle")
    BY <1>1, <1>2, <1>4 DEF Leaves, MeteringTypes, Places
  <2>3. MeteringTypes'
    BY <1>1, <1>2, <1>3, <2>1, <2>2 DEF MeteringTypes
  <2>4. Standing'
    BY <1>1, <2>1, <2>2 DEF LedgersInv, Standing
  <2>5. ClaimOfCaller(r)'
    BY <1>1, <1>3, <2>1, <2>2 DEF ClaimOfCaller, Sending
  <2>6. \A x \in Own \ {r} : ClaimOfCaller(x)'
    BY <1>1, <1>3, <2>1, <2>2 DEF ClaimOfCaller, Own
  <2>7. SettlementOK'
    BY <2>1 DEF SettlementOK
  <2> QED
    BY <2>1, <2>3, <2>4, <2>5, <2>6, <2>7 DEF LedgersInv
<1>5. CASE ~ Leaves
  <2>1. PICK where \in {"charge", "acknowledge", "finish", "forget", "end"} :
                 /\ settling' = [settling EXCEPT !.stage = where]
                 /\ where \in {"charge", "acknowledge", "finish"} =>
                      c # None /\ c.phase = "started" /\ usageMem'.count[r] = 1
                 /\ where = "acknowledge" => r \in usageMem'.pending /\ goal'.count[r] = 1
                 /\ where = "finish" => r \notin usageMem'.pending
                 /\ where = "forget" => c = None
    BY <1>5
  <2>2. UNCHANGED <<pc, session, process>>
    BY <1>5
  <2>3. /\ settling' \in Settlements /\ settling' # None /\ settling'.request = r /\ settling'.stage = where
        /\ settling'.by = settling.by
    BY <1>1, <2>1, LedgersAssumption DEF Settlements, Stages
  <2>4. MeteringTypes'
    BY <1>1, <1>2, <1>3, <2>2, <2>3 DEF MeteringTypes
  <2>5. Standing'
    BY <1>1, <2>2 DEF LedgersInv, Standing
  <2>6. ClaimOfCaller(r)'
    BY <1>1, <1>3, <2>2, <2>3 DEF ClaimOfCaller, Sending
  <2>7. \A x \in Own \ {r} : ClaimOfCaller(x)'
    BY <1>1, <1>3, <2>2, <2>3 DEF ClaimOfCaller, Own
  <2>8. SettlementOK'
    BY <1>1, <1>3, <2>1, <2>2, <2>3 DEF LedgersInv, SettlementOK, SettlementDone
  <2> QED
    BY <1>1, <2>2, <2>4, <2>5, <2>6, <2>7, <2>8 DEF LedgersInv
<1> QED
  BY <1>4, <1>5

\* The entries of the others are what they were.
SameUsageBut(u, v, r) ==
  v \in UsageRecords /\ \A x \in Requests : x # r =>
    /\ v.count[x] = u.count[x] /\ (x \in v.known <=> x \in u.known)
    /\ (x \in v.receipts <=> x \in u.receipts) /\ (x \in v.pending <=> x \in u.pending)

SameGoalBut(g, h, r) ==
  /\ h \in GoalRecords \cup {None} /\ (g # None => h # None)
  /\ g # None => \A x \in Requests : x # r => h.count[x] = g.count[x] /\ (x \in h.receipts <=> x \in g.receipts)

\* A step of the settlement of a request outside the run, in any state of the
\* Session.
LEMMA SettlementAside ==
  ASSUME LedgersInv, settling # None, NEW r \in Requests, r = settling.request, r \notin Own,
         UNCHANGED <<told, manifest, called, reported>>,
         NEW c \in {claim[r], None}, claim' = [claim EXCEPT ![r] = c],
         NEW u \in {usage, usageMem}, SameUsageBut(u, usage', r), SameUsageBut(usageMem, usageMem', r), SameGoalBut(goal, goal', r), SameUsage',
         \/ Leaves
         \/ /\ UNCHANGED <<pc, session, process>>
            /\ \E where \in Stages : settling' = [settling EXCEPT !.stage = where]
  PROVE  LedgersInv'
<1>1. MeteringTypes /\ settling \in Settlements /\ settling.by \in {"live", "boot", "owed", "deletion"}
  BY SettlementIs DEF LedgersInv
<1>2. /\ claim' \in [Requests -> ClaimRecords \cup {None}]
      /\ \A x \in Own : x \in Requests /\ x # r /\ claim'[x] = claim[x]
  BY <1>1 DEF MeteringTypes, Own
<1>3. /\ pc' \in [Requests -> Places] /\ \A x \in Requests : x # r => pc'[x] = pc[x]
      /\ settling' # None => pc'[r] = pc[r]
      /\ pc[r] = "settling" \/ pc[r] = "over" => pc'[r] \in {pc[r], "over"}
      /\ pc'[r] \in {pc[r], "over"}
  BY <1>1 DEF MeteringTypes, Leaves, Places
<1>4. /\ session' \in {"alive", "marked", "staged", "restoring", "committed", "gone"}
      /\ session' = session \/ (session' = "alive" /\ session = "marked")
      /\ process' \in {"boot", "live", "failed"} /\ (process' # "live" => process # "live")
      /\ (process = "live" => process' = "live")
  BY <1>1 DEF LedgersInv, MeteringTypes, SettlementOK, Leaves
<1>5. /\ settling' \in Settlements \cup {None}
      /\ settling' # None => settling'.request = r /\ settling'.by = settling.by /\ UNCHANGED <<pc, session, process>>
  <2>1. ASSUME NEW where \in Stages, settling' = [settling EXCEPT !.stage = where]
        PROVE  settling' \in Settlements /\ settling'.request = r /\ settling'.by = settling.by
    BY <1>1, <2>1 DEF Settlements
  <2> QED
    BY <2>1 DEF Leaves
<1>6. MeteringTypes'
  BY <1>1, <1>2, <1>3, <1>4, <1>5 DEF MeteringTypes, SameUsageBut, SameGoalBut
<1>7. SettlementOK'
  BY <1>5 DEF LedgersInv, SettlementOK
<1>8. Standing'
  <2>1. process' # "live" => \A x \in Requests : pc'[x] \in {"idle", "over"}
    BY <1>3, <1>4 DEF LedgersInv, Standing
  <2>2. session' # "alive" => \A x \in Requests : pc'[x] # "settling"
    BY <1>3, <1>4 DEF LedgersInv, Standing
  <2>3. session' \notin {"alive", "marked"} =>
          \A x \in Own : pc'[x] \in {"idle", "over"} /\ claim'[x] = None /\ x \notin usageMem'.pending
    BY <1>2, <1>3, <1>4 DEF LedgersInv, Standing, SameUsageBut
  <2> QED
    BY <1>4, <2>1, <2>2, <2>3 DEF LedgersInv, Standing
<1>9. ASSUME session' \notin {"committed", "gone"}, NEW x \in Own
      PROVE  Entered(usage, goal, x)' /\ Entered(usageMem, goal, x)' /\ ClaimOfCaller(x)'
  <2>1. /\ Entered(usage, goal, x) /\ Entered(usageMem, goal, x) /\ ClaimOfCaller(x) /\ goal # None
        /\ x \in Requests /\ x # r /\ claim'[x] = claim[x] /\ pc'[x] = pc[x]
    BY <1>1, <1>2, <1>3, <1>4, <1>9 DEF LedgersInv, MeteringTypes
  <2>2. Entered(usage, goal, x)' /\ Entered(usageMem, goal, x)'
    BY <2>1 DEF Entered, SameUsageBut, SameGoalBut
  <2>3. ClaimOfCaller(x)'
    BY <1>5, <2>1 DEF ClaimOfCaller, SameUsageBut
  <2> QED
    BY <2>2, <2>3
<1>10. session' \in {"staged", "restoring"} =>
         \A x \in Own : Entered(manifest.usage, manifest.goal, x)' /\ (pc'[x] = "idle" => manifest'.usage.count[x] = 0)
  BY <1>2, <1>3, <1>4 DEF LedgersInv, Entered
<1> QED
  BY <1>6, <1>7, <1>8, <1>9, <1>10 DEF LedgersInv

LEMMA UsageWritten ==
  ASSUME NEW new, NEW where, Ledgers!WriteUsage(new, where)
  PROVE  \/ UNCHANGED <<usage, usageMem>> /\ Leaves
         \/ usage' = new /\ usageMem' = new /\ (Leaves \/ Ledgers!Goto(where))
<1>1. Ledgers!GiveUp => Leaves
  BY DEF Ledgers!GiveUp, Leaves
<1> QED
  BY <1>1 DEF Ledgers!WriteUsage

LEMMA SessionCounts ==
  ASSUME LedgersInv, Ledgers!CountInSession, settling.request \in Own
  PROVE  LedgersInv'
<1>1. PICK r \in Own : r = settling.request
  OBVIOUS
<1>2. /\ settling # None /\ settling.stage = "count" /\ claim' = [claim EXCEPT ![r] = claim[r]]
      /\ UNCHANGED <<told, claim, goal, manifest, called, reported>>
  BY DEF Ledgers!CountInSession, Ledgers!ghosts, LedgersInv, MeteringTypes
<1>3. /\ goal \in GoalRecords /\ usage \in UsageRecords /\ usageMem \in UsageRecords /\ SameUsage
      /\ \A x \in Own : Entered(usage, goal, x) /\ Entered(usageMem, goal, x) /\ ClaimOfCaller(x)
      /\ claim[r] # None /\ claim[r].phase = "started"
  BY <1>1, <1>2, SettlementOf DEF LedgersInv, MeteringTypes, SettlementDone
<1>4. CASE r \in usageMem.receipts
  <2>1. Ledgers!Goto("charge") /\ UNCHANGED <<usage, usageMem>>
    BY <1>1, <1>4 DEF Ledgers!CountInSession
  <2>2. usageMem.count[r] = 1
    BY <1>3, <1>4 DEF Entered, UsageRecords
  <2>3. SameUsage' /\ \A x \in Own : Entered(usage, goal, x)' /\ Entered(usageMem, goal, x)'
    BY <1>2, <1>3, <2>1 DEF SameUsage, Entered
  <2> QED
    BY <1>1, <1>2, <1>3, <2>1, <2>2, <2>3, SettlementWrites DEF Ledgers!Goto
<1>5. CASE r \notin usageMem.receipts
  <2>1. PICK v : v = Ledgers!Counted(usageMem, r)
    OBVIOUS
  <2>2. \/ UNCHANGED <<usage, usageMem>> /\ Leaves
        \/ usage' = v /\ usageMem' = v /\ (Leaves \/ Ledgers!Goto("charge"))
    BY <1>1, <1>5, <2>1, UsageWritten DEF Ledgers!CountInSession
  <2>3. usageMem.count[r] = 0 /\ usageMem.count[r] + 1 = 1
    BY <1>3, <1>5 DEF Entered, UsageRecords
  <2>4. v = [count |-> [usageMem.count EXCEPT ![r] = 1],
             known |-> IF claim[r].known THEN usageMem.known \cup {r} ELSE usageMem.known,
             receipts |-> usageMem.receipts \cup {r},
             pending |-> IF r \in Bound THEN usageMem.pending \cup {r} ELSE usageMem.pending]
    BY <2>1, <2>3 DEF Ledgers!Counted
  <2>5. /\ v \in UsageRecords /\ v.count[r] = 1 /\ v.receipts = usageMem.receipts \cup {r}
        /\ \A x \in Own : x # r => v.count[x] = usageMem.count[x] /\ (x \in v.pending <=> x \in usageMem.pending)
                                        /\ (x \in v.known <=> x \in usageMem.known)
        /\ (r \in v.pending <=> r \in Bound) /\ (claim[r].known => r \in v.known)
    <3>1. [usageMem.count EXCEPT ![r] = 1] \in [Requests -> Nat] /\ r \in Requests
      BY <1>3 DEF UsageRecords, Own
    <3>2. v \in UsageRecords
      BY <1>3, <2>4, <3>1 DEF UsageRecords, Own
    <3>3. r \in usageMem.pending => r \in Bound
      BY <1>3 DEF Entered
    <3> QED
      BY <1>3, <2>4, <3>1, <3>2, <3>3 DEF UsageRecords, Own
  <2>6. CASE UNCHANGED <<usage, usageMem>> /\ Leaves
    <3>1. SameUsage' /\ \A x \in Own : Entered(usage, goal, x)' /\ Entered(usageMem, goal, x)'
      BY <1>2, <1>3, <2>6 DEF SameUsage, Entered
    <3> QED
      BY <1>1, <1>2, <1>3, <2>6, <3>1, SettlementWrites
  <2>7. CASE usage' = v /\ usageMem' = v /\ (Leaves \/ Ledgers!Goto("charge"))
    <3>1. \A x \in Own \ {r} : Entered(usage, goal, x)' /\ Entered(usageMem, goal, x)'
      BY <1>2, <1>3, <2>5, <2>7 DEF Entered
    <3>2. Entered(usage, goal, r)' /\ Entered(usageMem, goal, r)'
      BY <1>2, <1>3, <2>3, <2>5, <2>7 DEF Entered, ClaimOfCaller
    <3>3. SameUsage' /\ usageMem'.count[r] = 1
      BY <2>5, <2>7 DEF SameUsage
    <3>4. Leaves \/ Ledgers!Goto("charge")
      BY <2>7
    <3> QED
      BY <1>1, <1>2, <1>3, <2>5, <2>7, <3>1, <3>2, <3>3, <3>4, SettlementWrites DEF Ledgers!Goto
  <2> QED
    BY <2>2, <2>6, <2>7
<1> QED
  BY <1>4, <1>5

LEMMA GoalCharged ==
  ASSUME LedgersInv, Ledgers!ChargeGoal, settling.request \in Own
  PROVE  LedgersInv'
<1>1. PICK r \in Own : r = settling.request
  OBVIOUS
<1>2. /\ settling # None /\ settling.stage = "charge" /\ claim' = [claim EXCEPT ![r] = claim[r]]
      /\ UNCHANGED <<told, claim, usage, usageMem, manifest, called, reported>>
  BY DEF Ledgers!ChargeGoal, Ledgers!ghosts, LedgersInv, MeteringTypes
<1>3. /\ goal \in GoalRecords /\ usage \in UsageRecords /\ usageMem \in UsageRecords /\ SameUsage /\ SameUsage'
      /\ \A x \in Own : Entered(usage, goal, x) /\ Entered(usageMem, goal, x)
      /\ claim[r] # None /\ claim[r].phase = "started" /\ usageMem.count[r] = 1
  BY <1>1, <1>2, SettlementOf DEF LedgersInv, MeteringTypes, SettlementDone, SameUsage
<1>4. CASE r \notin usageMem.pending
  <2>1. Ledgers!Goto("finish") /\ UNCHANGED goal
    BY <1>1, <1>4 DEF Ledgers!ChargeGoal
  <2>2. \A x \in Own : Entered(usage, goal, x)' /\ Entered(usageMem, goal, x)'
    BY <1>2, <1>3, <2>1 DEF Entered
  <2> QED
    BY <1>1, <1>2, <1>3, <1>4, <2>1, <2>2, SettlementWrites DEF Ledgers!Goto
<1>5. CASE r \in usageMem.pending
  <2>1. PICK g : g = Ledgers!Charged(r)
    OBVIOUS
  <2>2. goal # None
    BY <1>3, LedgersAssumption DEF GoalRecords
  <2>3. \/ goal' = goal /\ Leaves
        \/ goal' = g /\ (Leaves \/ Ledgers!Goto("acknowledge"))
    <3>1. Ledgers!GiveUp => Leaves
      BY DEF Ledgers!GiveUp, Leaves
    <3> QED
      BY <1>1, <1>5, <2>1, <2>2, <3>1 DEF Ledgers!ChargeGoal
  <2>4. /\ g \in GoalRecords /\ g.count[r] = 1 /\ g.receipts = goal.receipts \cup {r}
        /\ \A x \in Own : x # r => g.count[x] = goal.count[x]
    <3>1. CASE r \in goal.receipts
      BY <1>3, <2>1, <3>1 DEF Ledgers!Charged, Entered, GoalRecords
    <3>2. CASE r \notin goal.receipts
      <4>1. goal.count[r] = 0 /\ goal.count[r] + 1 = 1
        BY <1>3, <1>5, <3>2 DEF Entered, GoalRecords
      <4>2. g = [count |-> [goal.count EXCEPT ![r] = 1], receipts |-> goal.receipts \cup {r}]
        BY <2>1, <3>2, <4>1 DEF Ledgers!Charged
      <4> QED
        BY <1>3, <4>2 DEF GoalRecords, Own
    <3> QED
      BY <3>1, <3>2
  <2>5. CASE goal' = goal /\ Leaves
    <3>1. \A x \in Own : Entered(usage, goal, x)' /\ Entered(usageMem, goal, x)'
      BY <1>2, <1>3, <2>5 DEF Entered
    <3> QED
      BY <1>1, <1>2, <1>3, <2>5, <3>1, SettlementWrites
  <2>6. CASE goal' = g /\ (Leaves \/ Ledgers!Goto("acknowledge"))
    <3>1. \A x \in Own \ {r} : Entered(usage, goal, x)' /\ Entered(usageMem, goal, x)'
      BY <1>2, <1>3, <2>4, <2>6 DEF Entered
    <3>2. usage.count[r] = 1 /\ usage.pending = usageMem.pending
      BY <1>3 DEF SameUsage
    <3>3. Entered(usage, goal, r)' /\ Entered(usageMem, goal, r)'
      BY <1>2, <1>3, <1>5, <2>4, <2>6, <3>2 DEF Entered
    <3>4. Leaves \/ Ledgers!Goto("acknowledge")
      BY <2>6
    <3> QED
      BY <1>1, <1>2, <1>3, <1>5, <2>4, <2>6, <3>1, <3>3, <3>4, SettlementWrites DEF Ledgers!Goto
  <2> QED
    BY <2>3, <2>5, <2>6
<1> QED
  BY <1>4, <1>5

LEMMA ChargeAcknowledged ==
  ASSUME LedgersInv, Ledgers!Acknowledge, settling.request \in Own
  PROVE  LedgersInv'
<1>1. PICK r \in Own : r = settling.request
  OBVIOUS
<1>2. /\ settling # None /\ settling.stage = "acknowledge" /\ claim' = [claim EXCEPT ![r] = claim[r]]
      /\ UNCHANGED <<told, claim, goal, manifest, called, reported>>
  BY DEF Ledgers!Acknowledge, Ledgers!ghosts, LedgersInv, MeteringTypes
<1>3. /\ goal \in GoalRecords /\ usage \in UsageRecords /\ usageMem \in UsageRecords /\ SameUsage
      /\ \A x \in Own : Entered(usage, goal, x) /\ Entered(usageMem, goal, x)
      /\ claim[r] # None /\ claim[r].phase = "started" /\ usageMem.count[r] = 1 /\ goal.count[r] = 1
  BY <1>1, <1>2, SettlementOf DEF LedgersInv, MeteringTypes, SettlementDone
<1>0. PICK where \in {"end", "finish"} : where = IF settling.by = "owed" THEN "end" ELSE "finish"
  OBVIOUS
<1>4. PICK v : v = [usageMem EXCEPT !.pending = usageMem.pending \ {r}]
  OBVIOUS
<1>5. /\ v \in UsageRecords /\ v.count = usageMem.count /\ v.known = usageMem.known /\ v.receipts = usageMem.receipts
      /\ v.pending = usageMem.pending \ {r}
  BY <1>3, <1>4 DEF UsageRecords
<1>6. \/ UNCHANGED <<usage, usageMem>> /\ Leaves
      \/ usage' = v /\ usageMem' = v /\ (Leaves \/ Ledgers!Goto(where))
  BY <1>0, <1>1, <1>4, UsageWritten DEF Ledgers!Acknowledge
<1>7. CASE UNCHANGED <<usage, usageMem>> /\ Leaves
  <2>1. SameUsage' /\ \A x \in Own : Entered(usage, goal, x)' /\ Entered(usageMem, goal, x)'
    BY <1>2, <1>3, <1>7 DEF SameUsage, Entered
  <2> QED
    BY <1>1, <1>2, <1>3, <1>7, <2>1, SettlementWrites
<1>8. CASE usage' = v /\ usageMem' = v /\ (Leaves \/ Ledgers!Goto(where))
  <2>1. \A x \in Own : Entered(usage, goal, x)' /\ Entered(usageMem, goal, x)'
    BY <1>2, <1>3, <1>5, <1>8 DEF Entered
  <2>2. SameUsage' /\ usageMem'.count[r] = 1 /\ r \notin usageMem'.pending
    BY <1>3, <1>5, <1>8 DEF SameUsage
  <2>3. Leaves \/ Ledgers!Goto(where)
    BY <1>8
  <2> QED
    BY <1>1, <1>2, <1>3, <1>4, <1>5, <1>8, <2>1, <2>2, <2>3, SettlementWrites DEF Ledgers!Goto
<1> QED
  BY <1>6, <1>7, <1>8

LEMMA ClaimRemoved ==
  ASSUME LedgersInv, Ledgers!RemoveClaim, settling.request \in Own
  PROVE  LedgersInv'
<1>1. PICK r \in Own : r = settling.request
  OBVIOUS
<1>2. /\ settling # None /\ settling.stage = "finish" /\ SameUsage'
      /\ UNCHANGED <<told, usage, usageMem, goal, manifest, called, reported>>
  BY DEF Ledgers!RemoveClaim, Ledgers!ghosts, LedgersInv, SameUsage
<1>3. /\ goal \in GoalRecords /\ usage \in UsageRecords /\ usageMem \in UsageRecords /\ SameUsage
      /\ \A x \in Own : Entered(usage, goal, x) /\ Entered(usageMem, goal, x)
      /\ usageMem.count[r] = 1 /\ r \notin usageMem.pending /\ claim \in [Requests -> ClaimRecords \cup {None}]
  BY <1>1, <1>2, SettlementOf DEF LedgersInv, MeteringTypes, SettlementDone
<1>4. PICK c \in {claim[r], None} : /\ claim' = [claim EXCEPT ![r] = c]
                                    /\ Leaves \/ (Ledgers!Goto("forget") /\ c = None)
  <2>1. Ledgers!GiveUp => Leaves
    BY DEF Ledgers!GiveUp, Leaves
  <2>2. claim = [claim EXCEPT ![r] = claim[r]]
    BY <1>3
  <2> QED
    BY <1>1, <2>1, <2>2 DEF Ledgers!RemoveClaim, Ledgers!Put
<1>5. claim'[r] = c /\ \A x \in Own : x # r => claim'[x] = claim[x]
  BY <1>3, <1>4 DEF Own
<1>6. usage.count[r] = 1 /\ r \notin usage.pending
  BY <1>3 DEF SameUsage
<1>7. \A x \in Own \ {r} : Entered(usage, goal, x)' /\ Entered(usageMem, goal, x)'
  BY <1>2, <1>3, <1>5 DEF Entered
<1>8. Entered(usage, goal, r)' /\ Entered(usageMem, goal, r)'
  BY <1>2, <1>3, <1>5, <1>6 DEF Entered
<1> QED
  BY <1>1, <1>2, <1>3, <1>4, <1>7, <1>8, SettlementWrites DEF Ledgers!Goto

LEMMA ReceiptsForgotten ==
  ASSUME LedgersInv, Ledgers!Forget, settling.request \in Own
  PROVE  LedgersInv'
<1>1. PICK r \in Own : r = settling.request
  OBVIOUS
<1>2. /\ settling # None /\ settling.stage = "forget" /\ claim' = [claim EXCEPT ![r] = claim[r]] /\ Ledgers!Goto("end")
      /\ UNCHANGED <<told, claim, manifest, called, reported>>
  BY DEF Ledgers!Forget, Ledgers!ghosts, LedgersInv, MeteringTypes
<1>3. /\ goal \in GoalRecords /\ usage \in UsageRecords /\ usageMem \in UsageRecords /\ SameUsage
      /\ \A x \in Own : Entered(usage, goal, x) /\ Entered(usageMem, goal, x)
      /\ claim[r] = None
  BY <1>1, <1>2, SettlementOf DEF LedgersInv, MeteringTypes, SettlementDone
<1>4. PICK g, v : g = [goal EXCEPT !.receipts = goal.receipts \ {r}] /\ v = [usageMem EXCEPT !.receipts = usageMem.receipts \ {r}]
  OBVIOUS
<1>5. goal' \in {goal, g} /\ usageMem' \in {usageMem, v} /\ usage' \in {usage, usageMem'}
  BY <1>1, <1>4 DEF Ledgers!Forget
<1>6. /\ g \in GoalRecords /\ g.count = goal.count /\ g.receipts = goal.receipts \ {r}
      /\ v \in UsageRecords /\ v.count = usageMem.count /\ v.known = usageMem.known /\ v.pending = usageMem.pending
      /\ v.receipts = usageMem.receipts \ {r}
  BY <1>3, <1>4 DEF GoalRecords, UsageRecords
<1>7. r \notin usage.pending /\ r \notin usageMem.pending
  BY <1>3 DEF Entered
<1>8. \A u \in {usage, usageMem, v}, h \in {goal, g}, x \in Own : Entered(u, h, x)
  BY <1>3, <1>6, <1>7 DEF Entered
<1>9. usage' \in {usage, usageMem, v} /\ usageMem' \in {usageMem, v} /\ goal' \in {goal, g}
  BY <1>5
<1>10. \A x \in Own : Entered(usage', goal', x) /\ Entered(usageMem', goal', x)
  BY <1>8, <1>9
<1>11. \A x \in Own : Entered(usage, goal, x)' /\ Entered(usageMem, goal, x)'
  BY <1>2, <1>10 DEF Entered
<1>12. SameUsage' /\ \A x \in Own : usageMem'.count[x] = usageMem.count[x]
  BY <1>3, <1>6, <1>9 DEF SameUsage
<1>13. usage' \in UsageRecords /\ usageMem' \in UsageRecords /\ goal' \in GoalRecords
  BY <1>3, <1>6, <1>9
<1> QED
  BY <1>1, <1>2, <1>11, <1>12, <1>13, SettlementWrites DEF Ledgers!Goto

LEMMA SettlementEnds ==
  ASSUME LedgersInv, Ledgers!Finish, settling.request \in Own
  PROVE  LedgersInv'
<1>1. PICK r \in Own : r = settling.request
  OBVIOUS
<1>2. /\ settling # None /\ claim' = [claim EXCEPT ![r] = claim[r]] /\ Leaves
      /\ UNCHANGED <<told, claim, usage, usageMem, goal, manifest, called, reported>>
  BY DEF Ledgers!Finish, Ledgers!ghosts, Ledgers!ledgers, Ledgers!deletion, Leaves, LedgersInv, MeteringTypes
<1>3. /\ goal \in GoalRecords /\ usage \in UsageRecords /\ usageMem \in UsageRecords /\ SameUsage /\ SameUsage'
      /\ \A x \in Own : Entered(usage, goal, x) /\ Entered(usageMem, goal, x)
  BY <1>1, <1>2, SettlementOf DEF LedgersInv, MeteringTypes, SameUsage
<1>4. \A x \in Own : Entered(usage, goal, x)' /\ Entered(usageMem, goal, x)'
  BY <1>2, <1>3 DEF Entered
<1> QED
  BY <1>1, <1>2, <1>3, <1>4, SettlementWrites

LEMMA AsideSettles ==
  ASSUME LedgersInv, Ledgers!Settlement, settling.request \notin Own
  PROVE  LedgersInv'
<1>1. /\ settling # None /\ UNCHANGED <<told, manifest, called, reported>>
  BY DEF Ledgers!Settlement, Ledgers!CountInSession, Ledgers!ChargeGoal, Ledgers!Acknowledge, Ledgers!RemoveClaim,
         Ledgers!Forget, Ledgers!Finish, Ledgers!ghosts, Ledgers!deletion
<1>2. PICK r \in Requests : r = settling.request
  BY <1>1, SettlementIs
<1>3. /\ goal \in GoalRecords \cup {None} /\ usage \in UsageRecords /\ usageMem \in UsageRecords /\ SameUsage
      /\ claim \in [Requests -> ClaimRecords \cup {None}] /\ claim = [claim EXCEPT ![r] = claim[r]]
  BY <1>2 DEF LedgersInv, MeteringTypes
<1>4. /\ SameUsageBut(usage, usage, r) /\ SameUsageBut(usageMem, usageMem, r) /\ SameGoalBut(goal, goal, r)
  BY <1>3 DEF SameUsageBut, SameGoalBut
<1>5. Ledgers!GiveUp => Leaves
  BY DEF Ledgers!GiveUp, Leaves
<1>6. \A where \in Stages : Ledgers!Goto(where) =>
        UNCHANGED <<pc, session, process>> /\ \E w \in Stages : settling' = [settling EXCEPT !.stage = w]
  BY DEF Ledgers!Goto
<1>7. ASSUME NEW v, SameUsageBut(usageMem, v, r), NEW where \in Stages, Ledgers!WriteUsage(v, where),
             UNCHANGED <<claim, goal>>
      PROVE  LedgersInv'
  <2>1. \/ UNCHANGED <<usage, usageMem>> /\ Leaves
        \/ usage' = v /\ usageMem' = v /\ (Leaves \/ Ledgers!Goto(where))
    BY <1>7, UsageWritten
  <2>2. SameUsage'
    BY <1>3, <2>1 DEF SameUsage
  <2>3. PICK u \in {usage, usageMem} : SameUsageBut(u, usage', r)
    BY <1>4, <1>7, <2>1
  <2>4. SameUsageBut(usageMem, usageMem', r) /\ SameGoalBut(goal, goal', r) /\ claim' = [claim EXCEPT ![r] = claim[r]]
    BY <1>3, <1>4, <1>7, <2>1
  <2>5. Leaves \/ Ledgers!Goto(where)
    BY <2>1
  <2> QED
    BY <1>1, <1>2, <1>6, <2>2, <2>3, <2>4, <2>5, SettlementAside
<1>8. ASSUME UNCHANGED <<usage, usageMem>>, SameGoalBut(goal, goal', r), NEW c \in {claim[r], None}, claim' = [claim EXCEPT ![r] = c],
             Leaves \/ \E where \in Stages : Ledgers!Goto(where)
      PROVE  LedgersInv'
  <2>1. SameUsage' /\ SameUsageBut(usage, usage', r) /\ SameUsageBut(usageMem, usageMem', r)
    BY <1>3, <1>4, <1>8 DEF SameUsage
  <2> QED
    BY <1>1, <1>2, <1>6, <1>8, <2>1, SettlementAside
<1>9. CASE Ledgers!CountInSession
  <2>1. CASE Ledgers!Goto("charge") /\ UNCHANGED <<usage, usageMem>>
    BY <1>3, <1>4, <1>8, <1>9, <2>1 DEF Ledgers!CountInSession, Stages
  <2>2. CASE Ledgers!WriteUsage(Ledgers!Counted(usageMem, r), "charge")
    <3>1. PICK v : v = Ledgers!Counted(usageMem, r)
      OBVIOUS
    <3>2. SameUsageBut(usageMem, v, r)
      <4>1. usageMem.count[r] + 1 \in Nat
        BY <1>3 DEF UsageRecords
      <4>2. v \in UsageRecords
        BY <1>3, <3>1, <4>1 DEF UsageRecords, Ledgers!Counted
      <4> QED
        BY <1>3, <3>1, <4>2 DEF UsageRecords, Ledgers!Counted, SameUsageBut
    <3> QED
      BY <1>7, <1>9, <2>2, <3>1, <3>2 DEF Ledgers!CountInSession, Stages
  <2> QED
    BY <1>2, <1>9, <2>1, <2>2 DEF Ledgers!CountInSession
<1>10. CASE Ledgers!ChargeGoal
  <2>1. PICK where \in {"finish", "acknowledge"} : Leaves \/ Ledgers!Goto(where)
    BY <1>5, <1>10 DEF Ledgers!ChargeGoal
  <2>2. SameGoalBut(goal, goal', r)
    <3>1. goal' = goal \/ (goal # None /\ goal' = Ledgers!Charged(r))
      BY <1>2, <1>10 DEF Ledgers!ChargeGoal
    <3>2. ASSUME goal # None
          PROVE  SameGoalBut(goal, Ledgers!Charged(r), r)
      <4>1. goal \in GoalRecords /\ goal.count[r] + 1 \in Nat
        BY <1>3, <3>2 DEF GoalRecords
      <4>2. PICK g : g = [count |-> [goal.count EXCEPT ![r] = goal.count[r] + 1], receipts |-> goal.receipts \cup {r}]
        OBVIOUS
      <4>3. g \in GoalRecords /\ g # None
        BY <4>1, <4>2, LedgersAssumption DEF GoalRecords
      <4>4. SameGoalBut(goal, g, r)
        BY <4>1, <4>2, <4>3 DEF SameGoalBut, GoalRecords
      <4>5. Ledgers!Charged(r) \in {goal, g}
        BY <4>2 DEF Ledgers!Charged
      <4> QED
        BY <1>4, <4>4, <4>5
    <3> QED
      BY <1>4, <3>1, <3>2
  <2>3. UNCHANGED <<claim, usage, usageMem>>
    BY <1>10 DEF Ledgers!ChargeGoal
  <2> QED
    BY <1>3, <1>8, <2>1, <2>2, <2>3 DEF Stages
<1>11. CASE Ledgers!Acknowledge
  <2>1. PICK v : v = [usageMem EXCEPT !.pending = usageMem.pending \ {r}]
    OBVIOUS
  <2>2. SameUsageBut(usageMem, v, r)
    BY <1>3, <2>1 DEF SameUsageBut, UsageRecords
  <2>3. PICK where \in {"end", "finish"} : where = IF settling.by = "owed" THEN "end" ELSE "finish"
    OBVIOUS
  <2>4. Ledgers!WriteUsage(v, where) /\ UNCHANGED <<claim, goal>>
    BY <1>2, <1>11, <2>1, <2>3 DEF Ledgers!Acknowledge
  <2> QED
    BY <1>7, <2>2, <2>4 DEF Stages
<1>12. CASE Ledgers!RemoveClaim
  <2>1. PICK c \in {claim[r], None} : claim' = [claim EXCEPT ![r] = c]
    BY <1>2, <1>3, <1>12 DEF Ledgers!RemoveClaim, Ledgers!Put
  <2>2. UNCHANGED <<usage, usageMem, goal>> /\ (Leaves \/ Ledgers!Goto("forget"))
    BY <1>5, <1>12 DEF Ledgers!RemoveClaim
  <2>3. SameGoalBut(goal, goal', r)
    BY <1>4, <2>2
  <2> QED
    BY <1>8, <2>1, <2>2, <2>3 DEF Stages
<1>13. CASE Ledgers!Forget
  <2>1. PICK v : v = [usageMem EXCEPT !.receipts = usageMem.receipts \ {r}]
    OBVIOUS
  <2>2. /\ SameUsageBut(usageMem, v, r) /\ v.count = usageMem.count /\ v.known = usageMem.known /\ v.pending = usageMem.pending
    BY <1>3, <2>1 DEF SameUsageBut, UsageRecords
  <2>3. usageMem' \in {usageMem, v} /\ usage' \in {usage, usageMem'}
    BY <1>2, <1>13, <2>1 DEF Ledgers!Forget
  <2>4. SameUsage' /\ SameUsageBut(usageMem, usageMem', r)
    BY <1>3, <1>4, <2>2, <2>3 DEF SameUsage
  <2>5. PICK u \in {usage, usageMem} : SameUsageBut(u, usage', r)
    BY <1>4, <2>2, <2>3
  <2>6. SameGoalBut(goal, goal', r)
    <3>1. goal' = goal \/ (goal # None /\ goal' = [goal EXCEPT !.receipts = goal.receipts \ {r}])
      BY <1>2, <1>13 DEF Ledgers!Forget
    <3>2. ASSUME goal # None
          PROVE  SameGoalBut(goal, [goal EXCEPT !.receipts = goal.receipts \ {r}], r)
      <4>1. PICK g : g = [goal EXCEPT !.receipts = goal.receipts \ {r}]
        OBVIOUS
      <4>2. goal \in GoalRecords /\ g \in GoalRecords /\ g.count = goal.count /\ g.receipts = goal.receipts \ {r}
        BY <1>3, <3>2, <4>1 DEF GoalRecords
      <4>3. g # None
        BY <4>2, LedgersAssumption DEF GoalRecords
      <4>4. SameGoalBut(goal, g, r)
        BY <4>2, <4>3 DEF SameGoalBut
      <4> QED
        BY <4>1, <4>4
    <3> QED
      BY <1>4, <3>1, <3>2
  <2>7. claim' = [claim EXCEPT ![r] = claim[r]] /\ Ledgers!Goto("end") /\ "end" \in Stages
    BY <1>3, <1>13 DEF Ledgers!Forget, Stages
  <2> QED
    BY <1>1, <1>2, <1>6, <2>4, <2>5, <2>6, <2>7, SettlementAside
<1>14. CASE Ledgers!Finish
  <2>1. UNCHANGED <<claim, usage, usageMem, goal>> /\ Leaves
    BY <1>14 DEF Ledgers!Finish, Ledgers!ledgers, Ledgers!deletion, Leaves
  <2>2. SameGoalBut(goal, goal', r) /\ claim' = [claim EXCEPT ![r] = claim[r]]
    BY <1>3, <1>4, <2>1
  <2> QED
    BY <1>8, <2>1, <2>2
<1> QED
  BY <1>9, <1>10, <1>11, <1>12, <1>13, <1>14 DEF Ledgers!Settlement

\* A claim that is found: its settlement begins, or it was never started.
LEMMA ClaimReplayed ==
  ASSUME LedgersInv, settling = None, NEW by \in {"boot", "deletion"}, NEW r \in Requests, claim[r] # None, Ledgers!Replay(r, by),
         by = "boot" => process = "boot",
         by = "deletion" => process = "live" /\ session = "marked" /\ \A x \in Own : pc[x] \in {"idle", "over"},
         UNCHANGED <<pc, told, usage, usageMem, goal, manifest, called, reported>>
  PROVE  LedgersInv'
<1>0. MeteringTypes /\ Standing /\ SameUsage /\ \A x \in Own : x \in Requests
  BY DEF LedgersInv, Own
<1>1. /\ r \in Own => session \in {"alive", "marked"}
      /\ \A x \in Own : pc[x] \in {"idle", "over"}
  BY <1>0 DEF MeteringTypes, Standing
<1>2. session \notin {"committed", "gone"} => \A x \in Own : Entered(usage, goal, x) /\ Entered(usageMem, goal, x) /\ ClaimOfCaller(x)
  BY DEF LedgersInv
<1>3. CASE claim[r].phase = "started"
  <2>1. settling' = [request |-> r, stage |-> "count", by |-> by] /\ UNCHANGED <<claim, process, session>>
    BY <1>3 DEF Ledgers!Replay, Ledgers!Settle
  <2>2. settling' \in Settlements /\ settling'.request = r /\ settling'.stage = "count" /\ settling'.by = by
    BY <2>1 DEF Settlements, Stages
  <2>3. MeteringTypes'
    BY <1>0, <2>1, <2>2 DEF MeteringTypes
  <2>4. SettlementOK'
    BY <1>1, <1>3, <2>1, <2>2 DEF SettlementOK, SettlementDone
  <2>5. Standing'
    BY <1>0, <2>1 DEF Standing
  <2>6. session \notin {"committed", "gone"} => \A x \in Own : Entered(usage, goal, x)' /\ Entered(usageMem, goal, x)' /\ ClaimOfCaller(x)'
    BY <1>1, <1>2, <2>1 DEF Entered, ClaimOfCaller, Sending
  <2>7. session \in {"staged", "restoring"} =>
          \A x \in Own : Entered(manifest.usage, manifest.goal, x)' /\ (pc'[x] = "idle" => manifest'.usage.count[x] = 0)
    BY <2>1 DEF LedgersInv, Entered
  <2> QED
    BY <1>0, <2>1, <2>3, <2>4, <2>5, <2>6, <2>7 DEF LedgersInv, SameUsage
<1>4. CASE claim[r].phase # "started"
  <2>1. claim[r].phase = "prepared"
    BY <1>0, <1>4 DEF MeteringTypes, ClaimRecords
  <2>2. /\ claim' \in {claim, [claim EXCEPT ![r] = None]} /\ settling' = None
        /\ process' = process \/ (process = "boot" /\ process' = "failed")
        /\ session' = session \/ (session = "marked" /\ session' = "alive")
    BY <1>4 DEF Ledgers!Replay, Ledgers!Put
  <2>3. /\ claim' \in [Requests -> ClaimRecords \cup {None}] /\ claim'[r] \in {claim[r], None}
        /\ \A x \in Requests : x # r => claim'[x] = claim[x]
    BY <1>0, <2>2 DEF MeteringTypes
  <2>4. MeteringTypes'
    BY <1>0, <2>2, <2>3 DEF MeteringTypes
  <2>5. Standing'
    BY <1>0, <1>1, <2>2, <2>3 DEF MeteringTypes, Standing
  <2>6. r \in Own => usageMem.count[r] = 0 /\ r \notin called /\ usage.count[r] = 0
    BY <1>0, <1>1, <1>2, <2>1 DEF ClaimOfCaller, SameUsage
  <2>7. session \notin {"committed", "gone"} =>
          \A x \in Own \ {r} : Entered(usage, goal, x)' /\ Entered(usageMem, goal, x)' /\ ClaimOfCaller(x)'
    BY <1>0, <1>1, <1>2, <2>2, <2>3 DEF Entered, ClaimOfCaller, Sending
  <2>8. r \in Own => Entered(usage, goal, r)' /\ Entered(usageMem, goal, r)' /\ ClaimOfCaller(r)'
    BY <1>1, <1>2, <2>2, <2>3, <2>6 DEF Entered, ClaimOfCaller, Sending
  <2>9. SettlementOK'
    BY <2>2 DEF SettlementOK
  <2>10. session' \in {"staged", "restoring"} =>
           \A x \in Own : Entered(manifest.usage, manifest.goal, x)' /\ (pc'[x] = "idle" => manifest'.usage.count[x] = 0)
    <3> SUFFICES ASSUME session' \in {"staged", "restoring"}, NEW x \in Own
                 PROVE  Entered(manifest.usage, manifest.goal, x)' /\ (pc'[x] = "idle" => manifest'.usage.count[x] = 0)
      OBVIOUS
    <3>1. session = session' /\ claim[x] = None /\ claim'[x] = None
      BY <1>0, <2>2, <2>3 DEF Standing
    <3> QED
      BY <3>1 DEF LedgersInv, Entered
  <2>11. session' \in {"committed", "gone"} <=> session \in {"committed", "gone"}
    BY <2>2
  <2> QED
    BY <1>0, <2>2, <2>4, <2>5, <2>7, <2>8, <2>9, <2>10, <2>11 DEF LedgersInv, SameUsage
<1> QED
  BY <1>3, <1>4

LEMMA ClaimsReplayed ==
  ASSUME LedgersInv, Ledgers!ReplayClaims \/ Ledgers!SettleForDeletion
  PROVE  LedgersInv'
<1>1. CASE Ledgers!ReplayClaims
  <2>1. PICK r \in Requests : claim[r] # None /\ Ledgers!Replay(r, "boot")
    BY <1>1 DEF Ledgers!ReplayClaims
  <2> QED
    BY <1>1, <2>1, ClaimReplayed DEF Ledgers!ReplayClaims, Ledgers!ledgers, Ledgers!ghosts
<1>2. CASE Ledgers!SettleForDeletion
  <2>1. PICK r \in Requests : claim[r] # None /\ Ledgers!Replay(r, "deletion")
    BY <1>2 DEF Ledgers!SettleForDeletion
  <2>2. \A x \in Own : pc[x] \in {"idle", "over"}
    BY <1>2 DEF Ledgers!SettleForDeletion, Ledgers!RunIsOver, Own
  <2> QED
    BY <1>2, <2>1, <2>2, ClaimReplayed DEF Ledgers!SettleForDeletion, Ledgers!ledgers, Ledgers!ghosts
<1> QED
  BY <1>1, <1>2

LEMMA OwedPaid ==
  ASSUME LedgersInv, Ledgers!PayOwed
  PROVE  LedgersInv'
<1>1. PICK r \in usageMem.pending : settling' = [request |-> r, stage |-> "charge", by |-> "owed"]
  BY DEF Ledgers!PayOwed, Ledgers!Settle
<1>2. /\ process = "boot" /\ settling = None /\ r \in Requests
      /\ UNCHANGED <<pc, told, claim, usage, usageMem, goal, process, session, manifest, called, reported>>
  BY DEF Ledgers!PayOwed, Ledgers!requestVars, Ledgers!ledgers, Ledgers!deletion, Ledgers!ghosts, LedgersInv, MeteringTypes, UsageRecords
<1>3. r \in Own => session = "alive"
  BY <1>2 DEF LedgersInv, MeteringTypes, Standing
<1>4. session \notin {"committed", "gone"} => \A x \in Own : Entered(usage, goal, x) /\ Entered(usageMem, goal, x) /\ ClaimOfCaller(x)
  BY DEF LedgersInv
<1>5. settling' \in Settlements /\ settling'.request = r /\ settling'.stage = "charge" /\ settling'.by = "owed"
  BY <1>1, <1>2 DEF Settlements, Stages
<1>6. r \in Own => usageMem.count[r] = 1 /\ claim[r] # None /\ claim[r].phase = "started"
  <2> SUFFICES ASSUME r \in Own
               PROVE  usageMem.count[r] = 1 /\ claim[r] # None /\ claim[r].phase = "started"
    OBVIOUS
  <2>1. Entered(usageMem, goal, r) /\ ClaimOfCaller(r)
    BY <1>3, <1>4
  <2>2. claim[r] # None /\ claim[r].phase \in {"prepared", "started"}
    BY <1>2, <2>1 DEF LedgersInv, MeteringTypes, ClaimRecords, Entered
  <2> QED
    BY <1>2, <2>1, <2>2 DEF Entered, ClaimOfCaller
<1>7. MeteringTypes'
  BY <1>2, <1>5 DEF LedgersInv, MeteringTypes
<1>8. SettlementOK'
  BY <1>2, <1>3, <1>5, <1>6 DEF SettlementOK, SettlementDone
<1>9. Standing'
  BY <1>2 DEF LedgersInv, Standing
<1>10. session \notin {"committed", "gone"} => \A x \in Own : Entered(usage, goal, x)' /\ Entered(usageMem, goal, x)' /\ ClaimOfCaller(x)'
  <2>1. \A x \in Own : pc[x] # "settling"
    BY <1>2 DEF LedgersInv, Standing, Own
  <2> QED
    BY <1>2, <1>4, <2>1 DEF Entered, ClaimOfCaller
<1>11. session \in {"staged", "restoring"} =>
         \A x \in Own : Entered(manifest.usage, manifest.goal, x)' /\ (pc'[x] = "idle" => manifest'.usage.count[x] = 0)
  BY <1>2 DEF LedgersInv, Entered
<1> QED
  BY <1>2, <1>7, <1>8, <1>9, <1>10, <1>11 DEF LedgersInv, SameUsage

\* When every claim is gone no receipt guards anything.
LEMMA ProcessStarted ==
  ASSUME LedgersInv, Ledgers!Started
  PROVE  LedgersInv'
<1>1. /\ process = "boot" /\ settling = None /\ usageMem.pending = {} /\ \A r \in Requests : claim[r] = None
      /\ process' = "live" /\ UNCHANGED <<pc, told, claim, settling, session, manifest, called, reported>>
  BY DEF Ledgers!Started, Ledgers!requestVars, Ledgers!deletion, Ledgers!ghosts
<1>2. MeteringTypes /\ SameUsage /\ Standing /\ \A x \in Own : x \in Requests
  BY DEF LedgersInv, Own
<1>3. PICK v : v = [usageMem EXCEPT !.receipts = {}]
  OBVIOUS
<1>4. usageMem' = v /\ usage' \in {usage, v}
  BY <1>3 DEF Ledgers!Started
<1>5. v \in UsageRecords /\ v.count = usageMem.count /\ v.known = usageMem.known /\ v.pending = {} /\ v.receipts = {}
  BY <1>1, <1>2, <1>3 DEF MeteringTypes, UsageRecords
<1>6. /\ goal' \in GoalRecords \cup {None} /\ (goal = None <=> goal' = None)
      /\ goal # None => goal'.count = goal.count /\ (goal'.receipts = goal.receipts \/ goal'.receipts = {})
  <2>1. CASE goal = None
    BY <2>1 DEF Ledgers!Started
  <2>2. CASE goal # None
    <3>1. PICK g : g = [goal EXCEPT !.receipts = {}]
      OBVIOUS
    <3>2. goal \in GoalRecords /\ g \in GoalRecords /\ g.count = goal.count /\ g.receipts = {}
      BY <1>2, <2>2, <3>1 DEF MeteringTypes, GoalRecords
    <3>3. goal' \in {goal, g} /\ g # None
      BY <2>2, <3>1, <3>2, LedgersAssumption DEF Ledgers!Started, GoalRecords
    <3> QED
      BY <2>2, <3>2, <3>3
  <2> QED
    BY <2>1, <2>2
<1>7. MeteringTypes'
  BY <1>1, <1>2, <1>4, <1>5, <1>6 DEF MeteringTypes
<1>8. SameUsage' /\ usage'.count = usage.count /\ usage'.known = usage.known /\ usage'.pending = {}
      /\ usage'.receipts \subseteq usage.receipts
  BY <1>1, <1>2, <1>4, <1>5 DEF SameUsage
<1>9. Standing'
  BY <1>1, <1>2, <1>4, <1>5 DEF Standing
<1>10. ASSUME session \notin {"committed", "gone"}, NEW x \in Own
       PROVE  Entered(usage, goal, x)' /\ Entered(usageMem, goal, x)' /\ ClaimOfCaller(x)'
  <2>1. Entered(usage, goal, x) /\ Entered(usageMem, goal, x) /\ ClaimOfCaller(x) /\ claim[x] = None /\ goal # None
    BY <1>1, <1>2, <1>10 DEF LedgersInv, MeteringTypes
  <2>2. ClaimOfCaller(x)'
    BY <1>1, <1>4, <1>5, <2>1 DEF ClaimOfCaller
  <2>3. Entered(usage, goal, x)'
    BY <1>1, <1>2, <1>6, <1>8, <1>10, <2>1 DEF Entered, SameUsage
  <2>4. Entered(usageMem, goal, x)'
    BY <1>1, <1>4, <1>5, <1>6, <1>10, <2>1 DEF Entered
  <2> QED
    BY <2>2, <2>3, <2>4
<1>11. SettlementOK'
  BY <1>1 DEF SettlementOK
<1>12. session \in {"staged", "restoring"} => \A x \in Own : Entered(manifest.usage, manifest.goal, x)'
                                                               /\ (pc'[x] = "idle" => manifest'.usage.count[x] = 0)
  BY <1>1 DEF LedgersInv, Entered
<1> QED
  BY <1>1, <1>7, <1>8, <1>9, <1>10, <1>11, <1>12 DEF LedgersInv

\* A restart reads the file of the usage.
LEMMA LedgersReread ==
  ASSUME LedgersInv, Ledgers!Crash
  PROVE  LedgersInv'
<1>1. /\ process' = "boot" /\ settling' = None /\ usageMem' = usage
      /\ pc' = [r \in Requests |-> IF pc[r] = "idle" THEN "idle" ELSE "over"] /\ told' = [r \in Requests |-> FALSE]
      /\ UNCHANGED <<claim, usage, goal, manifest, called, reported>>
  BY DEF Ledgers!Crash, Ledgers!ghosts
<1>2. \/ session' = "alive" /\ session \in {"alive", "marked", "staged"}
      \/ session' = "restoring" /\ session \in {"staged", "restoring"}
      \/ session' = session /\ session \in {"committed", "gone"}
  <2>1. session \in {"alive", "marked", "staged", "restoring", "committed", "gone"}
    BY DEF LedgersInv, MeteringTypes
  <2>2. session' \in CASE session = "marked" -> {"alive"}
                        [] session = "staged" -> {"alive", "restoring"}
                        [] OTHER -> {session}
    BY DEF Ledgers!Crash
  <2>3. CASE session = "marked"
    BY <2>2, <2>3
  <2>4. CASE session = "staged"
    BY <2>2, <2>4
  <2>5. CASE session \notin {"marked", "staged"}
    BY <2>1, <2>2, <2>5
  <2> QED
    BY <2>3, <2>4, <2>5
<1>3. MeteringTypes /\ SameUsage /\ Standing /\ \A x \in Own : x \in Requests
  BY DEF LedgersInv, Own
<1>4. /\ pc' \in [Requests -> Places] /\ told' \in [Requests -> BOOLEAN]
      /\ \A r \in Requests : pc'[r] \in {"idle", "over"} /\ (pc'[r] = "idle" <=> pc[r] = "idle")
  BY <1>1 DEF Places
<1>5. MeteringTypes'
  BY <1>1, <1>2, <1>3, <1>4 DEF MeteringTypes
<1>6. Standing'
  BY <1>1, <1>2, <1>3, <1>4 DEF Standing, SameUsage
<1>7. SettlementOK' /\ SameUsage'
  BY <1>1 DEF SettlementOK, SameUsage
<1>8. ASSUME session' \notin {"committed", "gone"}, NEW x \in Own
      PROVE  Entered(usage, goal, x)' /\ Entered(usageMem, goal, x)' /\ ClaimOfCaller(x)'
  <2>1. Entered(usage, goal, x) /\ ClaimOfCaller(x) /\ usage.count[x] = usageMem.count[x]
    BY <1>2, <1>3, <1>8 DEF LedgersInv, SameUsage
  <2>2. Entered(usage, goal, x)' /\ Entered(usageMem, goal, x)'
    BY <1>1, <2>1 DEF Entered
  <2>3. ClaimOfCaller(x)'
    BY <1>1, <1>3, <1>4, <2>1 DEF ClaimOfCaller, Sending
  <2> QED
    BY <2>2, <2>3
<1>9. session' \in {"staged", "restoring"} => \A x \in Own : Entered(manifest.usage, manifest.goal, x)'
                                                               /\ (pc'[x] = "idle" => manifest'.usage.count[x] = 0)
  BY <1>1, <1>2, <1>3, <1>4 DEF LedgersInv, Entered
<1> QED
  BY <1>5, <1>6, <1>7, <1>8, <1>9 DEF LedgersInv

\* The deletion of the Session.
LEMMA SessionMarked ==
  ASSUME LedgersInv, Ledgers!Delete
  PROVE  LedgersInv'
<1>1. /\ process = "live" /\ session = "alive" /\ settling = None /\ session' = "marked"
      /\ \A r \in Requests : pc[r] # "settling"
      /\ UNCHANGED <<pc, told, claim, usage, usageMem, goal, settling, process, manifest, called, reported>>
  BY DEF Ledgers!Delete, Ledgers!Admitted, Ledgers!requestVars, Ledgers!ledgers, Ledgers!ghosts
<1>2. \A x \in Own : Entered(usage, goal, x)' /\ Entered(usageMem, goal, x)' /\ ClaimOfCaller(x)'
  BY <1>1 DEF LedgersInv, Entered, ClaimOfCaller
<1> QED
  BY <1>1, <1>2 DEF LedgersInv, MeteringTypes, SameUsage, SettlementOK, Standing

LEMMA SessionStaged ==
  ASSUME LedgersInv, Ledgers!Stage
  PROVE  LedgersInv'
<1>1. /\ process = "live" /\ session = "marked" /\ settling = None /\ session' = "staged"
      /\ \A r \in Own : r \in Requests /\ claim[r] = None /\ pc[r] \in {"idle", "over"}
      /\ manifest' = [usage |-> usageMem, goal |-> goal]
      /\ UNCHANGED <<pc, told, claim, usage, usageMem, goal, settling, process, called, reported>>
  BY DEF Own, Ledgers!Stage, Ledgers!RunIsOver, Ledgers!requestVars, Ledgers!ledgers, Ledgers!ghosts
<1>2. /\ manifest'.usage = usageMem /\ manifest'.goal = goal /\ goal \in GoalRecords
      /\ manifest' \in [usage : UsageRecords, goal : GoalRecords]
  BY <1>1 DEF LedgersInv, MeteringTypes
<1>3. \A x \in Own : Entered(usage, goal, x) /\ Entered(usageMem, goal, x) /\ ClaimOfCaller(x)
  BY <1>1 DEF LedgersInv
<1>4. \A x \in Own : Entered(usage, goal, x)' /\ Entered(usageMem, goal, x)' /\ ClaimOfCaller(x)'
  BY <1>1, <1>3 DEF Entered, ClaimOfCaller
<1>5. \A x \in Own : Entered(manifest.usage, manifest.goal, x)' /\ (pc'[x] = "idle" => manifest'.usage.count[x] = 0)
  BY <1>1, <1>2, <1>3 DEF Entered, ClaimOfCaller
<1>6. MeteringTypes'
  BY <1>1, <1>2 DEF LedgersInv, MeteringTypes
<1>7. \A x \in Own : x \notin usageMem.pending
  BY <1>1, <1>3 DEF Entered
<1>8. Standing'
  BY <1>1, <1>7 DEF LedgersInv, Standing
<1> QED
  BY <1>1, <1>4, <1>5, <1>6, <1>8 DEF LedgersInv, SameUsage, SettlementOK

LEMMA DeletionGivenUp ==
  ASSUME LedgersInv, Ledgers!DeletionFails
  PROVE  LedgersInv'
<1>1. /\ process = "live" /\ session \in {"marked", "staged"} /\ settling = None /\ session' = "alive"
      /\ UNCHANGED <<pc, told, claim, usage, usageMem, goal, settling, process, manifest, called, reported>>
  BY DEF Ledgers!DeletionFails, Ledgers!requestVars, Ledgers!ledgers, Ledgers!ghosts
<1>2. \A x \in Own : Entered(usage, goal, x)' /\ Entered(usageMem, goal, x)' /\ ClaimOfCaller(x)'
  BY <1>1 DEF LedgersInv, Entered, ClaimOfCaller
<1> QED
  BY <1>1, <1>2 DEF LedgersInv, MeteringTypes, SameUsage, SettlementOK, Standing

LEMMA SessionPurged ==
  ASSUME LedgersInv, Ledgers!Commit \/ Ledgers!RemoveGoal \/ Ledgers!RemoveUsage
  PROVE  LedgersInv'
<1>1. Ledgers!Nothing \in UsageRecords /\ Ledgers!Nothing.pending = {}
  BY DEF Ledgers!Nothing, UsageRecords
<1>2. /\ process = "live" /\ session \in {"staged", "committed"} /\ session' \in {"committed", "gone"}
      /\ UNCHANGED <<pc, told, claim, settling, process>>
      /\ \/ UNCHANGED <<usage, usageMem>>
         \/ usage' = Ledgers!Nothing /\ usageMem' = Ledgers!Nothing /\ settling = None
      /\ goal' \in {goal, None} /\ (session' = "staged" => goal' = goal)
  BY DEF Ledgers!Commit, Ledgers!RemoveGoal, Ledgers!RemoveUsage, Ledgers!requestVars, Ledgers!ledgers, Ledgers!deletion
<1>3. MeteringTypes'
  BY <1>1, <1>2 DEF LedgersInv, MeteringTypes
<1>4. SettlementOK'
  BY <1>2 DEF LedgersInv, SettlementOK
<1>5. Standing' /\ SameUsage'
  BY <1>1, <1>2 DEF LedgersInv, Standing, SameUsage
<1> QED
  BY <1>2, <1>3, <1>4, <1>5 DEF LedgersInv

LEMMA SessionRestored ==
  ASSUME LedgersInv, Ledgers!Restore
  PROVE  LedgersInv'
<1>1. /\ session = "restoring" /\ session' = "alive" /\ settling = None
      /\ usage' = manifest.usage /\ usageMem' = manifest.usage /\ goal' = manifest.goal
      /\ UNCHANGED <<pc, told, claim, settling, process, manifest, called, reported>>
  BY DEF Ledgers!Restore, Ledgers!requestVars, Ledgers!ghosts
<1>2. /\ manifest.usage \in UsageRecords /\ manifest.goal \in GoalRecords /\ manifest.goal # None
      /\ \A r \in Own : pc[r] \in {"idle", "over"} /\ claim[r] = None
  BY <1>1, LedgersAssumption DEF LedgersInv, MeteringTypes, Standing, GoalRecords
<1>3. ASSUME NEW x \in Own
      PROVE  Entered(usage, goal, x)' /\ Entered(usageMem, goal, x)' /\ ClaimOfCaller(x)'
  <2>1. Entered(manifest.usage, manifest.goal, x) /\ ClaimOfCaller(x) /\ (pc[x] = "idle" => manifest.usage.count[x] = 0)
    BY <1>1 DEF LedgersInv
  <2> QED
    BY <1>1, <1>2, <2>1 DEF Entered, ClaimOfCaller, Sending
<1>4. MeteringTypes'
  BY <1>1, <1>2 DEF LedgersInv, MeteringTypes
<1>5. Standing' /\ SettlementOK' /\ SameUsage'
  BY <1>1, <1>2 DEF LedgersInv, Standing, SettlementOK, SameUsage
<1> QED
  BY <1>1, <1>3, <1>4, <1>5 DEF LedgersInv

LEMMA LedgersStep ==
  ASSUME LedgersInv, Ledgers!NextMetering
  PROVE  LedgersInv'
<1>1. ASSUME NEW r \in Requests,
             \/ Ledgers!Begin(r) \/ Ledgers!Discard(r) \/ Ledgers!MarkStarted(r) \/ Ledgers!Call(r) \/ Ledgers!Report(r)
             \/ Ledgers!Checkpoint(r) \/ Ledgers!LockMap(r)
      PROVE  LedgersInv'
  BY <1>1, CallersClaim, AsideClaims, MapIsLocked
<1>2. CASE Ledgers!Settlement
  <2>1. CASE settling.request \in Own
    BY <1>2, <2>1, SessionCounts, GoalCharged, ChargeAcknowledged, ClaimRemoved, ReceiptsForgotten, SettlementEnds
       DEF Ledgers!Settlement
  <2> QED
    BY <1>2, <2>1, AsideSettles
<1>3. CASE Ledgers!Deletion
  BY <1>3, ClaimsReplayed, SessionMarked, SessionStaged, DeletionGivenUp, SessionPurged DEF Ledgers!Deletion
<1> QED
  BY <1>1, <1>2, <1>3, ClaimsReplayed, OwedPaid, ProcessStarted, LedgersReread, SessionRestored DEF Ledgers!NextMetering

LEMMA LedgersKept == ServicesSpec => []LedgersInv
<1>1. ServicesInit => LedgersInv
  BY LedgersInit, Chosen
<1>2. LedgersInv /\ UNCHANGED ledgers => LedgersInv'
  BY DEF LedgersInv, MeteringTypes, SameUsage, SettlementOK, SettlementDone, Standing, Entered, ClaimOfCaller, ledgers
<1>3. LedgersInv /\ [ServicesNext]_services => LedgersInv'
  <2>1. [ServicesNext]_services => Ledgers!NextMetering \/ UNCHANGED ledgers
    BY DEF ServicesNext, services
  <2> QED
    BY <1>2, <2>1, LedgersStep
<1> QED
  BY <1>1, <1>3, PTL DEF ServicesSpec

\* Every request of a run that went over the network stands once in the
\* ledger of its Session and once in that of its Goal, and none twice, however
\* its settlement fails and is replayed, whether or not a deletion of its
\* Session is begun and undone, and whatever is asked outside the run
\* meanwhile (apply_metering_once, settle_metering_once,
\* reconcile_pending_goal_charges, reconcile_provider_attempts_with).
THEOREM CountedOnceHolds == ServicesSpec => []CountedOnce
<1>1. LedgersInv => Ledgers!CountedOnce
  BY DEF Ledgers!CountedOnce, Ledgers!Once, LedgersInv, Entered, Own
<1>2. LedgersInv => CountedOnce
  BY <1>1 DEF CountedOnce
<1> QED
  BY <1>2, LedgersKept, PTL
-----------------------------------------------------------------------------
(* The permits of a request *)

Circuits == [failures : Nat, opened : {"no", "cooling", "cooled"}, probe : Clients \cup {None}, generation : Nat]
Leases == [generation : Nat, probing : BOOLEAN]
Limitations == [provider : Nat, global : Nat, threshold : Nat]

PermitTypes ==
  /\ circuit \in [Providers -> Circuits] /\ lease \in [Clients -> Leases \cup {None}]
  /\ DOMAIN stage = Clients /\ stage = [c \in Clients |-> stage[c]]
  /\ DOMAIN rest = Clients /\ rest = [c \in Clients |-> rest[c]]
  /\ held \in [Providers \cup {Admission!Global} -> {set \in SUBSET Clients : IsFiniteSet(set)}]

\* Every request that is under way goes by the limits of some manager.
ManagersOK ==
  /\ limits \in Limitations /\ former \in Limitations \cup {None} /\ managers \subseteq Limitations
  /\ under \in [Clients -> Limitations \cup {None}]
  /\ \A c \in Clients : stage[c] # "idle" => under[c] \in Limitations

\* Who probes is of this provider, holds the lease, and gives it back; and the
\* circuit is open meanwhile.
ProbeKept ==
  \A p \in Providers :
    circuit[p].probe # None =>
      /\ circuit[p].opened = "cooled"
      /\ circuit[p].probe \in Clients /\ Of[circuit[p].probe] = p
      /\ lease[circuit[p].probe] = Admission!Lease(circuit[p], TRUE)
      /\ stage[circuit[p].probe] \in {"permit", "call", "dropGlobal", "dropProvider", "dropProbe"}

\* Who found no room, asleep or about to sleep, finds none now.
NoRoomYet ==
  \A c \in Clients :
    stage[c] \in Admission!Pools /\ rest[c] \in {"full", "asleep"} =>
      ~ Admission!HasRoom(Admission!Key(c), under[c])

PermitInv == PermitTypes /\ ManagersOK /\ ProbeKept /\ NoRoomYet

LEMMA PermitInit == Admission!InitPermits => PermitInv
<1> SUFFICES ASSUME Admission!InitPermits
             PROVE  PermitInv
  OBVIOUS
<1>1. \A p \in Providers : circuit[p] = [failures |-> 0, opened |-> "no", probe |-> None, generation |-> 0]
  BY DEF Admission!InitPermits, Admission!Fresh
<1>2. circuit \in [Providers -> Circuits]
  BY <1>1 DEF Admission!InitPermits, Admission!Fresh, Circuits
<1>3. PermitTypes
  BY <1>2, FS_EmptySet DEF Admission!InitPermits, PermitTypes
<1>6. ManagersOK
  BY PermitsAssumption DEF Admission!InitPermits, ManagersOK, Limitations
<1>4. ProbeKept
  BY <1>1 DEF ProbeKept
<1>5. NoRoomYet
  BY DEF Admission!InitPermits, Admission!Pools, NoRoomYet
<1> QED
  BY <1>3, <1>4, <1>5, <1>6 DEF PermitInv

\* The circuit after a step of its rules.
LEMMA CircuitTypes ==
  ASSUME NEW k \in Circuits, NEW by \in Limitations
  PROVE  /\ Admission!Normal(k, by) \in Circuits
         /\ Admission!Normal(k, by).probe # None /\ k.opened # "no" => Admission!Normal(k, by) = k
         /\ k.probe = None => Admission!Normal(k, by).probe = None
         /\ Admission!Fresh(k.generation + 1) \in Circuits
         /\ Admission!Fresh(k.generation + 1).probe = None
<1> DEFINE closed == [k EXCEPT !.opened = "no", !.probe = None,
                              !.generation = IF k.opened # "no" \/ k.probe # None THEN @ + 1 ELSE @]
           tripped == [k EXCEPT !.opened = "cooling", !.generation = @ + 1]
<1>1. k.generation + 1 \in Nat /\ k.generation \in Nat
  BY DEF Circuits
<1>2. ASSUME NEW g \in Nat
      PROVE  /\ [k EXCEPT !.opened = "no", !.probe = None, !.generation = g] \in Circuits
             /\ [k EXCEPT !.opened = "no", !.probe = None, !.generation = g].probe = None
             /\ [k EXCEPT !.opened = "cooling", !.generation = g] \in Circuits
             /\ [k EXCEPT !.opened = "cooling", !.generation = g].probe = k.probe
  BY DEF Circuits
<1>11. closed \in Circuits /\ closed.probe = None
  BY <1>1, <1>2
<1>12. tripped \in Circuits /\ tripped.probe = k.probe
  BY <1>1, <1>2
<1>3. Admission!Normal(k, by) = IF Admission!Tripped(k, by) THEN IF k.opened = "no" THEN tripped ELSE k ELSE closed
  BY DEF Admission!Normal
<1>4. Admission!Fresh(k.generation + 1) \in Circuits /\ Admission!Fresh(k.generation + 1).probe = None
  BY DEF Circuits, Admission!Fresh
<1> HIDE DEF closed, tripped
<1> QED
  BY <1>11, <1>12, <1>3, <1>4

LEMMA OutcomeTypes ==
  ASSUME NEW c \in Clients, NEW k \in Circuits
  PROVE  /\ Admission!Succeeded(c, k) \in Circuits /\ Admission!Succeeded(c, k).probe = None
         /\ Admission!Failed(c, k) \in Circuits /\ Admission!Failed(c, k).probe = None
         /\ Admission!Both(c, k) \in Circuits /\ Admission!Both(c, k).probe = None
<1>1. ASSUME NEW l \in Circuits
      PROVE  Admission!Failed(c, l) \in Circuits /\ Admission!Failed(c, l).probe = None
  BY DEF Circuits, Admission!Failed
<1>2. Admission!Succeeded(c, k) \in Circuits /\ Admission!Succeeded(c, k).probe = None
  BY DEF Circuits, Admission!Succeeded, Admission!Fresh
<1> QED
  BY <1>1, <1>2 DEF Admission!Both

\* Only the caller of a step moves, and it does not come to a pool unrested.
LEMMA Asleep ==
  ASSUME PermitInv, NEW c \in Clients,
         NEW to, stage' = [stage EXCEPT ![c] = to],
         NEW how, rest' = [rest EXCEPT ![c] = how],
         NEW new, under' = [under EXCEPT ![c] = new],
         to \in Admission!Pools => how = "no",
         \A key \in Providers \cup {Admission!Global}, by \in Limitations :
           Admission!HasRoom(key, by)' => Admission!HasRoom(key, by)
  PROVE  NoRoomYet'
<1> SUFFICES ASSUME NEW x \in Clients, stage'[x] \in Admission!Pools, rest'[x] \in {"full", "asleep"}
             PROVE  ~ Admission!HasRoom(Admission!Key(x), under[x])'
  BY DEF NoRoomYet, Admission!Pools
<1>1. x # c /\ stage'[x] = stage[x] /\ rest'[x] = rest[x] /\ under'[x] = under[x]
  BY DEF PermitInv, PermitTypes, ManagersOK
<1>2. Admission!Key(x)' = Admission!Key(x) /\ Admission!Key(x) \in Providers \cup {Admission!Global}
  BY <1>1, PermitsAssumption DEF Admission!Key
<1>3. ~ Admission!HasRoom(Admission!Key(x), under[x]) /\ under[x] \in Limitations
  BY <1>1 DEF PermitInv, NoRoomYet, ManagersOK, Admission!Pools
<1> QED
  BY <1>1, <1>2, <1>3 DEF Admission!HasRoom

LEMMA Unmoved ==
  ASSUME PermitInv, NEW c \in Clients
  PROVE  /\ under = [under EXCEPT ![c] = under[c]]
         /\ under[c] \in Limitations \cup {None} /\ (stage[c] # "idle" => under[c] \in Limitations)
BY DEF PermitInv, ManagersOK

\* A step of one caller that leaves circuits and permits alone, and does not
\* leave the permit of a probe.
LEMMA CallerSteps ==
  ASSUME PermitInv, NEW c \in Clients, UNCHANGED <<limits, former, managers, held, circuit, lease>>,
         NEW new \in Limitations \cup {None}, under' = [under EXCEPT ![c] = new],
         NEW to, stage' = [stage EXCEPT ![c] = to],
         NEW how, rest' = [rest EXCEPT ![c] = how],
         to \in Admission!Pools => how = "no", to # "idle" => new \in Limitations,
         stage[c] \in {"permit", "call", "dropGlobal", "dropProvider", "dropProbe"} =>
           to \in {"permit", "call", "dropGlobal", "dropProvider", "dropProbe"}
  PROVE  PermitInv'
<1>1. PermitTypes'
  BY DEF PermitInv, PermitTypes
<1>2. ProbeKept'
  BY DEF PermitInv, PermitTypes, ProbeKept, Admission!Lease
<1>3. NoRoomYet'
  BY Asleep DEF Admission!HasRoom
<1>4. ManagersOK'
  BY DEF PermitInv, PermitTypes, ManagersOK
<1> QED
  BY <1>1, <1>2, <1>3, <1>4 DEF PermitInv

\* The same of rest alone.
LEMMA Rests ==
  ASSUME PermitInv, NEW c \in Clients, UNCHANGED <<limits, former, managers, under, held, circuit, lease, stage>>,
         NEW how, rest' = [rest EXCEPT ![c] = how],
         stage[c] \in Admission!Pools /\ how # "no" =>
            rest[c] \in {"full", "asleep"} \/ ~ Admission!HasRoom(Admission!Key(c), under[c])
  PROVE  PermitInv'
<1>1. PermitTypes'
  BY DEF PermitInv, PermitTypes
<1>2. ProbeKept'
  BY DEF PermitInv, PermitTypes, ProbeKept, Admission!Lease
<1>3. NoRoomYet'
  BY DEF PermitInv, PermitTypes, NoRoomYet, Admission!HasRoom, Admission!Key
<1>4. ManagersOK'
  BY DEF PermitInv, ManagersOK
<1> QED
  BY <1>1, <1>2, <1>3, <1>4 DEF PermitInv

LEMMA SamePermits == \A S : Admission!Cardinality(S) = Cardinality(S)
BY DEF Admission!Cardinality, Cardinality

LEMMA Acquires ==
  ASSUME PermitInv, NEW c \in Clients, Admission!Acquire(c)
  PROVE  PermitInv'
<1>1. Admission!Key(c) \in Providers \cup {Admission!Global}
  BY PermitsAssumption DEF Admission!Key
<1>2. CASE ~ Admission!HasRoom(Admission!Key(c), under[c])
  BY <1>2, Rests DEF Admission!Acquire, Admission!Stay, Admission!config
<1>3. CASE Admission!HasRoom(Admission!Key(c), under[c])
  <2> DEFINE to == IF stage[c] = "provider" THEN "global" ELSE "reserve"
  <2>1. /\ UNCHANGED <<limits, former, managers, under, circuit, lease>> /\ stage[c] \in {"provider", "global"}
        /\ held' = [held EXCEPT ![Admission!Key(c)] = @ \cup {c}]
        /\ stage' = [stage EXCEPT ![c] = to]
        /\ rest' = [rest EXCEPT ![c] = "no"]
    BY <1>3 DEF Admission!Acquire, Admission!Arrive, Admission!Go, Admission!Pools, Admission!config
  <2>2. ASSUME NEW key \in Providers \cup {Admission!Global}
        PROVE  /\ held'[key] \in SUBSET Clients /\ IsFiniteSet(held'[key])
               /\ \A by \in Limitations : Admission!HasRoom(key, by)' => Admission!HasRoom(key, by)
    <3>1. held[key] \in SUBSET Clients /\ IsFiniteSet(held[key])
      BY DEF PermitInv, PermitTypes
    <3>2. held'[key] = held[key] \/ held'[key] = held[key] \cup {c}
      BY <2>1 DEF PermitInv, PermitTypes
    <3>3. /\ IsFiniteSet(held'[key]) /\ Cardinality(held'[key]) \in Int /\ Cardinality(held[key]) \in Int
          /\ Cardinality(held'[key]) >= Cardinality(held[key])
      <4>1. /\ Cardinality(held[key]) \in Nat /\ IsFiniteSet(held[key] \cup {c})
            /\ Cardinality(held[key] \cup {c}) \in Nat
            /\ Cardinality(held[key] \cup {c}) = IF c \in held[key] THEN Cardinality(held[key]) ELSE Cardinality(held[key]) + 1
        BY <3>1, FS_AddElement, FS_CardinalityType
      <4>2. CASE held'[key] = held[key]
        BY <3>1, <4>1, <4>2
      <4>3. CASE held'[key] = held[key] \cup {c}
        BY <4>1, <4>3
      <4> QED
        BY <3>2, <4>2, <4>3
    <3>5. ASSUME NEW by \in Limitations, Admission!HasRoom(key, by)'
          PROVE  Admission!HasRoom(key, by)
      <4>1. by.provider \in Int /\ by.global \in Int
        BY DEF Limitations
      <4>2. /\ Cardinality(held'[key]) < by.provider => Cardinality(held[key]) < by.provider
            /\ Cardinality(held'[key]) < by.global => Cardinality(held[key]) < by.global
            /\ held'[key] = {} => held[key] = {}
        BY <3>2, <3>3, <4>1
      <4> QED
        BY <3>5, <4>2, SamePermits DEF Admission!HasRoom
    <3> QED
      BY <3>1, <3>2, <3>3, <3>5
  <2>3. held' \in [Providers \cup {Admission!Global} -> {set \in SUBSET Clients : IsFiniteSet(set)}]
    BY <2>1, <2>2 DEF PermitInv, PermitTypes
  <2>4. PermitTypes'
    BY <2>1, <2>3 DEF PermitInv, PermitTypes
  <2>5. ProbeKept'
    BY <2>1 DEF PermitInv, PermitTypes, ProbeKept, Admission!Lease
  <2>6. NoRoomYet'
    BY <2>1, <2>2, Unmoved, Asleep
  <2>7. ManagersOK'
    BY <2>1 DEF PermitInv, PermitTypes, ManagersOK
  <2> QED
    BY <2>4, <2>5, <2>6, <2>7 DEF PermitInv
<1> QED
  BY <1>2, <1>3

LEMMA Returns ==
  ASSUME PermitInv, NEW c \in Clients, Admission!Return(c)
  PROVE  PermitInv'
<1> DEFINE to == CASE stage[c] = "dropGlobal" -> "dropProvider" [] stage[c] = "yieldGlobal" -> "yieldProvider"
                   [] stage[c] = "dropProvider" -> "dropProbe" [] OTHER -> "window"
<1>1. /\ UNCHANGED <<limits, former, managers, under, circuit, lease>>
      /\ stage[c] \in {"dropGlobal", "yieldGlobal", "dropProvider", "yieldProvider"}
      /\ stage' = [stage EXCEPT ![c] = to]
      /\ held' = [held EXCEPT ![Admission!Key(c)] = @ \ {c}]
      /\ rest' = Admission!Woken(Admission!Pools)
  BY DEF Admission!Return, Admission!Go, Admission!config
<1>2. to \notin Admission!Pools /\ (stage[c] \in {"dropGlobal", "dropProvider"} => to \in {"dropProvider", "dropProbe"})
  BY <1>1 DEF Admission!Pools
<1> HIDE DEF to
<1>3. \A x \in Clients : stage'[x] \in Admission!Pools => rest'[x] \notin {"full", "asleep"}
  BY <1>1, <1>2 DEF PermitInv, PermitTypes, Admission!Woken
<1>4. held' \in [Providers \cup {Admission!Global} -> {set \in SUBSET Clients : IsFiniteSet(set)}]
  BY <1>1, FS_RemoveElement DEF PermitInv, PermitTypes
<1>5. PermitTypes'
  BY <1>1, <1>4 DEF PermitInv, PermitTypes, Admission!Woken
<1>6. ProbeKept'
  BY <1>1, <1>2 DEF PermitInv, PermitTypes, ProbeKept, Admission!Lease
<1>7. NoRoomYet'
  BY <1>3 DEF NoRoomYet, Admission!Pools
<1>8. ManagersOK'
  BY <1>1 DEF PermitInv, PermitTypes, ManagersOK
<1> QED
  BY <1>5, <1>6, <1>7, <1>8 DEF PermitInv

\* Steps that move the circuits and the leases, of one caller.
LEMMA Changes ==
  ASSUME PermitInv, NEW c \in Clients, UNCHANGED <<limits, former, managers, under, held, rest>>, stage[c] # "idle",
         NEW to \in {"permit", "dropGlobal", "dropEntry"}, stage' = [stage EXCEPT ![c] = to],
         ProbeKept', circuit' \in [Providers -> Circuits], lease' \in [Clients -> Leases \cup {None}]
  PROVE  PermitInv'
<1>1. PermitTypes'
  BY DEF PermitInv, PermitTypes
<1>2. NoRoomYet'
  BY DEF PermitInv, PermitTypes, NoRoomYet, Admission!HasRoom, Admission!Key, Admission!Pools
<1>3. ManagersOK'
  BY DEF PermitInv, PermitTypes, ManagersOK
<1> QED
  BY <1>1, <1>2, <1>3 DEF PermitInv

LEMMA Claims ==
  ASSUME PermitInv, NEW c \in Clients, Admission!Claim(c)
  PROVE  PermitInv'
<1> DEFINE k == Admission!Normal(circuit[Of[c]], under[c])
<1>1. /\ UNCHANGED <<limits, former, managers, under, held, rest>> /\ stage[c] = "claim"
      /\ circuit[Of[c]] \in Circuits /\ k \in Circuits /\ Of[c] \in Providers
      /\ k.probe # None => k = circuit[Of[c]]
  <2>1. Of[c] \in Providers /\ circuit[Of[c]] \in Circuits /\ under[c] \in Limitations
    BY PermitsAssumption DEF PermitInv, PermitTypes, ManagersOK, Admission!Claim
  <2>2. circuit[Of[c]].probe # None => circuit[Of[c]].opened # "no"
    BY <2>1 DEF PermitInv, ProbeKept
  <2> QED
    BY <2>1, <2>2, CircuitTypes DEF Admission!Claim, Admission!config
<1> HIDE DEF k
<1>2. CASE stage' = [stage EXCEPT ![c] = "permit"] /\ UNCHANGED <<circuit, lease>>
  <2>1. ProbeKept'
    BY <1>1, <1>2 DEF PermitInv, PermitTypes, ProbeKept, Admission!Lease
  <2> QED
    BY <1>1, <1>2, <2>1, Changes DEF PermitInv, PermitTypes
<1>3. \A b \in BOOLEAN : Admission!Lease(k, b) \in Leases
  BY <1>1 DEF Admission!Lease, Leases, Circuits
<1>4. CASE /\ stage' = [stage EXCEPT ![c] = "permit"] /\ circuit' = [circuit EXCEPT ![Of[c]] = k]
           /\ lease' = [lease EXCEPT ![c] = Admission!Lease(k, FALSE)]
  <2>1. ProbeKept'
    BY <1>1, <1>4 DEF PermitInv, PermitTypes, ProbeKept, Admission!Lease
  <2>2. circuit' \in [Providers -> Circuits] /\ lease' \in [Clients -> Leases \cup {None}]
    BY <1>1, <1>3, <1>4 DEF PermitInv, PermitTypes
  <2> QED
    BY <1>1, <1>4, <2>1, <2>2, Changes
<1>5. CASE /\ stage' = [stage EXCEPT ![c] = "permit"] /\ circuit' = [circuit EXCEPT ![Of[c]] = [k EXCEPT !.probe = c]]
           /\ lease' = [lease EXCEPT ![c] = Admission!Lease(k, TRUE)]
           /\ k.opened = "cooled"
  <2>0. /\ [k EXCEPT !.probe = c] \in Circuits /\ [k EXCEPT !.probe = c].probe = c
        /\ [k EXCEPT !.probe = c].opened = "cooled" /\ [k EXCEPT !.probe = c].generation = k.generation
    BY <1>1, <1>5 DEF Circuits
  <2>1. ProbeKept'
    <3> SUFFICES ASSUME NEW p \in Providers, circuit'[p].probe # None
                 PROVE  /\ circuit'[p].opened = "cooled"
                        /\ circuit'[p].probe \in Clients /\ Of[circuit'[p].probe] = p
                        /\ lease'[circuit'[p].probe] = Admission!Lease(circuit'[p], TRUE)
                        /\ stage'[circuit'[p].probe] \in {"permit", "call", "dropGlobal", "dropProvider", "dropProbe"}
      BY DEF ProbeKept, Admission!Lease
    <3>1. CASE p = Of[c]
      <4>1. circuit'[p] = [k EXCEPT !.probe = c]
        BY <1>1, <1>5, <3>1 DEF PermitInv, PermitTypes
      <4>2. lease'[c] = Admission!Lease(k, TRUE) /\ stage'[c] = "permit"
        BY <1>5 DEF PermitInv, PermitTypes
      <4> QED
        BY <2>0, <3>1, <4>1, <4>2 DEF Admission!Lease
    <3>2. CASE p # Of[c]
      <4>1. circuit'[p] = circuit[p]
        BY <1>1, <1>5, <3>2 DEF PermitInv, PermitTypes
      <4>2. circuit[p].probe # c
        BY <1>1, <4>1 DEF PermitInv, ProbeKept
      <4>3. circuit[p].probe \in Clients
        BY <4>1 DEF PermitInv, ProbeKept
      <4>4. lease'[circuit[p].probe] = lease[circuit[p].probe] /\ stage'[circuit[p].probe] = stage[circuit[p].probe]
        BY <1>5, <4>2, <4>3 DEF PermitInv, PermitTypes
      <4> QED
        BY <4>1, <4>4 DEF PermitInv, ProbeKept
    <3> QED
      BY <3>1, <3>2
  <2>2. circuit' \in [Providers -> Circuits] /\ lease' \in [Clients -> Leases \cup {None}]
    BY <1>1, <1>3, <1>5, <2>0 DEF PermitInv, PermitTypes
  <2> QED
    BY <1>1, <1>5, <2>1, <2>2, Changes
<1>6. CASE /\ stage' = [stage EXCEPT ![c] = "dropGlobal"] /\ circuit' = [circuit EXCEPT ![Of[c]] = k]
           /\ UNCHANGED lease
  <2>1. ProbeKept'
    BY <1>1, <1>6 DEF PermitInv, PermitTypes, ProbeKept, Admission!Lease
  <2>2. circuit' \in [Providers -> Circuits] /\ lease' \in [Clients -> Leases \cup {None}]
    BY <1>1, <1>6 DEF PermitInv, PermitTypes
  <2> QED
    BY <1>1, <1>6, <2>1, <2>2, Changes
<1> QED
  BY <1>2, <1>4, <1>5, <1>6 DEF Admission!Claim, Admission!Go, k

LEMMA Records ==
  ASSUME PermitInv, NEW c \in Clients, Admission!Record(c)
  PROVE  PermitInv'
<1> DEFINE k == circuit[Of[c]]
<1>1. /\ UNCHANGED <<limits, former, managers, under, held, rest, lease>> /\ stage[c] = "call"
      /\ stage' = [stage EXCEPT ![c] = "dropGlobal"]
  BY DEF Admission!Record, Admission!Go, Admission!config
<1>2. k \in Circuits /\ Of[c] \in Providers
  BY PermitsAssumption DEF PermitInv, PermitTypes
<1>3. /\ Admission!Succeeded(c, k) \in Circuits /\ Admission!Succeeded(c, k).probe = None
      /\ Admission!Failed(c, k) \in Circuits /\ Admission!Failed(c, k).probe = None
      /\ Admission!Both(c, k) \in Circuits /\ Admission!Both(c, k).probe = None
  BY <1>2, OutcomeTypes
<1>4. PICK new \in Circuits : circuit' \in {circuit, [circuit EXCEPT ![Of[c]] = new]} /\ (new = k \/ new.probe = None)
  BY <1>2, <1>3 DEF Admission!Record
<1> HIDE DEF k
<1>5. circuit' \in [Providers -> Circuits]
  BY <1>2, <1>4 DEF PermitInv, PermitTypes
<1>6. \A p \in Providers : circuit'[p].probe # None => circuit'[p] = circuit[p]
  BY <1>2, <1>4 DEF PermitInv, PermitTypes, k
<1>7. ProbeKept'
  BY <1>1, <1>6 DEF PermitInv, PermitTypes, ProbeKept, Admission!Lease
<1>8. lease' \in [Clients -> Leases \cup {None}]
  BY <1>1 DEF PermitInv, PermitTypes
<1> QED
  BY <1>1, <1>5, <1>7, <1>8, Changes

LEMMA Releases ==
  ASSUME PermitInv, NEW c \in Clients, Admission!ReleaseProbe(c)
  PROVE  PermitInv'
<1> DEFINE k == circuit[Of[c]]
           mine == lease[c] # None /\ Admission!Probes(c, k) /\ k.generation = lease[c].generation
<1>1. /\ UNCHANGED <<limits, former, managers, under, held, rest>> /\ stage[c] = "dropProbe"
      /\ stage' = [stage EXCEPT ![c] = "dropEntry"] /\ lease' = [lease EXCEPT ![c] = None]
      /\ circuit' = IF mine THEN [circuit EXCEPT ![Of[c]].probe = None] ELSE circuit
  BY DEF Admission!ReleaseProbe, Admission!Go, Admission!config
<1>2. k \in Circuits /\ Of[c] \in Providers
  BY PermitsAssumption DEF PermitInv, PermitTypes
<1>3. [k EXCEPT !.probe = None] \in Circuits /\ [k EXCEPT !.probe = None].probe = None
  BY <1>2 DEF Circuits
<1>4. k.probe = c /\ c # None => mine
  <2> SUFFICES ASSUME k.probe = c, c # None
               PROVE  mine
    OBVIOUS
  <2>1. lease[c] = Admission!Lease(k, TRUE)
    BY <1>2 DEF PermitInv, ProbeKept
  <2>2. lease[c] \in Leases /\ lease[c].probing /\ lease[c].generation = k.generation
    BY <1>2, <2>1 DEF Circuits, Leases, Admission!Lease
  <2> QED
    BY <2>2, PermitsAssumption DEF Leases, Admission!Probes
<1> HIDE DEF mine
<1>5. circuit' \in {circuit, [circuit EXCEPT ![Of[c]] = [k EXCEPT !.probe = None]]}
  BY <1>1 DEF PermitInv, PermitTypes
<1>6. circuit' \in [Providers -> Circuits] /\ \A p \in Providers : circuit'[p].probe # None => circuit'[p] = circuit[p]
  BY <1>2, <1>3, <1>5 DEF PermitInv, PermitTypes
<1>7. \A p \in Providers : circuit'[p].probe # None => circuit'[p].probe # c
  <2> SUFFICES ASSUME NEW p \in Providers, circuit'[p].probe # None, circuit'[p].probe = c
               PROVE  FALSE
    OBVIOUS
  <2>1. circuit'[p] = circuit[p]
    BY <1>6
  <2>2. p = Of[c] /\ mine
    BY <1>4, <2>1 DEF PermitInv, ProbeKept
  <2> QED
    BY <1>1, <1>2, <1>3, <2>2 DEF PermitInv, PermitTypes
<1>8. ProbeKept'
  BY <1>1, <1>6, <1>7 DEF PermitInv, PermitTypes, ProbeKept, Admission!Lease
<1>9. lease' \in [Clients -> Leases \cup {None}]
  BY <1>1 DEF PermitInv, PermitTypes
<1> QED
  BY <1>1, <1>6, <1>8, <1>9, Changes

LEMMA PermitDrops == 
  ASSUME PermitInv, NEW c \in Clients, Admission!ReturnEntry(c)
  PROVE  PermitInv'
<1>1. /\ UNCHANGED <<limits, former, managers, held, circuit, lease>> /\ stage[c] = "dropEntry"
      /\ under' = [under EXCEPT ![c] = None]
      /\ stage' = [stage EXCEPT ![c] = "idle"]
      /\ rest' = rest \/ rest' = Admission!Woken({"window"})
  BY DEF Admission!ReturnEntry, Admission!Go, Admission!config
<1>2. \A x \in Clients : rest'[x] \in {"full", "asleep"} => rest[x] \in {"full", "asleep"}
  BY <1>1 DEF Admission!Woken
<1>3. PermitTypes'
  BY <1>1 DEF PermitInv, PermitTypes, Admission!Woken
<1>4. ProbeKept'
  BY <1>1 DEF PermitInv, PermitTypes, ProbeKept, Admission!Lease
<1>5. NoRoomYet'
  BY <1>1, <1>2 DEF PermitInv, PermitTypes, ManagersOK, NoRoomYet, Admission!HasRoom, Admission!Key, Admission!Pools
<1>6. ManagersOK'
  BY <1>1 DEF PermitInv, PermitTypes, ManagersOK
<1> QED
  BY <1>3, <1>4, <1>5, <1>6 DEF PermitInv

LEMMA Cools ==
  ASSUME PermitInv, Admission!Cool
  PROVE  PermitInv'
<1>1. PICK p \in Providers : circuit[p].opened = "cooling" /\ circuit' = [circuit EXCEPT ![p].opened = "cooled"]
  BY DEF Admission!Cool
<1>2. UNCHANGED <<limits, former, managers, under, stage, rest, held, lease>>
  BY DEF Admission!Cool, Admission!config
<1>3. circuit[p] \in Circuits
  BY DEF PermitInv, PermitTypes
<1>4. [circuit[p] EXCEPT !.opened = "cooled"] \in Circuits /\ [circuit[p] EXCEPT !.opened = "cooled"].probe = circuit[p].probe
  BY <1>3 DEF Circuits
<1>5. circuit' = [circuit EXCEPT ![p] = [circuit[p] EXCEPT !.opened = "cooled"]]
  BY <1>1 DEF PermitInv, PermitTypes
<1>6. circuit[p].probe = None
  BY <1>1 DEF PermitInv, ProbeKept
<1>7. circuit' \in [Providers -> Circuits] /\ \A x \in Providers : circuit'[x].probe # None => circuit'[x] = circuit[x]
  BY <1>3, <1>4, <1>5, <1>6 DEF PermitInv, PermitTypes
<1>8. ProbeKept'
  BY <1>2, <1>7 DEF PermitInv, ProbeKept, Admission!Lease
<1>9. PermitTypes'
  BY <1>2, <1>7 DEF PermitInv, PermitTypes
<1>10. NoRoomYet' /\ ManagersOK'
  BY <1>2 DEF PermitInv, NoRoomYet, ManagersOK, Admission!HasRoom, Admission!Key
<1> QED
  BY <1>8, <1>9, <1>10 DEF PermitInv

LEMMA Activates ==
  ASSUME PermitInv, Admission!Activate
  PROVE  PermitInv'
<1> DEFINE new(p) == IF Admission!Enforced(limits) THEN Admission!Normal(circuit[p], limits) ELSE Admission!Fresh(circuit[p].generation + 1)
<1>1. /\ UNCHANGED <<limits, managers, under, stage, held, lease>> /\ former' = None /\ rest' = Admission!Woken(Admission!Waiting)
      /\ circuit' = [p \in Providers |-> new(p)]
  BY DEF Admission!Activate
<1>2. ASSUME NEW p \in Providers
      PROVE  new(p) \in Circuits /\ (new(p).probe # None => new(p) = circuit[p])
  <2>1. circuit[p] \in Circuits /\ limits \in Limitations
    BY DEF PermitInv, PermitTypes, ManagersOK
  <2>2. circuit[p].probe # None => circuit[p].opened # "no"
    BY DEF PermitInv, ProbeKept
  <2> QED
    BY <2>1, <2>2, CircuitTypes
<1> HIDE DEF new
<1>3. ProbeKept'
  BY <1>1, <1>2 DEF PermitInv, ProbeKept, Admission!Lease
<1>4. PermitTypes'
  BY <1>1, <1>2 DEF PermitInv, PermitTypes, Admission!Woken
<1>5. NoRoomYet'
  BY <1>1 DEF NoRoomYet, Admission!Woken, Admission!Waiting, Admission!Pools
<1>6. ManagersOK'
  BY <1>1 DEF PermitInv, ManagersOK
<1> QED
  BY <1>3, <1>4, <1>5, <1>6 DEF PermitInv

LEMMA PermitStep ==
  ASSUME PermitInv, Admission!NextPermits
  PROVE  PermitInv'
<1> USE DEF Admission!config, Admission!windows
<1>1. ASSUME NEW c \in Clients, Admission!Begin(c)
      PROVE  PermitInv'
  BY <1>1, CallerSteps DEF Admission!Begin, Admission!Arrive, Admission!Go, Admission!Pools, PermitInv, ManagersOK
<1>2. ASSUME NEW c \in Clients, Admission!Sleep(c)
      PROVE  PermitInv'
  BY <1>2, Rests DEF Admission!Sleep
<1>3. ASSUME NEW c \in Clients, Admission!LookAtWindow(c)
      PROVE  PermitInv'
  BY <1>3, Unmoved, CallerSteps, Rests DEF Admission!LookAtWindow, Admission!Arrive, Admission!Go, Admission!Stay, Admission!Pools
<1>4. ASSUME NEW c \in Clients, Admission!Wake(c)
      PROVE  PermitInv'
  BY <1>4, Rests DEF Admission!Wake
<1>5. ASSUME NEW c \in Clients, Admission!Reserve(c) \/ Admission!Start(c)
      PROVE  PermitInv'
  <2>1. PICK to \in {"claim", "yieldGlobal", "call"} :
          /\ UNCHANGED <<limits, former, managers, under, held, circuit, lease, rest>> /\ stage' = [stage EXCEPT ![c] = to]
          /\ IF to = "call" THEN stage[c] = "permit" ELSE stage[c] = "reserve"
    BY <1>5 DEF Admission!Reserve, Admission!Start, Admission!Go
  <2>2. rest' = [rest EXCEPT ![c] = rest[c]]
    BY <2>1 DEF PermitInv, PermitTypes
  <2>3. /\ to \notin Admission!Pools
        /\ stage[c] \in {"permit", "call", "dropGlobal", "dropProvider", "dropProbe"} => to = "call"
    BY <2>1 DEF Admission!Pools
  <2> QED
    BY <2>1, <2>2, <2>3, Unmoved, CallerSteps
<1>6. ASSUME NEW c \in Clients, Admission!Abandon(c)
      PROVE  PermitInv'
  <2> DEFINE to == CASE stage[c] = "permit" -> "dropGlobal" [] stage[c] = "global" -> "dropProvider" [] OTHER -> "idle"
  <2>1. /\ UNCHANGED <<limits, former, managers, held, circuit, lease>> /\ stage[c] # "idle"
        /\ stage' = [stage EXCEPT ![c] = to] /\ rest' = [rest EXCEPT ![c] = "no"]
        /\ under' = IF to = "idle" THEN [under EXCEPT ![c] = None] ELSE under
    BY <1>6 DEF Admission!Abandon, Admission!Arrive, Admission!Go, Admission!Waiting, Admission!Pools
  <2>2. PICK new \in Limitations \cup {None} :
          under' = [under EXCEPT ![c] = new] /\ (to # "idle" => new \in Limitations)
    BY <2>1, Unmoved
  <2>3. /\ to \notin Admission!Pools
        /\ stage[c] \in {"permit", "call", "dropGlobal", "dropProvider", "dropProbe"} =>
             to \in {"permit", "call", "dropGlobal", "dropProvider", "dropProbe"}
    BY <1>6 DEF Admission!Abandon, Admission!Waiting, Admission!Pools
  <2> HIDE DEF to
  <2> QED
    BY <2>1, <2>2, <2>3, CallerSteps
<1>7. CASE Admission!Expire \/ UNCHANGED permits
  <2>1. UNCHANGED <<limits, former, managers, under, stage, rest, held, circuit, lease>>
    BY <1>7 DEF Admission!Expire, permits
  <2> QED
    BY <2>1 DEF PermitInv, PermitTypes, ProbeKept, NoRoomYet, ManagersOK, Admission!Lease, Admission!HasRoom, Admission!Key
<1>8. CASE Admission!Reconfigure \/ Admission!RollBack
  <2>1. /\ UNCHANGED <<under, stage, rest, held, circuit, lease>>
        /\ limits' \in Limitations /\ former' \in Limitations \cup {None} /\ managers' \subseteq Limitations
    BY <1>8, PermitsAssumption DEF Admission!Reconfigure, Admission!RollBack, PermitInv, ManagersOK, Limitations
  <2> QED
    BY <2>1 DEF PermitInv, PermitTypes, ProbeKept, NoRoomYet, ManagersOK, Admission!Lease, Admission!HasRoom, Admission!Key
<1> QED
  BY <1>1, <1>2, <1>3, <1>4, <1>5, <1>6, <1>7, <1>8, Acquires, Claims, Records, Returns, Releases, PermitDrops,
     Cools, Activates DEF Admission!NextPermits

LEMMA PermitsKept == ServicesSpec => [](component = "permits" => PermitInv)
<1>1. ServicesInit => PermitInv
  BY PermitInit, Chosen
<1>2. PermitInv /\ UNCHANGED permits => PermitInv'
  BY DEF PermitInv, PermitTypes, ProbeKept, NoRoomYet, ManagersOK, Admission!Lease, Admission!HasRoom, Admission!Key,
       permits
<1>3. (component = "permits" => PermitInv) /\ [ServicesNext]_services => (component = "permits" => PermitInv)'
  BY <1>2, PermitStep, Chosen
<1> QED
  BY <1>1, <1>3, PTL DEF ServicesSpec

\* Whatever requests wait, are dropped, or give their permits back, each by the
\* limits of its own manager: none sleeps beside a permit that these leave free
\* (Pools::acquire, release).
THEOREM NobodySleepsInVainHolds == ServicesSpec => []NobodySleepsInVain
<1>1. (component = "permits" => PermitInv) => NobodySleepsInVain
  BY DEF NobodySleepsInVain, Admission!NobodySleepsInVain, PermitInv, NoRoomYet
<1> QED
  BY <1>1, PermitsKept, PTL

\* A circuit that is probed has a caller who still holds the probe: no call
\* that is refused, dropped, superseded or reconfigured leaves its provider
\* closed for ever (AdmissionLease, CircuitLease, Health).
THEOREM ProbeIsHeldHolds == ServicesSpec => []ProbeIsHeld
<1>1. (component = "permits" => PermitInv) => ProbeIsHeld
  BY DEF ProbeIsHeld, Admission!ProbeIsHeld, PermitInv, ProbeKept
<1> QED
  BY <1>1, PermitsKept, PTL

-----------------------------------------------------------------------------
(* The agent loop *)

Unsent == {"compact", "distil", "checkpoint", "oauth", "claim", "admit", "mark", "backoff"}

\* A request that is still to be sent, or is to be sent again, cost nothing;
\* one that is answered did if it has reported.
Unspent ==
  /\ place \in Unsent => ~ spent
  /\ place = "stream" /\ ended = "no" /\ spent => reply.reported
  /\ place = "stream" /\ ended \in {"again", "failed"} => ~ spent

\* A call that took effect is not a read.  It has returned, or awaits something
\* still; then it is let finish, unless it is an open one.
Acting ==
  /\ place # "over" => outcome = "none"
  /\ place = "tools" =>
       /\ DOMAIN tool = DOMAIN asked
       /\ answers = << >>
       /\ \A i \in DOMAIN tool : tool[i] = "grace" => asked[i] = "slow"
       /\ \A i \in effects :
            /\ i \in DOMAIN tool
            /\ \/ asked[i] = "slow" /\ tool[i] \in {"running", "grace"}
               \/ asked[i] = "open" /\ tool[i] \in {"running", "bare"}
               \/ asked[i] # "read" /\ tool[i] \in {"result", "unknown"}

\* The plan of a reply is one of Plans.
Planned ==
  /\ DOMAIN reply = {"produced", "reported", "plan"}
  /\ reply.plan \in Seq({"read", "write", "open", "slow"})
  /\ asked \in Seq({"read", "write", "open", "slow"})

LoopInv == Unspent /\ Planned

CallsInv == LoopInv /\ Acting /\ Agent!EffectsAreKnown

LEMMA InitLoopInv == Agent!InitLoop => CallsInv
BY DEF CallsInv, Agent!InitLoop, LoopInv, Unspent, Planned, Acting, Agent!EffectsAreKnown, Unsent, Agent!Silence

LEMMA UnspentStep == LoopInv /\ Agent!NextLoop => Unspent'
<1> SUFFICES ASSUME LoopInv, Agent!NextLoop
             PROVE  Unspent'
  OBVIOUS
<1> USE DEF LoopInv, Unspent, Unsent, Agent!Goto, Agent!End, Agent!outside, Agent!iteration, Agent!request
<1>1. CASE Agent!NextTurn \/ Agent!Compact \/ Agent!Distil \/ Agent!Checkpoint \/ Agent!RefreshOauth
  BY <1>1 DEF Agent!NextTurn, Agent!Compact, Agent!Distil, Agent!Checkpoint, Agent!RefreshOauth
<1>2. CASE Agent!BeginMeter \/ Agent!Admit \/ Agent!MarkStarted
  BY <1>2 DEF Agent!BeginMeter, Agent!Admit, Agent!MarkStarted, Agent!Silence
<1>3. CASE Agent!Delta \/ Agent!Usage \/ Agent!Cut
  <2>1. CASE Agent!Delta
    <3>1. reply'.reported = reply.reported
      BY <2>1 DEF Agent!Delta, Planned
    <3> QED
      BY <2>1, <3>1 DEF Agent!Delta, Agent!Streaming
  <2>2. CASE Agent!Usage
    <3>1. reply'.reported
      BY <2>2 DEF Agent!Usage, Planned
    <3> QED
      BY <2>2, <3>1 DEF Agent!Usage, Agent!Streaming
  <2>3. CASE Agent!Cut
    BY <2>3 DEF Agent!Cut, Agent!Streaming
  <2> QED
    BY <1>3, <2>1, <2>2, <2>3
<1>4. CASE Agent!Closes
  BY <1>4 DEF Agent!Closes, Agent!Streaming, Agent!Verdict, Agent!Silent
<1>5. CASE Agent!Settle
  BY <1>5 DEF Agent!Settle
<1>6. CASE Agent!Backoff \/ Agent!Resolve \/ Agent!CloseTurn
  BY <1>6 DEF Agent!Backoff, Agent!Resolve, Agent!CloseTurn
<1>7. CASE \E i \in DOMAIN tool : Agent!StartCall(i) \/ Agent!TakeEffect(i) \/ Agent!ReturnCall(i) \/ Agent!Interrupt(i)
  BY <1>7 DEF Agent!StartCall, Agent!TakeEffect, Agent!ReturnCall, Agent!Interrupt
<1>8. CASE Agent!Cancel \/ Agent!GoalEnds
  BY <1>8 DEF Agent!Cancel, Agent!GoalEnds
<1> QED
  BY <1>1, <1>2, <1>3, <1>4, <1>5, <1>6, <1>7, <1>8 DEF Agent!NextLoop

LEMMA PlannedStep == LoopInv /\ Agent!NextLoop => Planned'
<1> SUFFICES ASSUME LoopInv, Agent!NextLoop
             PROVE  Planned'
  OBVIOUS
<1> USE DEF LoopInv, Agent!request, Agent!iteration
<1>1. CASE Agent!Delta
  <2>1. PICK plan : /\ plan = reply.plan \/ plan \in Plans
                    /\ \/ reply' = [reply EXCEPT !.produced = TRUE]
                       \/ reply' = [reply EXCEPT !.produced = TRUE, !.plan = plan]
    BY <1>1 DEF Agent!Delta
  <2>2. plan \in Seq({"read", "write", "open", "slow"})
    BY <2>1, LoopAssumption DEF Planned
  <2>3. reply'.plan \in {reply.plan, plan} /\ DOMAIN reply' = DOMAIN reply
    BY <2>1 DEF Planned
  <2> QED
    BY <1>1, <2>2, <2>3 DEF Planned, Agent!Delta
<1>2. ASSUME reply' \in {reply, Agent!Silence} \/ reply' = [reply EXCEPT !.reported = TRUE],
             asked' \in {asked, reply.plan}
      PROVE  Planned'
  <2>1. << >> \in Seq({"read", "write", "open", "slow"})
    OBVIOUS
  <2>2. CASE reply' = Agent!Silence
    BY <1>2, <2>1, <2>2 DEF Planned, Agent!Silence
  <2>3. CASE reply' # Agent!Silence
    BY <1>2, <2>3 DEF Planned
  <2> QED
    BY <2>2, <2>3
<1>3. CASE ~ Agent!Delta
  <2>1. CASE Agent!Usage \/ Agent!MarkStarted \/ Agent!Closes \/ Agent!Cut \/ Agent!Settle
    BY <2>1, <1>2 DEF Agent!Usage, Agent!MarkStarted, Agent!Closes, Agent!Cut, Agent!Settle
  <2>2. CASE \/ Agent!NextTurn \/ Agent!Compact \/ Agent!Distil \/ Agent!Checkpoint \/ Agent!RefreshOauth
             \/ Agent!BeginMeter \/ Agent!Admit \/ Agent!Backoff \/ Agent!Resolve \/ Agent!CloseTurn
    BY <2>2, <1>2 DEF Agent!NextTurn, Agent!Compact, Agent!Distil, Agent!Checkpoint, Agent!RefreshOauth,
         Agent!BeginMeter, Agent!Admit, Agent!Backoff, Agent!Resolve, Agent!CloseTurn
  <2>3. CASE \/ \E i \in DOMAIN tool : Agent!StartCall(i) \/ Agent!TakeEffect(i) \/ Agent!ReturnCall(i) \/ Agent!Interrupt(i)
             \/ Agent!Cancel \/ Agent!GoalEnds
    BY <2>3, <1>2 DEF Agent!StartCall, Agent!TakeEffect, Agent!ReturnCall, Agent!Interrupt, Agent!Cancel, Agent!GoalEnds
  <2> QED
    BY <1>3, <2>1, <2>2, <2>3 DEF Agent!NextLoop
<1> QED
  BY <1>1, <1>3

\* Steps of the calls themselves.
LEMMA CallsStep ==
  ASSUME CallsInv, NEW i \in DOMAIN tool,
         Agent!StartCall(i) \/ Agent!TakeEffect(i) \/ Agent!ReturnCall(i) \/ Agent!Interrupt(i)
  PROVE  Acting' /\ Agent!EffectsAreKnown'
<1> USE DEF CallsInv, LoopInv, Acting, Planned, Agent!EffectsAreKnown, Agent!request, Agent!iteration, Agent!Kind
<1>1. CASE Agent!StartCall(i)
  BY <1>1 DEF Agent!StartCall
<1>2. CASE Agent!TakeEffect(i)
  BY <1>2 DEF Agent!TakeEffect
<1>3. CASE Agent!ReturnCall(i)
  BY <1>3 DEF Agent!ReturnCall
<1>4. CASE Agent!Interrupt(i)
  BY <1>4 DEF Agent!Interrupt
<1> QED
  BY <1>1, <1>2, <1>3, <1>4

LEMMA CloseTurnStep == CallsInv /\ Agent!CloseTurn => Acting' /\ Agent!EffectsAreKnown'
<1> SUFFICES ASSUME CallsInv, Agent!CloseTurn
             PROVE  Acting' /\ Agent!EffectsAreKnown'
  OBVIOUS
<1>1. PICK looped \in {0} \cup DOMAIN tool :
        /\ looped # 0 => \A i \in DOMAIN tool : i > looped /\ Agent!Finished(i) => Agent!SameBatch(looped, i)
        /\ answers' = [i \in DOMAIN tool |-> IF Agent!Finished(i) /\ (looped = 0 \/ i <= looped) THEN tool[i] ELSE "skipped"]
        /\ \/ place' = "over" /\ outcome' = "error"
           \/ saved' = answers' /\ (place' = "over" \/ (place' = "turn" /\ UNCHANGED outcome))
  BY DEF Agent!CloseTurn, Agent!Persisted, Agent!End, Agent!Goto
<1>2. /\ place = "tools" /\ \A i \in DOMAIN tool : Agent!Idle(i)
      /\ UNCHANGED <<effects, tool, asked, reply>>
  BY DEF Agent!CloseTurn, Agent!request
<1>3. ASSUME NEW i \in effects
      PROVE  i \in DOMAIN tool /\ (asked[i] # "open" => answers'[i] \in {"result", "unknown"})
  <2>1. /\ i \in DOMAIN tool /\ asked[i] # "read"
        /\ asked[i] # "open" => tool[i] \in {"result", "unknown"}
        /\ Agent!Finished(i)
    BY <1>2 DEF CallsInv, LoopInv, Acting, Agent!Idle, Agent!Finished
  <2>2. DOMAIN tool \subseteq Nat
    BY <1>2 DEF CallsInv, LoopInv, Acting, Planned
  <2>3. looped = 0 \/ i <= looped
    <3>1. SUFFICES ASSUME looped # 0, i > looped
                   PROVE  FALSE
      BY <2>1, <2>2
    <3>2. Agent!SameBatch(looped, i)
      BY <1>1, <2>1, <3>1
    <3>3. i \in looped .. i
      BY <2>1, <2>2, <3>1
    <3> QED
      BY <2>1, <3>1, <3>2, <3>3 DEF Agent!SameBatch, Agent!Kind
  <2> QED
    BY <1>1, <2>1, <2>3
<1>4. Acting'
  BY <1>1, <1>2 DEF CallsInv, LoopInv, Acting
<1>5. DOMAIN answers' = DOMAIN tool
  BY <1>1
<1> QED
  BY <1>1, <1>2, <1>3, <1>4, <1>5 DEF CallsInv, LoopInv, Acting, Agent!EffectsAreKnown, Agent!Kind

LEMMA ActingStep == CallsInv /\ Agent!NextLoop => Acting' /\ Agent!EffectsAreKnown'
<1> SUFFICES ASSUME CallsInv, Agent!NextLoop
             PROVE  Acting' /\ Agent!EffectsAreKnown'
  OBVIOUS
<1> USE DEF Agent!Goto, Agent!End, Agent!iteration, Agent!request
\* What the tools did is as it was, and the run is not over, or its calls are.
<1>1. ASSUME UNCHANGED <<asked, tool, effects, answers, saved>>, place \notin {"tools", "over"}, place' # "tools",
             place' # "over" => UNCHANGED outcome
      PROVE  Acting' /\ Agent!EffectsAreKnown'
  BY <1>1 DEF CallsInv, LoopInv, Acting, Agent!EffectsAreKnown, Agent!Kind
<1>2. CASE Agent!NextTurn \/ Agent!Compact \/ Agent!Distil \/ Agent!Checkpoint \/ Agent!RefreshOauth
  BY <1>1, <1>2 DEF Agent!NextTurn, Agent!Compact, Agent!Distil, Agent!Checkpoint, Agent!RefreshOauth
<1>3. CASE Agent!BeginMeter \/ Agent!Admit \/ Agent!MarkStarted \/ Agent!Backoff
  BY <1>1, <1>3 DEF Agent!BeginMeter, Agent!Admit, Agent!MarkStarted, Agent!Backoff
<1>4. CASE Agent!Delta \/ Agent!Usage \/ Agent!Cut \/ Agent!Closes
  BY <1>1, <1>4 DEF Agent!Delta, Agent!Usage, Agent!Cut, Agent!Closes, Agent!Streaming
<1>5. CASE Agent!Settle
  BY <1>1, <1>5 DEF Agent!Settle
<1>6. CASE Agent!Resolve
  <2>1. CASE place' = "tools"
    BY <1>6, <2>1 DEF Agent!Resolve, CallsInv, LoopInv, Acting, Agent!EffectsAreKnown, Agent!Kind
  <2>2. CASE place' # "tools"
    BY <1>1, <1>6, <2>2 DEF Agent!Resolve
  <2> QED
    BY <2>1, <2>2
<1>7. CASE Agent!Cancel \/ Agent!GoalEnds
  BY <1>7 DEF Agent!Cancel, Agent!GoalEnds, CallsInv, LoopInv, Acting, Agent!EffectsAreKnown, Agent!Kind
<1> QED
  BY <1>2, <1>3, <1>4, <1>5, <1>6, <1>7, CallsStep, CloseTurnStep DEF Agent!NextLoop

LEMMA LoopInvariance == ServicesSpec => [](component = "loop" => LoopInv)
<1>1. ServicesInit => LoopInv
  BY InitLoopInv, Chosen DEF CallsInv
<1>2. LoopInv /\ Agent!NextLoop => LoopInv'
  BY UnspentStep, PlannedStep DEF LoopInv
<1>3. LoopInv /\ UNCHANGED loop => LoopInv'
  BY DEF LoopInv, Unspent, Planned, loop
<1>4. (component = "loop" => LoopInv) /\ [ServicesNext]_services => (component = "loop" => LoopInv)'
  BY <1>2, <1>3, Chosen
<1> QED
  BY <1>1, <1>4, PTL DEF ServicesSpec

\* A request that may have cost something is not sent again: neither the retry
\* after a limit nor the one with a fresh credential pays twice (llm/retry.rs).
THEOREM PaidOnceHolds == ServicesSpec => []PaidOnce
<1>1. (component = "loop" => LoopInv) => PaidOnce
  BY DEF PaidOnce, LoopInv, Unspent, Unsent, Agent!PaidOnce
<1> QED
  BY <1>1, LoopInvariance, PTL

\* What a call did is on disk, as the model was told it, before the next
\* request and when the run ends well; a call that took effect is not answered
\* by a bare "(interrupted)", unless it awaits after its effect and is not let
\* finish (run_calls.rs: needs_cancel_cleanup).
THEOREM EffectsAreKnownHolds == ServicesSpec => []EffectsAreKnown
<1>1. ServicesInit => CallsInv
  BY InitLoopInv, Chosen
<1>2. CallsInv /\ Agent!NextLoop => CallsInv'
  BY UnspentStep, PlannedStep, ActingStep DEF LoopInv, CallsInv
<1>3. CallsInv /\ UNCHANGED loop => CallsInv'
  BY DEF CallsInv, LoopInv, Unspent, Planned, Acting, Agent!EffectsAreKnown, Agent!Kind, loop
<1>4. (component = "loop" => CallsInv) /\ [ServicesNext]_services => (component = "loop" => CallsInv)'
  BY <1>2, <1>3, Chosen
<1>5. (component = "loop" => CallsInv) => EffectsAreKnown
  BY DEF CallsInv, EffectsAreKnown
<1> QED
  BY <1>1, <1>4, <1>5, PTL DEF ServicesSpec

-----------------------------------------------------------------------------
(* A question to the person *)

Decisions == {"rule_allow", "allow", "deny", "timeout", "cancel"}

AskTypes ==
  /\ pending \subseteq Asks
  /\ channel \in [Asks -> {"open", "allow", "deny", "closed"}]
  /\ holder \in [Asks -> {"none", "allow", "deny", "lost", "sweep", "swept"}]
  /\ waiter \in [Asks -> {"new", "rules", "register", "test", "listen", "select", "late", "left", "gone", "done"}]
  /\ verdict \in [Asks -> {"none", "allow", "deny", "timeout", "rule"}]
  /\ toldTo \in [Asks -> SUBSET Decisions]
  /\ edit \in [Broker!Editors -> {"no", "fetch", "load", "fill", "change", "save", "insert"}]

Said(k) == toldTo[k] \ {"rule_allow"}

\* Before it is registered nobody but its rules may decide a question.
Unasked(k) ==
  waiter[k] \in {"new", "rules", "register"} =>
    /\ k \notin pending /\ holder[k] = "none" /\ channel[k] = "open" /\ Said(k) = {}
    /\ waiter[k] = "rules" /\ edit[k] \in {"save", "insert"} => toldTo[k] = {"rule_allow"}

\* While it is pending nobody has decided; who takes it out decides alone.
Undecided(k) ==
  k \in pending => /\ holder[k] = "none" /\ channel[k] = "open" /\ Said(k) = {}
                   /\ waiter[k] \in {"test", "listen", "select", "left"}

Decides(k) ==
  /\ holder[k] \in {"allow", "deny"} => Said(k) = {} /\ channel[k] \in {"open", holder[k]}
  /\ holder[k] = "lost" => Said(k) = {} /\ channel[k] = "closed"
  /\ holder[k] = "sweep" => Said(k) = {} /\ channel[k] = "open"
  /\ holder[k] = "swept" => Said(k) \subseteq {"cancel"} /\ channel[k] = "open"
  /\ holder[k] = "none" /\ channel[k] \in {"allow", "deny"} => Said(k) \subseteq {channel[k]}
  /\ holder[k] = "none" /\ channel[k] = "closed" => Said(k) \subseteq {"cancel"}
  /\ holder[k] = "none" /\ channel[k] = "open" => Said(k) \subseteq {"timeout"} \/ Said(k) \subseteq {"cancel"}

\* What it returned, and from whom.
Returned(k) ==
  \/ verdict[k] = "none"
  \/ /\ waiter[k] = "done"
     /\ \/ channel[k] # "open" /\ verdict[k] = Broker!Answer(k)
        \/ /\ k \notin pending /\ holder[k] = "none" /\ channel[k] = "open"
           /\ \/ verdict[k] = "timeout" /\ Said(k) \subseteq {"timeout"}
              \/ verdict[k] = "deny" /\ Said(k) \subseteq {"cancel"}
              \/ verdict[k] = "rule" /\ toldTo[k] = {"rule_allow"}

Settled(k) == Unasked(k) /\ Undecided(k) /\ Decides(k) /\ Returned(k)
AskInv == AskTypes /\ \A k \in Asks : Settled(k)

LEMMA AskInit == Broker!InitApproval => AskInv
BY DEF Broker!InitApproval, AskInv, AskTypes, Settled, Unasked, Undecided, Decides, Returned, Said

\* What is not touched of a question stays settled.
LEMMA Untouched ==
  ASSUME AskInv, NEW k \in Asks, (k \in pending') = (k \in pending),
         channel'[k] = channel[k], holder'[k] = holder[k], waiter'[k] = waiter[k],
         verdict'[k] = verdict[k], toldTo'[k] = toldTo[k], edit'[k] = edit[k]
  PROVE  Settled(k)'
BY DEF AskInv, Settled, Unasked, Undecided, Decides, Returned, Said, Broker!Answer

\* A step of one question; the Session is told at most one thing of it.
Alone(k) ==
  \A x \in Asks \ {k} :
    /\ (x \in pending') = (x \in pending) /\ channel'[x] = channel[x] /\ holder'[x] = holder[x]
    /\ waiter'[x] = waiter[x] /\ verdict'[x] = verdict[x] /\ toldTo'[x] = toldTo[x] /\ edit'[x] = edit[x]

LEMMA OneAsk ==
  ASSUME AskInv, NEW k \in Asks, AskTypes', Alone(k), Settled(k)'
  PROVE  AskInv'
BY Untouched DEF AskInv, Alone

LEMMA Tells ==
  ASSUME AskInv, NEW k \in Asks, NEW decision \in Decisions, Broker!Persist(k, decision)
  PROVE  /\ toldTo' \in [Asks -> SUBSET Decisions]
         /\ toldTo'[k] \in {toldTo[k], toldTo[k] \cup {decision}}
         /\ \A x \in Asks \ {k} : toldTo'[x] = toldTo[x]
BY DEF AskInv, AskTypes, Broker!Persist, Broker!Written

LEMMA AsksRules ==
  ASSUME AskInv, NEW k \in Asks, Broker!TrySessionRules(k) \/ Broker!TryWorkspaceRules(k) \/ Broker!Remember(k)
  PROVE  AskInv'
<1> USE DEF Broker!Editors, Broker!Goto, Broker!Return, Broker!Turn, Broker!Written, Broker!broker, Broker!asking, Broker!rules
<1>1. CASE Broker!TrySessionRules(k)
  <2>1. AskTypes'
    BY <1>1 DEF AskInv, AskTypes, Broker!TrySessionRules, Decisions
  <2>2. Alone(k)
    BY <1>1 DEF AskInv, AskTypes, Broker!TrySessionRules, Alone
  <2>3. Settled(k)'
    BY <1>1 DEF AskInv, AskTypes, Broker!TrySessionRules, Settled, Unasked, Undecided, Decides, Returned, Said, Decisions
  <2> QED
    BY <2>1, <2>2, <2>3, OneAsk
<1>2. CASE Broker!TryWorkspaceRules(k)
  <2>1. AskTypes'
    BY <1>2 DEF AskInv, AskTypes, Broker!TryWorkspaceRules, Decisions
  <2>2. Alone(k)
    BY <1>2 DEF AskInv, AskTypes, Broker!TryWorkspaceRules, Alone
  <2>3. Settled(k)'
    BY <1>2 DEF AskInv, AskTypes, Broker!TryWorkspaceRules, Settled, Unasked, Undecided, Decides, Returned, Said, Decisions
  <2> QED
    BY <2>1, <2>2, <2>3, OneAsk
<1>3. CASE Broker!Remember(k)
  <2>1. AskTypes' /\ Alone(k)
    BY <1>3 DEF AskInv, AskTypes, Broker!Remember, Alone
  <2>2. Settled(k)'
    BY <1>3 DEF AskInv, AskTypes, Broker!Remember, Settled, Unasked, Undecided, Decides, Returned, Said, Broker!Answer
  <2> QED
    BY <2>1, <2>2, OneAsk
<1> QED
  BY <1>1, <1>2, <1>3

LEMMA AsksWaits ==
  ASSUME AskInv, NEW k \in Asks,
         Broker!Register(k) \/ Broker!Test(k) \/ Broker!Listen(k) \/ Broker!Receive(k) \/ Broker!Drop(k)
  PROVE  AskInv'
<1> USE DEF Broker!Goto, Broker!Return, Broker!broker, Broker!asking, Broker!rules
<1>1. AskTypes'
  BY DEF AskInv, AskTypes, Broker!Register, Broker!Test, Broker!Listen, Broker!Receive, Broker!Drop, Broker!Answer
<1>2. Alone(k)
  BY DEF AskInv, AskTypes, Broker!Register, Broker!Test, Broker!Listen, Broker!Receive, Broker!Drop, Alone
<1>3. CASE Broker!Register(k)
  BY <1>3 DEF AskInv, AskTypes, Broker!Register, Settled, Unasked, Undecided, Decides, Returned, Said, Broker!Answer
<1>4. CASE Broker!Test(k) \/ Broker!Listen(k) \/ Broker!Drop(k)
  BY <1>4 DEF AskInv, AskTypes, Broker!Test, Broker!Listen, Broker!Drop, Settled, Unasked, Undecided, Decides,
     Returned, Said, Broker!Answer
<1>5. CASE Broker!Receive(k)
  BY <1>5 DEF AskInv, AskTypes, Broker!Receive, Settled, Unasked, Undecided, Decides, Returned, Said, Broker!Answer
<1> QED
  BY <1>1, <1>2, <1>3, <1>4, <1>5, OneAsk

LEMMA AsksEnds ==
  ASSUME AskInv, NEW k \in Asks, Broker!Lapse(k) \/ Broker!Cleanup(k)
  PROVE  AskInv'
<1> USE DEF Broker!Goto, Broker!Return, Broker!broker, Broker!asking, Broker!rules
<1>1. PICK decision \in {"timeout", "cancel"} :
        /\ toldTo' \in [Asks -> SUBSET Decisions]
        /\ \/ toldTo'[k] = toldTo[k]
           \/ toldTo'[k] = toldTo[k] \cup {decision} /\ k \in pending
        /\ \A x \in Asks \ {k} : toldTo'[x] = toldTo[x]
        /\ UNCHANGED <<channel, holder, edit>> /\ pending' \in {pending, pending \ {k}}
        /\ \/ Broker!Goto(k, "late") /\ k \notin pending /\ UNCHANGED <<pending, verdict, toldTo>>
           \/ Broker!Goto(k, "gone") /\ pending' = pending \ {k} /\ UNCHANGED verdict /\ decision = "cancel"
           \/ /\ Broker!Goto(k, "done") /\ k \in pending /\ pending' = pending \ {k}
              /\ verdict' = [verdict EXCEPT ![k] = IF decision = "timeout" THEN "timeout" ELSE "deny"]
        /\ waiter[k] \in {"select", "left"}
  <2>1. CASE Broker!Lapse(k) /\ k \in pending
    <3>1. "timeout" \in Decisions /\ "cancel" \in Decisions
      BY DEF Decisions
    <3>2. UNCHANGED <<channel, holder, edit>> /\ pending' = pending \ {k} /\ waiter[k] = "select"
      BY <2>1 DEF Broker!Lapse
    <3>3. CASE Broker!Persist(k, "timeout") /\ Broker!Return(k, "timeout")
      BY <2>1, <3>1, <3>2, <3>3, Tells
    <3>4. CASE Broker!Persist(k, "cancel") /\ Broker!Return(k, "deny")
      BY <2>1, <3>1, <3>2, <3>4, Tells
    <3> QED
      BY <2>1, <3>3, <3>4 DEF Broker!Lapse
  <2>2. CASE Broker!Lapse(k) /\ k \notin pending
    BY <2>2 DEF Broker!Lapse, AskInv, AskTypes
  <2>3. CASE Broker!Cleanup(k)
    <3>1. "cancel" \in Decisions
      BY DEF Decisions
    <3>2. UNCHANGED <<channel, holder, edit, verdict>> /\ pending' = pending \ {k} /\ waiter[k] = "left" /\ Broker!Goto(k, "gone")
      BY <2>3 DEF Broker!Cleanup
    <3>3. CASE k \in pending
      BY <2>3, <3>1, <3>2, <3>3, Tells DEF Broker!Cleanup
    <3>4. CASE k \notin pending
      BY <2>3, <3>2, <3>4 DEF Broker!Cleanup, AskInv, AskTypes
    <3> QED
      BY <3>3, <3>4
  <2> QED
    BY <2>1, <2>2, <2>3
<1>2. AskTypes'
  BY <1>1 DEF AskInv, AskTypes
<1>3. Alone(k)
  BY <1>1 DEF AskInv, AskTypes, Alone
<1>4. Settled(k)'
  BY <1>1 DEF AskInv, AskTypes, Settled, Unasked, Undecided, Decides, Returned, Said, Broker!Answer
<1> QED
  BY <1>2, <1>3, <1>4, OneAsk

LEMMA AsksAnswered ==
  ASSUME AskInv, NEW k \in Asks,
         Broker!Respond(k, "allow") \/ Broker!Respond(k, "deny") \/ Broker!Send(k)
  PROVE  AskInv'
<1> USE DEF Broker!broker, Broker!asking, Broker!rules
<1>1. AskTypes' /\ Alone(k)
  BY DEF AskInv, AskTypes, Alone, Broker!Respond, Broker!Send
<1>2. CASE Broker!Send(k)
  BY <1>2 DEF AskInv, AskTypes, Broker!Send, Settled, Unasked, Undecided, Decides, Returned, Said, Broker!Answer
<1>3. CASE Broker!Respond(k, "allow") \/ Broker!Respond(k, "deny")
  BY <1>3 DEF AskInv, AskTypes, Broker!Respond, Settled, Unasked, Undecided, Decides, Returned, Said, Broker!Answer
<1> QED
  BY <1>1, <1>2, <1>3, OneAsk

LEMMA AsksRecorded ==
  ASSUME AskInv, NEW k \in Asks, Broker!Record(k) \/ Broker!RecordSwept(k)
  PROVE  AskInv'
<1> USE DEF Broker!broker, Broker!asking, Broker!rules
<1>1. CASE Broker!Record(k)
  <2> DEFINE decision == IF holder[k] = "lost" THEN "cancel" ELSE holder[k]
  <2>1. holder[k] \in {"allow", "deny", "lost"} /\ decision \in Decisions /\ Broker!Persist(k, decision)
    BY <1>1 DEF Broker!Record, Decisions
  <2>2. /\ UNCHANGED <<pending, channel, waiter, verdict>> /\ holder' = [holder EXCEPT ![k] = "none"]
        /\ edit' = edit \/ edit' = [edit EXCEPT ![k] = "fetch"]
        /\ channel[k] # "open"
    BY <1>1 DEF Broker!Record, Broker!Turn
  <2> HIDE DEF decision
  <2>3. AskTypes'
    BY <2>1, <2>2, Tells DEF AskInv, AskTypes
  <2>4. Alone(k)
    BY <2>1, <2>2, Tells DEF AskInv, AskTypes, Alone, Broker!Editors
  <2>5. toldTo'[k] \in {toldTo[k], toldTo[k] \cup {decision}}
    BY <2>1, Tells
  <2>6. Settled(k)'
    BY <2>1, <2>2, <2>5 DEF AskInv, AskTypes, Settled, Unasked, Undecided, Decides, Returned, Said, Broker!Answer, decision
  <2> QED
    BY <2>3, <2>4, <2>6, OneAsk
<1>2. CASE Broker!RecordSwept(k)
  <2>1. "cancel" \in Decisions /\ Broker!Persist(k, "cancel")
    BY <1>2 DEF Broker!RecordSwept, Decisions
  <2>2. AskTypes' /\ Alone(k)
    BY <1>2, <2>1, Tells DEF AskInv, AskTypes, Alone, Broker!RecordSwept
  <2>3. toldTo'[k] \in {toldTo[k], toldTo[k] \cup {"cancel"}}
    BY <2>1, Tells
  <2>4. Settled(k)'
    BY <1>2, <2>3 DEF AskInv, AskTypes, Settled, Unasked, Undecided, Decides, Returned, Said, Broker!Answer, Broker!RecordSwept
  <2> QED
    BY <2>2, <2>4, OneAsk
<1> QED
  BY <1>1, <1>2

\* The editors of the rules: an edit that ends in a verdict is of a question
\* whose rules were asked.
LEMMA AsksEdits ==
  ASSUME AskInv, NEW e \in Broker!Editors,
         Broker!Fetch(e) \/ Broker!Load(e) \/ Broker!Fill(e) \/ Broker!Save(e) \/ Broker!Insert(e)
  PROVE  AskInv'
<1> USE DEF Broker!Editors, Broker!Turn, Broker!Return, Broker!Goto, Broker!broker, Broker!asking, Broker!rules
<1>1. AskTypes'
  BY DEF AskInv, AskTypes, Broker!Fetch, Broker!Load, Broker!Fill, Broker!Save, Broker!Insert
<1>2. UNCHANGED <<pending, channel, holder, toldTo>>
  BY DEF Broker!Fetch, Broker!Load, Broker!Fill, Broker!Save, Broker!Insert
<1>3. \A x \in Asks : x # e => waiter'[x] = waiter[x] /\ verdict'[x] = verdict[x] /\ edit'[x] = edit[x]
  BY DEF AskInv, AskTypes, Broker!Fetch, Broker!Load, Broker!Fill, Broker!Save, Broker!Insert
<1>4. CASE e \in Asks
  <2>1. Alone(e)
    BY <1>2, <1>3 DEF Alone
  <2>2. CASE Broker!Fetch(e) \/ Broker!Load(e) \/ Broker!Fill(e)
    BY <1>2, <1>4, <2>2 DEF AskInv, AskTypes, Settled, Unasked, Undecided, Decides, Returned, Said, Broker!Answer,
       Broker!Fetch, Broker!Load, Broker!Fill
  <2>3. CASE Broker!Save(e)
    BY <1>2, <1>4, <2>3 DEF AskInv, AskTypes, Settled, Unasked, Undecided, Decides, Returned, Said, Broker!Answer, Broker!Save
  <2>4. CASE Broker!Insert(e)
    BY <1>2, <1>4, <2>4 DEF AskInv, AskTypes, Settled, Unasked, Undecided, Decides, Returned, Said, Broker!Answer, Broker!Insert
  <2> QED
    BY <1>1, <1>4, <2>1, <2>2, <2>3, <2>4, OneAsk
<1>5. CASE e \notin Asks
  BY <1>1, <1>2, <1>3, <1>5, Untouched DEF AskInv
<1> QED
  BY <1>4, <1>5

LEMMA AskStep ==
  ASSUME AskInv, Broker!NextApproval
  PROVE  AskInv'
<1> USE DEF Broker!broker, Broker!asking, Broker!rules
<1>1. CASE Broker!BeginRevoke \/ Broker!Revoke
  <2>1. /\ UNCHANGED <<pending, channel, holder, waiter, verdict, toldTo>>
        /\ edit' \in {edit, [edit EXCEPT ![Revoker] = "fetch"], [edit EXCEPT ![Revoker] = "no"],
                      [edit EXCEPT ![Revoker] = "save"]}
    BY <1>1 DEF Broker!BeginRevoke, Broker!Revoke, Broker!Turn
  <2>2. AskTypes' /\ \A k \in Asks : edit'[k] = edit[k]
    BY <2>1, ApprovalAssumption DEF AskInv, AskTypes, Broker!Editors
  <2> QED
    BY <2>1, <2>2, Untouched DEF AskInv
<1>2. CASE Broker!Cancel \/ Broker!Notify
  <2>1. UNCHANGED <<pending, channel, holder, waiter, verdict, toldTo, edit>>
    BY <1>2 DEF Broker!Cancel, Broker!Notify
  <2> QED
    BY <2>1, Untouched DEF AskInv, AskTypes
<1>3. CASE Broker!Sweep
  <2>1. AskTypes'
    BY <1>3 DEF AskInv, AskTypes, Broker!Sweep
  <2>2. ASSUME NEW k \in Asks
        PROVE  Settled(k)'
    BY <1>3 DEF AskInv, AskTypes, Settled, Unasked, Undecided, Decides, Returned, Said, Broker!Answer, Broker!Sweep
  <2> QED
    BY <2>1, <2>2 DEF AskInv
<1>4. CASE Broker!EndSweep
  <2>1. AskTypes'
    BY <1>4 DEF AskInv, AskTypes, Broker!EndSweep
  <2>2. ASSUME NEW k \in Asks
        PROVE  Settled(k)'
    BY <1>4 DEF AskInv, AskTypes, Settled, Unasked, Undecided, Decides, Returned, Said, Broker!Answer, Broker!EndSweep
  <2> QED
    BY <2>1, <2>2 DEF AskInv
<1> QED
  BY <1>1, <1>2, <1>3, <1>4, AsksRules, AsksWaits, AsksEnds, AsksAnswered, AsksRecorded, AsksEdits
     DEF Broker!NextApproval

\* Whoever takes the entry of a question decides, alone: what the Session was
\* told of it is what its command did, however the answer, the timeout, the
\* abort, the sweep and the drop of the future meet (wait, respond_ext,
\* cancel_session), and whichever write of the decision failed.
THEOREM RecordedIsActedHolds == ServicesSpec => []RecordedIsActed
<1>1. ServicesInit => AskInv
  BY AskInit, Chosen
<1>2. AskInv /\ UNCHANGED approvals => AskInv'
  BY Untouched DEF AskInv, AskTypes, approvals
<1>3. (component = "approval" => AskInv) /\ [ServicesNext]_services => (component = "approval" => AskInv)'
  BY <1>2, AskStep, Chosen
<1>4. ASSUME NEW S, NEW d, S \subseteq {d}
      PROVE  Broker!Cardinality(S) < 2
  <2>1. Cardinality(S) \in {0, 1}
    <3>1. S = {} \/ S = {d}
      BY <1>4
    <3> QED
      BY <3>1, FS_EmptySet, FS_Singleton
  <2> QED
    BY <2>1 DEF Broker!Cardinality, Cardinality
<1>5. AskInv => Broker!RecordedIsActed
  <2> SUFFICES ASSUME AskInv, NEW k \in Asks
               PROVE  CASE verdict[k] = "allow" -> Said(k) \subseteq {"allow"}
                        [] verdict[k] = "deny" -> Said(k) \subseteq {"deny", "cancel"} /\ Broker!Cardinality(Said(k)) < 2
                        [] verdict[k] = "timeout" -> Said(k) \subseteq {"timeout"}
                        [] verdict[k] = "rule" -> toldTo[k] = {"rule_allow"}
                        [] OTHER -> Broker!Cardinality(Said(k)) < 2
    BY DEF Broker!RecordedIsActed, Said
  <2>1. \E d : Said(k) \subseteq {d}
    BY DEF AskInv, AskTypes, Settled, Decides
  <2>2. Broker!Cardinality(Said(k)) < 2
    BY <1>4, <2>1
  <2> QED
    BY <2>2 DEF AskInv, AskTypes, Settled, Decides, Returned, Broker!Answer
<1>6. (component = "approval" => AskInv) => RecordedIsActed
  BY <1>5 DEF RecordedIsActed
<1> QED
  BY <1>1, <1>3, <1>6, PTL DEF ServicesSpec

-----------------------------------------------------------------------------
(* Timed messages *)

JobRecords == [once : BOOLEAN, fire : Nat \ {0}, enabled : BOOLEAN, claimed : Nat]
Ticks == {Timer!Idle} \cup [at : {"claim"}, job : Jobs, now : Nat]
           \cup [at : {"enqueue"}, job : Jobs, now : Nat, id : Nat \ {0}]
           \cup [at : {"ack", "rollback"}, job : Jobs, now : Nat, id : Nat \ {0}, pushed : BOOLEAN]
Dispatching == {"enqueue", "ack", "rollback"}

\* No occurrence is claimed that lies beyond.
Latest == IF tick.at = "idle" THEN clock ELSE tick.now
Handled == IF tick.at \in Dispatching THEN {<<tick.job, tick.id>>} ELSE {}

ScheduleTypes(S) ==
  /\ DOMAIN S \subseteq Jobs \ unused /\ S = [j \in DOMAIN S |-> S[j]]
  /\ \A j \in DOMAIN S : S[j] \in JobRecords /\ S[j].claimed <= Latest

TimerTypes ==
  /\ jobs \in jobsMay /\ IsFiniteSet(jobsMay) /\ \A S \in jobsMay : ScheduleTypes(S)
  /\ queue \in queueMay /\ IsFiniteSet(queueMay)
  /\ storeBlocked \in BOOLEAN /\ queueBlocked \in BOOLEAN
  /\ tick \in Ticks /\ clock \in Nat /\ Latest <= clock

\* A schedule claims the occurrence, or has moved past it.
ClaimedIn(S, x) == x[1] \in DOMAIN S /\ S[x[1]].claimed = x[2]
PassedIn(S, x) ==
  x[1] \in DOMAIN S =>
    /\ S[x[1]].claimed # x[2]
    /\ S[x[1]].fire > x[2] \/ (~ S[x[1]].enabled /\ clock >= Horizon)

OccurrenceOK(x) ==
  /\ x[1] \notin unused /\ x[2] \in Nat \ {0} /\ x[2] <= Latest
  /\ \A S \in jobsMay : ClaimedIn(S, x) \/ PassedIn(S, x)

\* What was run is neither in a queue nor in the hands of the tick, and every
\* schedule has moved past it; or its job was removed.
RanOK(x) ==
  \/ x[1] \in removed
  \/ /\ \A Q \in queueMay : x \notin Q
     /\ x \notin Handled
     /\ \A S \in jobsMay : PassedIn(S, x)

ScheduleOK ==
  /\ ~ storeBlocked => jobsMay = {jobs}
  /\ \A Q \in queueMay : \A x \in Q : OccurrenceOK(x)
  /\ \A x \in ran : OccurrenceOK(x) /\ RanOK(x)
  /\ \A x \in Handled : OccurrenceOK(x) /\ (tick.at = "enqueue" => ClaimedIn(jobs, x) \/ x[1] \in removed)

\* What the schedule has moved past is in every queue that may be left, or
\* was run, or cleared; and what is taken back was not moved past.
LeftOK ==
  /\ ~ queueBlocked => queueMay = {queue}
  /\ \A x \in left : x \in ran \cup dropped \/ \A Q \in queueMay : x \in Q
  /\ \A x \in Handled :
       /\ tick.at = "ack" => \A Q \in queueMay : x \in Q
       /\ tick.at = "rollback" \/ (tick.at = "ack" /\ tick.pushed) => (x \in left => x \in ran \cup dropped)

TimerInv ==
  /\ TimerTypes
  /\ "schedule" \in guessed \/ ScheduleOK
  /\ "queue" \in guessed \/ LeftOK
  /\ \A x \in ranAgain : x[1] \in removed \/ "schedule" \in guessed

LEMMA TimerInit == Timer!InitSchedule => TimerInv
<1> SUFFICES ASSUME Timer!InitSchedule
             PROVE  TimerInv
  OBVIOUS
<1>1. /\ jobs = [j \in {} |-> [once |-> FALSE, fire |-> 0, enabled |-> TRUE, claimed |-> 0]] /\ jobsMay = {jobs}
      /\ queue = {} /\ queueMay = {{}} /\ storeBlocked = FALSE /\ queueBlocked = FALSE
      /\ tick = Timer!Idle /\ clock = 0 /\ left = {} /\ ran = {} /\ ranAgain = {}
  BY DEF Timer!InitSchedule
<1>2. DOMAIN jobs = {} /\ tick.at = "idle" /\ tick \in Ticks
  BY <1>1 DEF Timer!Idle, Ticks
<1>3. ScheduleTypes(jobs)
  BY <1>1, <1>2 DEF ScheduleTypes
<1>4. TimerTypes
  <2>1. IsFiniteSet(jobsMay) /\ IsFiniteSet(queueMay)
    BY <1>1, FS_Singleton
  <2>2. jobs \in jobsMay /\ \A S \in jobsMay : ScheduleTypes(S)
    BY <1>1, <1>3
  <2>3. Latest = 0
    BY <1>1, <1>2 DEF Latest
  <2>4. storeBlocked \in BOOLEAN /\ queueBlocked \in BOOLEAN
    BY <1>1
  <2>5. queue \in queueMay /\ clock \in Nat /\ Latest <= clock
    BY <1>1, <2>3
  <2> QED
    BY <1>2, <2>1, <2>2, <2>4, <2>5 DEF TimerTypes
<1> QED
  BY <1>1, <1>2, <1>4 DEF TimerInv, ScheduleOK, LeftOK, Handled, Dispatching

\* A new schedule that claims what was claimed, or has moved past it, and has
\* moved past all that the old one had.
Follows(S) ==
  \A x : x[1] \notin unused /\ x[2] \in Nat \ {0} /\ x[2] <= Latest =>
    /\ PassedIn(jobs, x) => PassedIn(S, x)
    /\ ClaimedIn(jobs, x) => ClaimedIn(S, x) \/ PassedIn(S, x)

MutatesTo(S) ==
  \/ jobs' = S /\ jobsMay' = {S} /\ UNCHANGED storeBlocked
  \/ UNCHANGED <<jobs, jobsMay, storeBlocked>>
  \/ jobs' = S /\ jobsMay' = jobsMay \cup {S} /\ storeBlocked' = TRUE

\* What is known of an occurrence survives a write of the schedule.
LEMMA OccurrenceStays ==
  ASSUME TimerTypes, NEW S, Follows(S), MutatesTo(S), unused' \subseteq unused, clock' = clock,
         Latest \in Nat, Latest' \in Nat, Latest <= Latest', NEW x, OccurrenceOK(x)
  PROVE  /\ OccurrenceOK(x)'
         /\ (\A T \in jobsMay : PassedIn(T, x)) => \A T \in jobsMay' : PassedIn(T, x)'
<1>1. jobs \in jobsMay /\ \A T \in jobsMay' : T \in jobsMay \/ T = S
  BY DEF TimerTypes, MutatesTo
<1>2. \A T : (PassedIn(T, x)' <=> PassedIn(T, x)) /\ (ClaimedIn(T, x)' <=> ClaimedIn(T, x))
  BY DEF PassedIn, ClaimedIn
<1>3. /\ PassedIn(jobs, x) => PassedIn(S, x)
      /\ ClaimedIn(jobs, x) => ClaimedIn(S, x) \/ PassedIn(S, x)
  BY DEF Follows, OccurrenceOK
<1>4. x[1] \notin unused' /\ x[2] \in Nat \ {0} /\ x[2] <= Latest'
  BY DEF OccurrenceOK
<1>5. \A T \in jobsMay' : ClaimedIn(T, x)' \/ PassedIn(T, x)'
  BY <1>1, <1>2, <1>3 DEF OccurrenceOK
<1>6. (\A T \in jobsMay : PassedIn(T, x)) => \A T \in jobsMay' : PassedIn(T, x)'
  BY <1>1, <1>2, <1>3
<1> QED
  BY <1>4, <1>5, <1>6 DEF OccurrenceOK

LEMMA ScheduleTypesStay ==
  ASSUME TimerTypes, NEW S, ScheduleTypes(S)', MutatesTo(S), unused' \subseteq unused,
         Latest \in Nat, Latest' \in Nat, Latest <= Latest'
  PROVE  jobs' \in jobsMay' /\ IsFiniteSet(jobsMay') /\ \A T \in jobsMay' : ScheduleTypes(T)'
<1>1. jobs' \in jobsMay' /\ \A T \in jobsMay' : T \in jobsMay \/ T = S
  BY DEF TimerTypes, MutatesTo
<1>2. IsFiniteSet(jobsMay')
  <2>1. IsFiniteSet(jobsMay) /\ IsFiniteSet({S}) /\ IsFiniteSet(jobsMay \cup {S})
    BY FS_Singleton, FS_AddElement DEF TimerTypes
  <2>2. jobsMay' \in {jobsMay, {S}, jobsMay \cup {S}}
    BY DEF MutatesTo
  <2> QED
    BY <2>1, <2>2
<1>3. ASSUME NEW T \in jobsMay
      PROVE  ScheduleTypes(T)'
  <2>1. ScheduleTypes(T)
    BY DEF TimerTypes
  <2>2. ASSUME NEW j \in DOMAIN T
        PROVE  T[j].claimed <= Latest'
    <3>1. T[j].claimed \in Nat /\ T[j].claimed <= Latest
      BY <2>1 DEF ScheduleTypes, JobRecords
    <3> QED
      BY <3>1
  <2> QED
    BY <2>1, <2>2 DEF ScheduleTypes
<1> QED
  BY <1>1, <1>2, <1>3

LEMMA LatestOf ==
  ASSUME TimerTypes
  PROVE  Latest \in Nat /\ Latest <= clock /\ (tick.at # "idle" => Latest = tick.now /\ tick.job \in Jobs)
<1>1. tick.at # "idle" => tick.now \in Nat /\ tick.job \in Jobs
  <2>1. tick = Timer!Idle => tick.at = "idle"
    BY DEF Timer!Idle
  <2> QED
    BY <2>1 DEF TimerTypes, Ticks
<1> QED
  BY <1>1 DEF TimerTypes, Latest

\* One job of a schedule is written anew.
LEMMA OneJob ==
  ASSUME TimerTypes, NEW j \in DOMAIN jobs, NEW r \in JobRecords, unused' = unused,
         Latest \in Nat, Latest' \in Nat, Latest <= Latest', r.claimed <= Latest', NEW S, S = [jobs EXCEPT ![j] = r],
         \A o \in Nat \ {0} : o <= Latest =>
           /\ jobs[j].claimed # o /\ (jobs[j].fire > o \/ (~ jobs[j].enabled /\ clock >= Horizon)) =>
                r.claimed # o /\ (r.fire > o \/ (~ r.enabled /\ clock >= Horizon))
           /\ jobs[j].claimed = o => r.claimed = o \/ r.fire > o \/ (~ r.enabled /\ clock >= Horizon)
  PROVE  ScheduleTypes(S)' /\ Follows(S)
<1>1. ScheduleTypes(jobs)
  BY DEF TimerTypes
<1>2. DOMAIN S = DOMAIN jobs /\ S[j] = r /\ \A k \in DOMAIN jobs : k # j => S[k] = jobs[k]
  BY <1>1 DEF ScheduleTypes
<1>3. S = [k \in DOMAIN S |-> S[k]]
  BY <1>1 DEF ScheduleTypes
<1>4. ASSUME NEW k \in DOMAIN S
      PROVE  S[k] \in JobRecords /\ S[k].claimed <= Latest'
  <2>1. CASE k = j
    BY <1>2, <2>1
  <2>2. CASE k # j
    <3>1. jobs[k] \in JobRecords /\ jobs[k].claimed <= Latest /\ jobs[k].claimed \in Nat
      BY <1>1, <1>2, <1>4 DEF ScheduleTypes, JobRecords
    <3> QED
      BY <1>2, <1>4, <2>2, <3>1
  <2> QED
    BY <2>1, <2>2
<1>5. ScheduleTypes(S)'
  BY <1>1, <1>2, <1>3, <1>4 DEF ScheduleTypes
<1>6. Follows(S)
  <2> SUFFICES ASSUME NEW x, x[2] \in Nat \ {0}, x[2] <= Latest
               PROVE  /\ PassedIn(jobs, x) => PassedIn(S, x)
                      /\ ClaimedIn(jobs, x) => ClaimedIn(S, x) \/ PassedIn(S, x)
    BY DEF Follows
  <2>1. CASE x[1] = j
    BY <1>2, <2>1 DEF PassedIn, ClaimedIn
  <2>2. CASE x[1] # j
    BY <1>2, <2>2 DEF PassedIn, ClaimedIn
  <2> QED
    BY <2>1, <2>2
<1> QED
  BY <1>5, <1>6

\* A write of the schedule that nobody waits for.
LEMMA TimerMutates ==
  ASSUME TimerInv, NEW S, ScheduleTypes(S)', Follows(S), Timer!Mutates(S), unused' \subseteq unused,
         removed \subseteq removed',
         \A x \in Handled : jobs' = jobs \/ (ClaimedIn(jobs, x) => ClaimedIn(S, x)) \/ x[1] \in removed'
  PROVE  TimerInv'
<1>1. /\ ~ storeBlocked /\ MutatesTo(S) /\ (storeBlocked' \/ (jobsMay' = {S} /\ jobs' = S) \/ UNCHANGED <<jobs, jobsMay>>)
      /\ storeBlocked' \in BOOLEAN /\ jobs' \in {jobs, S}
      /\ UNCHANGED <<queue, queueMay, queueBlocked, tick, clock, left, ran, ranAgain, dropped, guessed, starts>>
  BY DEF Timer!Mutates, MutatesTo, Timer!Committed, Timer!NotCommitted, Timer!Indeterminate, Timer!Fault, TimerInv, TimerTypes
<1>2. TimerTypes /\ Latest' = Latest /\ Latest \in Nat /\ Handled' = Handled
  BY <1>1, LatestOf DEF TimerInv, Latest, Handled
<1>3. TimerTypes'
  BY <1>1, <1>2, ScheduleTypesStay DEF TimerTypes
<1>4. ASSUME ScheduleOK
      PROVE  ScheduleOK'
  <2>1. ASSUME NEW x, OccurrenceOK(x)
        PROVE  /\ OccurrenceOK(x)'
               /\ (\A T \in jobsMay : PassedIn(T, x)) => \A T \in jobsMay' : PassedIn(T, x)'
    BY <1>1, <1>2, <2>1, OccurrenceStays
  <2>2. ~ storeBlocked' => jobsMay' = {jobs'}
    BY <1>1, <1>4 DEF ScheduleOK
  <2>3. \A x \in ran : OccurrenceOK(x)' /\ RanOK(x)'
    BY <1>1, <1>2, <1>4, <2>1 DEF ScheduleOK, RanOK
  <2>4. \A x \in Handled : OccurrenceOK(x)' /\ (tick.at = "enqueue" => ClaimedIn(jobs', x) \/ x[1] \in removed')
    BY <1>1, <1>4, <2>1 DEF ScheduleOK
  <2>5. \A Q \in queueMay : \A x \in Q : OccurrenceOK(x)'
    BY <1>4, <2>1 DEF ScheduleOK
  <2> QED
    BY <1>1, <1>2, <2>2, <2>3, <2>4, <2>5 DEF ScheduleOK, ClaimedIn
<1>5. LeftOK => LeftOK'
  BY <1>1, <1>2 DEF LeftOK
<1> QED
  BY <1>1, <1>3, <1>4, <1>5 DEF TimerInv

LEMMA TimerAdds ==
  ASSUME TimerInv, NEW j \in Jobs, NEW once \in BOOLEAN, Timer!Add(j, once)
  PROVE  TimerInv'
<1> DEFINE r == [once |-> once, fire |-> Timer!Next(clock), enabled |-> TRUE, claimed |-> 0]
<1>0. PICK S : S = [k \in DOMAIN jobs \cup {j} |-> IF k = j THEN r ELSE jobs[k]]
  OBVIOUS
<1>1. j \in unused /\ Timer!Next(clock) # 0 /\ unused' = unused \ {j} /\ removed' = removed /\ Timer!Mutates(S)
  BY <1>0 DEF Timer!Add
<1>2. TimerTypes /\ ScheduleTypes(jobs) /\ Latest' = Latest /\ Latest \in Nat /\ tick' = tick
  BY <1>1, LatestOf DEF TimerInv, TimerTypes, Timer!Mutates, Latest
<1>3. r \in JobRecords /\ r.claimed = 0
  BY <1>1, <1>2, ScheduleAssumption DEF JobRecords, Timer!Next, TimerTypes
<1>4. DOMAIN S = DOMAIN jobs \cup {j} /\ S = [k \in DOMAIN S |-> S[k]] /\ S[j] = r /\ \A k \in DOMAIN jobs : k # j => S[k] = jobs[k]
  BY <1>0
<1> HIDE DEF r
<1>5. ScheduleTypes(S)'
  BY <1>1, <1>2, <1>3, <1>4 DEF ScheduleTypes
<1>6. Follows(S)
  BY <1>1, <1>4 DEF Follows, PassedIn, ClaimedIn
<1>7. \A x : x[1] # j => (ClaimedIn(jobs, x) => ClaimedIn(S, x))
  BY <1>4 DEF ClaimedIn
<1>8. \A x : ClaimedIn(jobs, x) => ClaimedIn(S, x)
  BY <1>1, <1>2, <1>7 DEF ClaimedIn, ScheduleTypes
<1> QED
  BY <1>1, <1>5, <1>6, <1>8, TimerMutates

LEMMA TimerRemoves ==
  ASSUME TimerInv, NEW j \in Jobs, Timer!Remove(j)
  PROVE  TimerInv'
<1>0. PICK S : S = Timer!Restrict(jobs, DOMAIN jobs \ {j})
  OBVIOUS
<1>1. Timer!Mutates(S) /\ unused' = unused /\ removed' = removed \cup (DOMAIN jobs \ DOMAIN jobs') /\ j \in DOMAIN jobs
  BY <1>0 DEF Timer!Remove, Timer!Known
<1>2. TimerTypes /\ ScheduleTypes(jobs) /\ Latest' = Latest /\ Latest \in Nat /\ tick' = tick /\ jobs' \in {jobs, S}
  BY <1>1, LatestOf DEF TimerInv, TimerTypes, Timer!Mutates, Timer!Committed, Timer!NotCommitted, Timer!Indeterminate, Latest
<1>3. S = [k \in DOMAIN jobs \ {j} |-> jobs[k]]
  BY <1>0 DEF Timer!Restrict
<1>4. DOMAIN S = DOMAIN jobs \ {j} /\ S = [k \in DOMAIN S |-> S[k]] /\ \A k \in DOMAIN S : S[k] = jobs[k]
  BY <1>3
<1>5. ScheduleTypes(S)'
  BY <1>1, <1>2, <1>4 DEF ScheduleTypes
<1>6. Follows(S)
  BY <1>4 DEF Follows, PassedIn, ClaimedIn
<1>7. jobs' = jobs \/ j \in removed'
  BY <1>1, <1>2, <1>4
<1>8. \A x : jobs' = jobs \/ (ClaimedIn(jobs, x) => ClaimedIn(S, x)) \/ x[1] \in removed'
  BY <1>4, <1>7 DEF ClaimedIn
<1> QED
  BY <1>1, <1>5, <1>6, <1>8, TimerMutates

LEMMA JobOf ==
  ASSUME TimerInv, NEW j \in DOMAIN jobs
  PROVE  /\ jobs[j] \in JobRecords /\ jobs[j].claimed <= Latest /\ jobs[j].fire \in Nat \ {0} /\ jobs[j].claimed \in Nat
         /\ j \in Jobs /\ j \notin unused
<1>1. jobs[j] \in JobRecords /\ jobs[j].claimed <= Latest /\ j \in Jobs /\ j \notin unused
  BY DEF TimerInv, TimerTypes, ScheduleTypes
<1> QED
  BY <1>1 DEF JobRecords

LEMMA TimerPauses ==
  ASSUME TimerInv, NEW j \in Jobs, Timer!Pause(j)
  PROVE  TimerInv'
<1>0. PICK r, S : r = [jobs[j] EXCEPT !.enabled = FALSE] /\ S = [jobs EXCEPT ![j] = r]
  OBVIOUS
<1>1. j \in DOMAIN jobs /\ UNCHANGED <<unused, removed>> /\ Timer!Mutates(S)
  BY <1>0 DEF Timer!Pause, Timer!Known
<1>2. TimerTypes /\ Latest' = Latest /\ Latest \in Nat /\ tick' = tick
  BY <1>1, LatestOf DEF TimerInv, Timer!Mutates, Latest
<1>3. /\ r \in JobRecords /\ r.claimed = jobs[j].claimed /\ r.fire = jobs[j].fire /\ r.enabled = FALSE
      /\ r.claimed <= Latest'
  BY <1>0, <1>1, <1>2, JobOf DEF JobRecords
<1>4. ScheduleTypes(S)' /\ Follows(S)
  <2>1. S = [jobs EXCEPT ![j] = r] /\ Latest <= Latest'
    BY <1>0, <1>2
  <2> QED
    BY <1>1, <1>2, <1>3, <2>1, OneJob
<1>5. \A x : ClaimedIn(jobs, x) => ClaimedIn(S, x)
  BY <1>0, <1>1, <1>3 DEF ClaimedIn
<1> QED
  BY <1>1, <1>4, <1>5, TimerMutates

LEMMA TimerResumes ==
  ASSUME TimerInv, NEW j \in Jobs, Timer!Resume(j)
  PROVE  TimerInv'
<1>0. PICK r, S : r = [jobs[j] EXCEPT !.enabled = TRUE, !.fire = Timer!Next(clock)] /\ S = [jobs EXCEPT ![j] = r]
  OBVIOUS
<1>1. j \in DOMAIN jobs /\ UNCHANGED <<unused, removed>> /\ Timer!Mutates(S) /\ Timer!Next(clock) # 0
  BY <1>0 DEF Timer!Resume, Timer!Known
<1>2. TimerTypes /\ Latest' = Latest /\ Latest \in Nat /\ tick' = tick /\ Latest <= clock /\ clock \in Nat
  BY <1>1, LatestOf DEF TimerInv, TimerTypes, Timer!Mutates, Latest
<1>3. Timer!Next(clock) = clock + 1 /\ clock < Horizon
  BY <1>1, <1>2, ScheduleAssumption DEF Timer!Next
<1>4. /\ r \in JobRecords /\ r.claimed = jobs[j].claimed /\ r.fire = clock + 1 /\ r.enabled = TRUE
      /\ r.claimed <= Latest'
  <2>1. jobs[j] \in JobRecords /\ r = [jobs[j] EXCEPT !.enabled = TRUE, !.fire = clock + 1] /\ clock + 1 \in Nat \ {0}
    BY <1>0, <1>1, <1>2, <1>3, JobOf
  <2>2. \A g \in Nat \ {0}, x \in JobRecords :
          /\ [x EXCEPT !.enabled = TRUE, !.fire = g] \in JobRecords
          /\ [x EXCEPT !.enabled = TRUE, !.fire = g].claimed = x.claimed
          /\ [x EXCEPT !.enabled = TRUE, !.fire = g].fire = g /\ [x EXCEPT !.enabled = TRUE, !.fire = g].enabled = TRUE
    BY DEF JobRecords
  <2> QED
    BY <1>1, <1>2, <2>1, <2>2, JobOf
<1>5. ScheduleTypes(S)' /\ Follows(S)
  <2>1. S = [jobs EXCEPT ![j] = r] /\ Latest <= Latest'
    BY <1>0, <1>2
  <2>2. \A o \in Nat \ {0} : o <= Latest =>
          /\ jobs[j].claimed # o => r.claimed # o /\ r.fire > o
          /\ jobs[j].claimed = o => r.claimed = o
    BY <1>2, <1>4
  <2> QED
    BY <1>1, <1>2, <1>4, <2>1, <2>2, OneJob
<1>6. \A x : ClaimedIn(jobs, x) => ClaimedIn(S, x)
  BY <1>0, <1>1, <1>4 DEF ClaimedIn
<1> QED
  BY <1>1, <1>5, <1>6, TimerMutates

LEMMA TimerRecords ==
  ASSUME TimerInv, NEW j \in Jobs, Timer!Record(j)
  PROVE  TimerInv'
<1>1. UNCHANGED <<unused, removed>> /\ Timer!Mutates(jobs)
  BY DEF Timer!Record
<1>2. ScheduleTypes(jobs)'
  BY <1>1 DEF TimerInv, TimerTypes, ScheduleTypes, Timer!Mutates, Timer!Committed, Timer!NotCommitted, Timer!Indeterminate, Latest
<1>3. Follows(jobs)
  BY DEF Follows
<1> QED
  BY <1>1, <1>2, <1>3, TimerMutates DEF Timer!Mutates, Timer!Committed, Timer!NotCommitted, Timer!Indeterminate

\* The clock and the tick that begins.
LEMMA TimerPasses ==
  ASSUME TimerInv, Timer!Passes
  PROVE  TimerInv'
<1>1. /\ clock' = clock + 1
      /\ UNCHANGED <<jobs, jobsMay, storeBlocked, queue, queueMay, queueBlocked, tick, unused, left, ran, ranAgain, dropped, removed, guessed>>
  BY DEF Timer!Passes, Timer!history
<1>2. TimerTypes /\ Latest \in Nat /\ clock \in Nat /\ Handled' = Handled
  BY <1>1, LatestOf DEF TimerInv, TimerTypes, Handled
<1>3. Latest' \in Nat /\ Latest <= Latest' /\ Latest' <= clock'
  <2>1. Latest' = IF tick.at = "idle" THEN clock + 1 ELSE Latest
    BY <1>1 DEF Latest
  <2> QED
    BY <1>1, <1>2, <2>1 DEF Latest, TimerTypes
<1>4. \A T \in jobsMay : ScheduleTypes(T)'
  <2> SUFFICES ASSUME NEW T \in jobsMay
               PROVE  ScheduleTypes(T)'
    OBVIOUS
  <2>1. ScheduleTypes(T)
    BY <1>2 DEF TimerTypes
  <2>2. ASSUME NEW j \in DOMAIN T
        PROVE  T[j].claimed <= Latest'
    <3>1. T[j].claimed \in Nat /\ T[j].claimed <= Latest
      BY <2>1 DEF ScheduleTypes, JobRecords
    <3> QED
      BY <1>2, <1>3, <3>1
  <2> QED
    BY <1>1, <2>1, <2>2 DEF ScheduleTypes
<1>5. \A T, x : (PassedIn(T, x) => PassedIn(T, x)') /\ ClaimedIn(T, x)' = ClaimedIn(T, x)
  BY <1>1, <1>2, ScheduleAssumption DEF PassedIn, ClaimedIn
<1>6. ASSUME NEW x, OccurrenceOK(x)
      PROVE  OccurrenceOK(x)'
  BY <1>1, <1>2, <1>3, <1>5, <1>6 DEF OccurrenceOK
<1>7. TimerTypes'
  BY <1>1, <1>2, <1>3, <1>4 DEF TimerTypes
<1>8. \A x : RanOK(x) => RanOK(x)'
  BY <1>1, <1>2, <1>5 DEF RanOK
<1>9. ScheduleOK => ScheduleOK'
  BY <1>1, <1>2, <1>5, <1>6, <1>8 DEF ScheduleOK
<1>10. LeftOK => LeftOK'
  BY <1>1, <1>2 DEF LeftOK
<1> QED
  BY <1>1, <1>7, <1>9, <1>10 DEF TimerInv

\* The tick goes on, and neither file changes: no later occurrence is claimed
\* than before.
LEMMA TimerTicks ==
  ASSUME TimerInv, tick' \in Ticks, Latest <= Latest', Latest' \in Nat, Latest' <= clock,
         UNCHANGED <<jobs, jobsMay, storeBlocked, queue, queueMay, queueBlocked, clock, unused, left, ran, ranAgain,
                     dropped, removed, guessed>>,
         \A x \in Handled' :
           \/ x \in Handled /\ tick'.at # "enqueue" /\ (tick'.at = "ack" => tick.at = "ack")
              /\ (tick'.at = "rollback" => tick.at = "rollback" \/ (tick.at = "ack" /\ tick.pushed))
              /\ (tick'.at = "ack" /\ tick'.pushed => tick.pushed)
           \/ /\ tick'.at \notin {"ack", "rollback"}
              /\ ScheduleOK => OccurrenceOK(x) /\ ClaimedIn(jobs, x) /\ (x \in ran => x[1] \in removed)
           \/ /\ tick'.at = "ack" /\ ~ tick'.pushed /\ x \in Handled /\ (LeftOK => \A Q \in queueMay : x \in Q)
  PROVE  TimerInv'
<1>1. TimerTypes /\ Latest \in Nat
  BY LatestOf DEF TimerInv
<1>2. \A T \in jobsMay : ScheduleTypes(T)'
  <2> SUFFICES ASSUME NEW T \in jobsMay
               PROVE  ScheduleTypes(T)'
    OBVIOUS
  <2>1. ScheduleTypes(T)
    BY <1>1 DEF TimerTypes
  <2>2. ASSUME NEW j \in DOMAIN T
        PROVE  T[j].claimed <= Latest'
    <3>1. T[j].claimed \in Nat /\ T[j].claimed <= Latest
      BY <2>1 DEF ScheduleTypes, JobRecords
    <3> QED
      BY <1>1, <3>1
  <2> QED
    BY <2>1, <2>2 DEF ScheduleTypes
<1>3. TimerTypes'
  BY <1>1, <1>2 DEF TimerTypes
<1>4. \A T, x : PassedIn(T, x)' = PassedIn(T, x) /\ ClaimedIn(T, x)' = ClaimedIn(T, x)
  BY DEF PassedIn, ClaimedIn
<1>5. ASSUME NEW x, OccurrenceOK(x)
      PROVE  OccurrenceOK(x)'
  BY <1>1, <1>4, <1>5 DEF OccurrenceOK
<1>6. ASSUME ScheduleOK
      PROVE  ScheduleOK'
  <2>1. \A x \in Handled' : OccurrenceOK(x) /\ (tick'.at = "enqueue" => ClaimedIn(jobs, x))
                            /\ (x \in Handled \/ (x \in ran => x[1] \in removed))
    BY <1>6 DEF ScheduleOK
  <2>2. \A x \in ran : OccurrenceOK(x)' /\ RanOK(x)'
    BY <1>4, <1>5, <1>6, <2>1 DEF ScheduleOK, RanOK
  <2>3. \A x \in Handled' : OccurrenceOK(x)' /\ (tick'.at = "enqueue" => ClaimedIn(jobs', x))
    BY <1>5, <2>1
  <2> QED
    BY <1>5, <1>6, <2>2, <2>3 DEF ScheduleOK, ClaimedIn
<1>7. LeftOK => LeftOK'
  BY DEF LeftOK
<1> QED
  BY <1>3, <1>6, <1>7 DEF TimerInv

\* The tick writes the schedule: it is over, or has a delivery in hand.
LEMMA TimerMoves ==
  ASSUME TimerInv, NEW S, ScheduleTypes(S)', Follows(S), MutatesTo(S),
         ~ storeBlocked, storeBlocked' \/ (jobsMay' = {S} /\ jobs' = S) \/ UNCHANGED <<jobs, jobsMay>>,
         tick' \in Ticks, tick'.at \in {"idle", "enqueue"}, Latest <= Latest', Latest' \in Nat, Latest' <= clock,
         UNCHANGED <<queue, queueMay, queueBlocked, clock, unused, ran, ranAgain, dropped, removed, guessed>>,
         ScheduleOK => \A x \in Handled' : OccurrenceOK(x)' /\ ClaimedIn(jobs', x) /\ (x \in ran => x[1] \in removed),
         LeftOK => \A x \in left' : x \in left \/ \A Q \in queueMay : x \in Q
  PROVE  TimerInv'
<1>1. TimerTypes /\ Latest \in Nat
  BY LatestOf DEF TimerInv
<1>2. TimerTypes'
  <2>1. storeBlocked' \in BOOLEAN
    BY <1>1 DEF MutatesTo, TimerTypes
  <2> QED
    BY <1>1, <2>1, ScheduleTypesStay DEF TimerTypes
<1>3. ASSUME ScheduleOK
      PROVE  ScheduleOK'
  <2>1. ASSUME NEW x, OccurrenceOK(x)
        PROVE  /\ OccurrenceOK(x)'
               /\ (\A T \in jobsMay : PassedIn(T, x)) => \A T \in jobsMay' : PassedIn(T, x)'
    BY <1>1, <2>1, OccurrenceStays
  <2>2. ~ storeBlocked' => jobsMay' = {jobs'}
    BY <1>3 DEF ScheduleOK
  <2>3. \A x \in ran : OccurrenceOK(x)' /\ RanOK(x)'
    BY <1>3, <2>1 DEF ScheduleOK, RanOK
  <2>4. \A x \in Handled' : OccurrenceOK(x)' /\ ClaimedIn(jobs', x)
    BY <1>3
  <2>5. \A Q \in queueMay : \A x \in Q : OccurrenceOK(x)'
    BY <1>3, <2>1 DEF ScheduleOK
  <2> QED
    BY <2>2, <2>3, <2>4, <2>5 DEF ScheduleOK, ClaimedIn
<1>4. LeftOK => LeftOK'
  BY DEF LeftOK
<1> QED
  BY <1>2, <1>3, <1>4 DEF TimerInv

LEMMA TickOf ==
  ASSUME TimerInv
  PROVE  /\ tick.at = "claim" => tick \in [at : {"claim"}, job : Jobs, now : Nat]
         /\ tick.at = "enqueue" => tick \in [at : {"enqueue"}, job : Jobs, now : Nat, id : Nat \ {0}]
         /\ tick.at \in {"ack", "rollback"} =>
              tick \in [at : {"ack", "rollback"}, job : Jobs, now : Nat, id : Nat \ {0}, pushed : BOOLEAN]
         /\ tick.at # "idle" => Latest = tick.now
         /\ tick.at = "idle" => Latest = clock
         /\ clock \in Nat /\ Latest \in Nat /\ Latest <= clock
<1>1. tick = Timer!Idle => tick.at = "idle"
  BY DEF Timer!Idle
<1> QED
  BY <1>1 DEF TimerInv, TimerTypes, Ticks, Latest

\* What the tick is, once it is over.
LEMMA TickOver ==
  ASSUME TimerInv, Timer!Done, clock' = clock
  PROVE  tick' \in Ticks /\ tick'.at = "idle" /\ Handled' = {} /\ Latest' = clock /\ Latest' \in Nat /\ Latest <= Latest'
<1>1. tick' \in Ticks /\ tick'.at = "idle"
  BY DEF Timer!Done, Timer!Idle, Ticks
<1>2. Handled' = {} /\ Latest' = clock
  BY <1>1 DEF Handled, Dispatching, Latest
<1> QED
  BY <1>1, <1>2, TickOf

LEMMA TimerBegins ==
  ASSUME TimerInv, NEW j \in Jobs, Timer!Candidate(j)
  PROVE  TimerInv'
<1>1. /\ tick.at = "idle" /\ tick' = [at |-> "claim", job |-> j, now |-> clock]
      /\ UNCHANGED <<jobs, jobsMay, storeBlocked, queue, queueMay, queueBlocked, clock, unused, left, ran, ranAgain,
                     dropped, removed, guessed>>
  BY DEF Timer!Candidate, Timer!history, Timer!Idle
<1>2. clock \in Nat /\ Latest = clock
  BY <1>1, TickOf
<1>3. tick' \in Ticks /\ tick'.at = "claim" /\ tick'.now = clock
  BY <1>1, <1>2 DEF Ticks
<1>4. Handled' = {} /\ Latest' = clock
  BY <1>3 DEF Handled, Dispatching, Latest
<1> QED
  BY <1>1, <1>2, <1>3, <1>4, TimerTicks

LEMMA TickDispatches ==
  ASSUME TimerInv, tick.at = "claim", NEW o \in Nat \ {0}, Timer!Dispatch(o)
  PROVE  tick' \in Ticks /\ tick'.at = "enqueue" /\ Handled' = {<<tick.job, o>>} /\ Latest' = Latest
<1>1. tick' = [at |-> "enqueue", job |-> tick.job, now |-> tick.now, id |-> o] /\ tick.job \in Jobs /\ tick.now \in Nat
  BY TickOf DEF Timer!Dispatch
<1>2. tick' \in Ticks /\ tick'.at = "enqueue" /\ tick'.job = tick.job /\ tick'.now = tick.now /\ tick'.id = o
  BY <1>1 DEF Ticks
<1>3. Latest' = Latest
  BY <1>2 DEF Latest
<1> QED
  BY <1>2, <1>3 DEF Handled, Dispatching

LEMMA TimerClaims ==
  ASSUME TimerInv, Timer!ClaimDue
  PROVE  TimerInv'
<1>1. /\ tick.at = "claim"
      /\ UNCHANGED <<queue, queueMay, queueBlocked, clock, unused, left, ran, ranAgain, dropped, removed, guessed>>
      /\ \/ Timer!Done /\ UNCHANGED <<jobs, jobsMay, storeBlocked>>
         \/ /\ ~ storeBlocked /\ Timer!Known(tick.job) /\ jobs[tick.job].claimed # 0 /\ Timer!Dispatch(jobs[tick.job].claimed)
            /\ UNCHANGED <<jobs, jobsMay, storeBlocked>>
         \/ /\ ~ storeBlocked /\ Timer!Known(tick.job) /\ Timer!Due(tick.job, tick.now) /\ jobs[tick.job].claimed = 0
            /\ \/ Timer!Committed([jobs EXCEPT ![tick.job].claimed = jobs[tick.job].fire]) /\ Timer!Dispatch(jobs[tick.job].fire)
               \/ Timer!Indeterminate([jobs EXCEPT ![tick.job].claimed = jobs[tick.job].fire]) /\ Timer!Done
  BY DEF Timer!ClaimDue, Timer!history, Timer!NotCommitted
<1>2. TimerTypes /\ Latest = tick.now /\ Latest \in Nat /\ Latest <= clock /\ clock \in Nat
  BY <1>1, TickOf DEF TimerInv
<1>3. CASE Timer!Done /\ UNCHANGED <<jobs, jobsMay, storeBlocked>>
  BY <1>1, <1>2, <1>3, TickOver, TimerTicks
<1>4. CASE /\ ~ storeBlocked /\ Timer!Known(tick.job) /\ jobs[tick.job].claimed # 0 /\ Timer!Dispatch(jobs[tick.job].claimed)
           /\ UNCHANGED <<jobs, jobsMay, storeBlocked>>
  <2>1. PICK j \in DOMAIN jobs : j = tick.job
    BY <1>4 DEF Timer!Known
  <2>2. PICK o \in Nat \ {0} : o = jobs[j].claimed /\ o <= Latest
    BY <1>4, <2>1, JobOf
  <2>3. tick' \in Ticks /\ tick'.at = "enqueue" /\ Handled' = {<<j, o>>} /\ Latest' = Latest
    BY <1>1, <1>4, <2>1, <2>2, TickDispatches
  <2>4. PICK d : d = <<j, o>>
    OBVIOUS
  <2>5. ClaimedIn(jobs, d) /\ ~ PassedIn(jobs, d) /\ jobs \in jobsMay
    BY <1>2, <2>1, <2>2, <2>4 DEF ClaimedIn, PassedIn, TimerTypes
  <2>6. ASSUME ScheduleOK
        PROVE  OccurrenceOK(d) /\ (d \in ran => d[1] \in removed)
    <3>1. jobsMay = {jobs}
      BY <1>4, <2>6 DEF ScheduleOK
    <3>2. j \notin unused
      BY JobOf
    <3>3. OccurrenceOK(d)
      BY <2>2, <2>4, <2>5, <3>1, <3>2 DEF OccurrenceOK
    <3> QED
      BY <2>5, <2>6, <3>3 DEF ScheduleOK, RanOK
  <2> QED
    BY <1>1, <1>2, <1>4, <2>3, <2>4, <2>5, <2>6, TimerTicks
<1>5. CASE /\ ~ storeBlocked /\ Timer!Known(tick.job) /\ Timer!Due(tick.job, tick.now) /\ jobs[tick.job].claimed = 0
           /\ \/ Timer!Committed([jobs EXCEPT ![tick.job].claimed = jobs[tick.job].fire]) /\ Timer!Dispatch(jobs[tick.job].fire)
              \/ Timer!Indeterminate([jobs EXCEPT ![tick.job].claimed = jobs[tick.job].fire]) /\ Timer!Done
  <2>1. PICK j \in DOMAIN jobs : j = tick.job
    BY <1>5 DEF Timer!Known
  <2>0. PICK o \in Nat \ {0} : o = jobs[j].fire
    BY JobOf
  <2>2. PICK r, S : o = jobs[j].fire /\ r = [jobs[j] EXCEPT !.claimed = o] /\ S = [jobs EXCEPT ![j] = r]
    BY <2>0
  <2>3. jobs[j].enabled /\ o <= Latest /\ jobs[j].claimed = 0
    BY <1>2, <1>5, <2>1, <2>2 DEF Timer!Due
  <2>4. \/ Timer!Committed(S) /\ Timer!Dispatch(o)
        \/ Timer!Indeterminate(S) /\ Timer!Done
    <3>1. S = [jobs EXCEPT ![tick.job].claimed = jobs[tick.job].fire] /\ o = jobs[tick.job].fire
      BY <2>1, <2>2
    <3> QED
      BY <1>5, <3>1
  <2>5. r \in JobRecords /\ r.claimed = o /\ r.fire = o /\ r.enabled = jobs[j].enabled
    BY <2>2, JobOf DEF JobRecords
  <2>6. Latest' \in Nat /\ Latest <= Latest' /\ Latest' <= clock /\ tick' \in Ticks
        /\ \/ tick'.at = "idle" /\ Handled' = {}
           \/ tick'.at = "enqueue" /\ Handled' = {<<j, o>>} /\ Timer!Committed(S)
    <3>1. CASE Timer!Committed(S) /\ Timer!Dispatch(o)
      BY <1>1, <1>2, <2>1, <3>1, TickDispatches
    <3>2. CASE Timer!Done
      BY <1>1, <1>2, <3>2, TickOver
    <3> QED
      BY <2>4, <3>1, <3>2
  <2>7. ScheduleTypes(S)' /\ Follows(S)
    <3>1. \A x \in Nat \ {0} : x <= Latest =>
            /\ jobs[j].claimed # x /\ (jobs[j].fire > x \/ (~ jobs[j].enabled /\ clock >= Horizon)) =>
                 r.claimed # x /\ (r.fire > x \/ (~ r.enabled /\ clock >= Horizon))
            /\ jobs[j].claimed = x => r.claimed = x
      BY <2>2, <2>3, <2>5
    <3>2. S = [jobs EXCEPT ![j] = r] /\ r.claimed <= Latest' /\ unused' = unused
      BY <1>1, <1>2, <2>2, <2>3, <2>5, <2>6
    <3> QED
      BY <1>2, <2>5, <2>6, <3>1, <3>2, OneJob
  <2>8. /\ MutatesTo(S) /\ (storeBlocked' \/ (jobsMay' = {S} /\ jobs' = S) \/ UNCHANGED <<jobs, jobsMay>>)
        /\ Timer!Committed(S) => jobsMay' = {S} /\ jobs' = S
    BY <2>4 DEF Timer!Committed, Timer!Indeterminate, MutatesTo
  <2>9. PICK d : d = <<j, o>>
    OBVIOUS
  <2>10. ClaimedIn(S, d) /\ ~ PassedIn(jobs, d) /\ jobs \in jobsMay
    <3>1. j \in DOMAIN S /\ S[j].claimed = o
      BY <2>2, <2>5
    <3>2. j \in DOMAIN jobs /\ ~ jobs[j].fire > o /\ jobs[j].enabled
      BY <2>2, <2>3
    <3> QED
      BY <1>2, <2>9, <3>1, <3>2 DEF ClaimedIn, PassedIn, TimerTypes
  <2>11. ASSUME ScheduleOK, Handled' # {}
         PROVE  OccurrenceOK(d)' /\ ClaimedIn(jobs', d) /\ (d \in ran => d[1] \in removed)
    <3>1. jobsMay' = {S} /\ jobs' = S
      BY <2>6, <2>8, <2>11
    <3>2. j \notin unused'
      BY <1>1, JobOf
    <3>3. OccurrenceOK(d)'
      <4>1. ClaimedIn(S, d)'
        BY <2>10 DEF ClaimedIn
      <4>2. o <= Latest'
        BY <1>2, <2>3, <2>6
      <4> QED
        BY <2>9, <3>1, <3>2, <4>1, <4>2 DEF OccurrenceOK
    <3> QED
      BY <2>10, <2>11, <3>1, <3>3 DEF ScheduleOK, RanOK
  <2>12. ScheduleOK => \A x \in Handled' : OccurrenceOK(x)' /\ ClaimedIn(jobs', x) /\ (x \in ran => x[1] \in removed)
    BY <2>6, <2>9, <2>11
  <2> QED
    BY <1>1, <1>2, <1>5, <2>6, <2>7, <2>8, <2>12, TimerMoves
<1> QED
  BY <1>1, <1>3, <1>4, <1>5

\* A write of the queue: what was not synced may be left, and blocks it.
QueueTo(R) ==
  \/ queue' = R /\ queueMay' = {R} /\ queueBlocked' \in BOOLEAN
  \/ queue' = R /\ queueMay' = queueMay \cup {R} /\ queueBlocked' = TRUE
  \/ UNCHANGED <<queue, queueMay>> /\ queueBlocked' = TRUE

LEMMA QueueTypes ==
  ASSUME TimerInv, NEW R, QueueTo(R), tick' \in Ticks, Latest <= Latest', Latest' \in Nat, Latest' <= clock,
         UNCHANGED <<jobs, jobsMay, storeBlocked, clock, unused>>
  PROVE  /\ TimerTypes' /\ \A Q \in queueMay' : Q \in queueMay \/ Q = R
         /\ \A x : OccurrenceOK(x) => OccurrenceOK(x)'
         /\ \A T, x : PassedIn(T, x)' = PassedIn(T, x)
<1>1. TimerTypes /\ Latest \in Nat
  BY LatestOf DEF TimerInv
<1>2. \A T \in jobsMay : ScheduleTypes(T)'
  <2> SUFFICES ASSUME NEW T \in jobsMay
               PROVE  ScheduleTypes(T)'
    OBVIOUS
  <2>1. ScheduleTypes(T)
    BY <1>1 DEF TimerTypes
  <2>2. ASSUME NEW j \in DOMAIN T
        PROVE  T[j].claimed <= Latest'
    <3>1. T[j].claimed \in Nat /\ T[j].claimed <= Latest
      BY <2>1 DEF ScheduleTypes, JobRecords
    <3> QED
      BY <1>1, <3>1
  <2> QED
    BY <2>1, <2>2 DEF ScheduleTypes
<1>3. IsFiniteSet(queueMay') /\ queue' \in queueMay' /\ \A Q \in queueMay' : Q \in queueMay \/ Q = R
  <2>1. IsFiniteSet(queueMay) /\ IsFiniteSet({R}) /\ IsFiniteSet(queueMay \cup {R}) /\ queue \in queueMay
    BY <1>1, FS_Singleton, FS_AddElement DEF TimerTypes
  <2>2. queueMay' \in {queueMay, {R}, queueMay \cup {R}}
    BY DEF QueueTo
  <2>3. queue' \in queueMay'
    BY <2>1 DEF QueueTo
  <2> QED
    BY <2>1, <2>2, <2>3
<1>4. queueBlocked' \in BOOLEAN
  BY DEF QueueTo
<1>5. TimerTypes'
  BY <1>1, <1>2, <1>3, <1>4 DEF TimerTypes
<1>6. \A T, x : PassedIn(T, x)' = PassedIn(T, x) /\ ClaimedIn(T, x)' = ClaimedIn(T, x)
  BY DEF PassedIn, ClaimedIn
<1>7. \A x : OccurrenceOK(x) => OccurrenceOK(x)'
  BY <1>1, <1>6 DEF OccurrenceOK
<1> QED
  BY <1>3, <1>5, <1>6, <1>7

LEMMA TimerQueues ==
  ASSUME TimerInv, NEW R, QueueTo(R), tick' \in Ticks, tick'.at # "enqueue", tick'.at # "rollback",
         Latest <= Latest', Latest' \in Nat, Latest' <= clock, Handled' \subseteq Handled,
         UNCHANGED <<jobs, jobsMay, storeBlocked, clock, unused, left, ran, ranAgain, removed, guessed>>,
         R \subseteq queue \cup Handled,
         dropped \subseteq dropped',
         LeftOK => \A x \in left \cap (queue \ R) : x \in ran \cup dropped',
         LeftOK => \A x \in Handled' :
           /\ tick'.at = "ack" => \A Q \in queueMay' : x \in Q
           /\ tick'.at = "ack" /\ tick'.pushed => (x \in left => x \in ran \cup dropped')
  PROVE  TimerInv'
<1>1. /\ TimerTypes' /\ \A Q \in queueMay' : Q \in queueMay \/ Q = R
      /\ \A x : OccurrenceOK(x) => OccurrenceOK(x)'
      /\ \A T, x : PassedIn(T, x)' = PassedIn(T, x)
  BY QueueTypes
<1>2. queue \in queueMay
  BY DEF TimerInv, TimerTypes
<1>3. ASSUME ScheduleOK
      PROVE  ScheduleOK'
  <2>1. \A Q \in queueMay' : \A x \in Q : OccurrenceOK(x)'
    BY <1>1, <1>2, <1>3 DEF ScheduleOK
  <2>2. \A x \in ran : x[1] \in removed \/ x \notin R
    BY <1>2, <1>3 DEF ScheduleOK, RanOK
  <2>3. \A x \in ran : OccurrenceOK(x)' /\ RanOK(x)'
    BY <1>1, <1>3, <2>2 DEF ScheduleOK, RanOK
  <2>4. \A x \in Handled' : OccurrenceOK(x)'
    BY <1>1, <1>3 DEF ScheduleOK
  <2> QED
    BY <1>3, <2>1, <2>3, <2>4 DEF ScheduleOK
<1>4. ASSUME LeftOK
      PROVE  LeftOK'
  <2>1. \A x \in left : x \in ran \cup dropped' \/ x \in R
    BY <1>2, <1>4 DEF LeftOK
  <2>2. \A x \in left : x \in ran \cup dropped' \/ \A Q \in queueMay' : x \in Q
    BY <1>1, <1>4, <2>1 DEF LeftOK
  <2>3. ~ queueBlocked' => queueMay' = {queue'}
    BY DEF QueueTo
  <2> QED
    BY <1>4, <2>2, <2>3 DEF LeftOK
<1> QED
  BY <1>1, <1>3, <1>4 DEF TimerInv

LEMMA TimerEnqueues ==
  ASSUME TimerInv, Timer!Enqueue
  PROVE  TimerInv'
<1>1. PICK d : d = <<tick.job, tick.id>>
  OBVIOUS
<1>2. /\ tick.at = "enqueue"
      /\ UNCHANGED <<jobs, jobsMay, storeBlocked, clock, unused, left, ran, ranAgain, dropped, removed, guessed>>
      /\ \/ Timer!Done /\ UNCHANGED <<queue, queueMay, queueBlocked>>
         \/ ~ queueBlocked /\ d \in queue /\ Timer!Acknowledge(FALSE) /\ UNCHANGED <<queue, queueMay, queueBlocked>>
         \/ d \notin queue /\ Timer!QueueWritten(queue \cup {d}) /\ Timer!Acknowledge(TRUE)
         \/ d \notin queue /\ Timer!QueueUnsure(queue \cup {d}) /\ Timer!Done
  BY <1>1 DEF Timer!Enqueue, Timer!history, Timer!Delivery
<1>3. Handled = {d} /\ Latest = tick.now /\ Latest \in Nat /\ Latest <= clock /\ queue \in queueMay /\ queueBlocked \in BOOLEAN
  BY <1>1, <1>2, TickOf DEF Handled, Dispatching, TimerInv, TimerTypes
<1>4. ASSUME NEW pushed \in BOOLEAN, Timer!Acknowledge(pushed)
      PROVE  tick' \in Ticks /\ tick'.at = "ack" /\ tick'.pushed = pushed /\ Handled' = {d} /\ Latest' = Latest
  <2>1. /\ tick' = [at |-> "ack", job |-> tick.job, now |-> tick.now, id |-> tick.id, pushed |-> pushed]
        /\ tick.job \in Jobs /\ tick.now \in Nat /\ tick.id \in Nat \ {0}
    BY <1>2, <1>4, TickOf DEF Timer!Acknowledge
  <2>2. /\ tick' \in Ticks /\ tick'.at = "ack" /\ tick'.pushed = pushed /\ tick'.now = tick.now /\ tick'.job = tick.job
        /\ tick'.id = tick.id
    BY <2>1 DEF Ticks
  <2>3. Latest' = Latest
    BY <1>3, <2>2 DEF Latest
  <2> QED
    BY <1>1, <2>2, <2>3 DEF Handled, Dispatching
<1>5. CASE Timer!Done /\ UNCHANGED <<queue, queueMay, queueBlocked>>
  BY <1>2, <1>3, <1>5, TickOver, TimerTicks
<1>6. CASE ~ queueBlocked /\ d \in queue /\ Timer!Acknowledge(FALSE) /\ UNCHANGED <<queue, queueMay, queueBlocked>>
  <2>1. tick' \in Ticks /\ tick'.at = "ack" /\ tick'.pushed = FALSE /\ Handled' = {d} /\ Latest' = Latest
    BY <1>4, <1>6
  <2>2. LeftOK => \A Q \in queueMay : d \in Q
    BY <1>6 DEF LeftOK
  <2>3. \A x \in Handled' :
           tick'.at = "ack" /\ ~ tick'.pushed /\ x \in Handled /\ (LeftOK => \A Q \in queueMay : x \in Q)
    BY <1>3, <2>1, <2>2
  <2>4. Latest <= Latest' /\ Latest' \in Nat /\ Latest' <= clock
    BY <1>3, <2>1
  <2> QED
    BY <1>2, <1>6, <2>1, <2>3, <2>4, TimerTicks
<1>7. CASE d \notin queue /\ Timer!QueueWritten(queue \cup {d}) /\ Timer!Acknowledge(TRUE)
  <2>1. tick' \in Ticks /\ tick'.at = "ack" /\ tick'.pushed = TRUE /\ Handled' = {d} /\ Latest' = Latest
    BY <1>4, <1>7
  <2>2. PICK R : R = queue \cup {d}
    OBVIOUS
  <2>3. QueueTo(R) /\ queueMay' = {R}
    BY <1>3, <1>7, <2>2 DEF Timer!QueueWritten, QueueTo
  <2>4. LeftOK => (d \in left => d \in ran \cup dropped)
    BY <1>3, <1>7 DEF LeftOK
  <2> QED
    BY <1>2, <1>3, <2>1, <2>2, <2>3, <2>4, TimerQueues
<1>8. CASE d \notin queue /\ Timer!QueueUnsure(queue \cup {d}) /\ Timer!Done
  <2>1. PICK R : R = queue \cup {d}
    OBVIOUS
  <2>2. QueueTo(R)
    BY <1>8, <2>1 DEF Timer!QueueUnsure, QueueTo
  <2>3. tick' \in Ticks /\ tick'.at = "idle" /\ Handled' = {} /\ Latest' = clock /\ Latest' \in Nat /\ Latest <= Latest'
    BY <1>2, <1>8, TickOver
  <2> QED
    BY <1>2, <1>3, <2>1, <2>2, <2>3, TimerQueues
<1> QED
  BY <1>2, <1>5, <1>6, <1>7, <1>8

LEMMA TimerRollsBack ==
  ASSUME TimerInv, Timer!Rollback
  PROVE  TimerInv'
<1>1. PICK d, R : d = <<tick.job, tick.id>> /\ R = queue \ {d}
  OBVIOUS
<1>2. /\ tick.at = "rollback" /\ Timer!Done /\ QueueTo(R)
      /\ UNCHANGED <<jobs, jobsMay, storeBlocked, clock, unused, left, ran, ranAgain, dropped, removed, guessed>>
  BY <1>1 DEF Timer!Rollback, Timer!history, Timer!Delivery, Timer!QueueWritten, Timer!QueueUnsure, QueueTo, TimerInv, TimerTypes
<1>3. Handled = {d}
  BY <1>1, <1>2 DEF Handled, Dispatching
<1>4. tick' \in Ticks /\ tick'.at = "idle" /\ Handled' = {} /\ Latest' = clock /\ Latest' \in Nat /\ Latest <= Latest'
  BY <1>2, TickOver
<1>5. LeftOK => (d \in left => d \in ran \cup dropped)
  BY <1>2, <1>3 DEF LeftOK
<1> QED
  BY <1>1, <1>2, <1>3, <1>4, <1>5, TimerQueues

LEMMA TimerClears ==
  ASSUME TimerInv, Timer!Clear \/ Timer!Repair
  PROVE  TimerInv'
<1>1. PICK R \in {{}, queue} : /\ QueueTo(R) /\ dropped \subseteq dropped' /\ queue \ R \subseteq dropped'
                               /\ tick.at \notin {"ack", "rollback"} /\ tick' = tick
                               /\ UNCHANGED <<jobs, jobsMay, storeBlocked, clock, unused, left, ran, ranAgain, removed, guessed>>
  <2>1. CASE Timer!Clear
    <3>1. QueueTo({})
      BY <2>1 DEF Timer!Clear, Timer!QueueWritten, QueueTo, TimerInv, TimerTypes
    <3> QED
      BY <2>1, <3>1 DEF Timer!Clear, Timer!Locked
  <2>2. CASE Timer!Repair
    <3>1. QueueTo(queue)
      BY <2>2 DEF Timer!Repair, QueueTo
    <3> QED
      BY <2>2, <3>1 DEF Timer!Repair, Timer!Locked, Timer!history
  <2> QED
    BY <2>1, <2>2
<1>2. TimerTypes /\ Latest \in Nat /\ Latest <= clock /\ Latest' = Latest /\ Handled' = Handled /\ tick \in Ticks
  BY <1>1, LatestOf DEF TimerInv, TimerTypes, Latest, Handled
<1>3. CASE tick.at # "enqueue"
  BY <1>1, <1>2, <1>3, TimerQueues
<1>4. CASE tick.at = "enqueue"
  <2>1. /\ TimerTypes' /\ \A Q \in queueMay' : Q \in queueMay \/ Q = R
        /\ \A x : OccurrenceOK(x) => OccurrenceOK(x)'
        /\ \A T, x : PassedIn(T, x)' = PassedIn(T, x)
    BY <1>1, <1>2, QueueTypes
  <2>2. queue \in queueMay
    BY <1>2 DEF TimerTypes
  <2>3. ASSUME ScheduleOK
        PROVE  ScheduleOK'
    <3>1. \A Q \in queueMay' : \A x \in Q : OccurrenceOK(x)'
      BY <1>1, <2>1, <2>2, <2>3 DEF ScheduleOK
    <3>2. \A x \in ran : OccurrenceOK(x)' /\ RanOK(x)'
      BY <1>1, <1>2, <2>1, <2>2, <2>3 DEF ScheduleOK, RanOK
    <3>3. \A x \in Handled : OccurrenceOK(x)' /\ (tick.at = "enqueue" => ClaimedIn(jobs, x) \/ x[1] \in removed)
      BY <2>1, <2>3 DEF ScheduleOK
    <3> QED
      BY <1>1, <1>2, <2>3, <3>1, <3>2, <3>3 DEF ScheduleOK, ClaimedIn
  <2>4. ASSUME LeftOK
        PROVE  LeftOK'
    <3>1. \A x \in left : x \in ran \cup dropped' \/ \A Q \in queueMay' : x \in Q
      BY <1>1, <2>1, <2>2, <2>4 DEF LeftOK
    <3>2. ~ queueBlocked' => queueMay' = {queue'}
      BY <1>1 DEF QueueTo
    <3> QED
      BY <1>1, <1>4, <2>4, <3>1, <3>2 DEF LeftOK
  <2> QED
    BY <1>1, <2>1, <2>3, <2>4 DEF TimerInv
<1> QED
  BY <1>3, <1>4

\* The queue hands a delivery out: the schedule does not claim it, so it has
\* moved past it.
LEMMA TimerDelivers ==
  ASSUME TimerInv, NEW d, Timer!Deliver(d)
  PROVE  TimerInv'
<1>1. PICK R : R = queue \ {d}
  OBVIOUS
<1>2. /\ d \in queue /\ tick.at \notin {"ack", "rollback"} /\ ~ storeBlocked /\ ~ ClaimedIn(jobs, d)
      /\ queue' = R /\ queueMay' = {R} /\ queueBlocked' = queueBlocked
      /\ ran' = ran \cup {d} /\ ranAgain' = IF d \in ran THEN ranAgain \cup {d} ELSE ranAgain
      /\ UNCHANGED <<jobs, jobsMay, storeBlocked, tick, clock, unused, left, dropped, removed, guessed>>
  BY <1>1 DEF Timer!Deliver, Timer!Admitted, Timer!Locked, Timer!QueueWritten, Timer!Claimed, Timer!Known, ClaimedIn
<1>3. TimerTypes /\ Latest \in Nat /\ Latest <= clock /\ Latest' = Latest /\ Handled' = Handled /\ queue \in queueMay /\ QueueTo(R)
  BY <1>2, LatestOf DEF TimerInv, TimerTypes, Latest, Handled, QueueTo
<1>4. /\ TimerTypes' /\ \A x : OccurrenceOK(x) => OccurrenceOK(x)'
      /\ \A T, x : PassedIn(T, x)' = PassedIn(T, x)
  BY <1>2, <1>3, QueueTypes DEF TimerTypes
<1>5. ASSUME ScheduleOK
      PROVE  ScheduleOK' /\ (d \in ran => d[1] \in removed)
  <2>1. OccurrenceOK(d) /\ (d \in Handled => d[1] \in removed)
    BY <1>2, <1>3, <1>5 DEF ScheduleOK, Handled, Dispatching
  <2>2. \A T \in jobsMay : PassedIn(T, d)
    BY <1>2, <1>5, <2>1 DEF ScheduleOK, OccurrenceOK
  <2>3. OccurrenceOK(d)' /\ RanOK(d)'
    BY <1>1, <1>2, <1>3, <1>4, <2>1, <2>2 DEF RanOK
  <2>4. \A x \in ran : OccurrenceOK(x)' /\ RanOK(x)'
    BY <1>1, <1>2, <1>3, <1>4, <1>5 DEF ScheduleOK, RanOK
  <2>5. \A x \in R : OccurrenceOK(x)'
    BY <1>1, <1>3, <1>4, <1>5 DEF ScheduleOK
  <2>6. \A x \in Handled : OccurrenceOK(x)' /\ (tick.at = "enqueue" => ClaimedIn(jobs, x) \/ x[1] \in removed)
    BY <1>4, <1>5 DEF ScheduleOK
  <2>7. ScheduleOK'
    BY <1>2, <1>3, <1>5, <2>3, <2>4, <2>5, <2>6 DEF ScheduleOK, ClaimedIn
  <2>8. d \in ran => d[1] \in removed
    BY <1>2, <1>3, <1>5 DEF ScheduleOK, RanOK
  <2> QED
    BY <2>7, <2>8
<1>6. LeftOK => LeftOK'
  BY <1>1, <1>2, <1>3 DEF LeftOK
<1>7. \A x \in ranAgain' : x[1] \in removed' \/ "schedule" \in guessed'
  BY <1>2, <1>5 DEF TimerInv
<1> QED
  BY <1>2, <1>4, <1>5, <1>6, <1>7 DEF TimerInv

\* The acknowledgement: the schedule moves past what it claimed.
LEMMA TimerAcknowledges ==
  ASSUME TimerInv, Timer!AckDispatch
  PROVE  TimerInv'
<1>1. PICK d : d = <<tick.job, tick.id>>
  OBVIOUS
<1>2. /\ tick.at = "ack"
      /\ UNCHANGED <<queue, queueMay, queueBlocked, clock, unused, ran, ranAgain, dropped, removed, guessed>>
      /\ \/ Timer!Undo /\ UNCHANGED <<jobs, jobsMay, storeBlocked, left>>
         \/ /\ ~ storeBlocked /\ tick.job \in DOMAIN jobs /\ jobs[tick.job].claimed = tick.id
            /\ Timer!Committed(Timer!Advanced(tick.job)) \/ Timer!Indeterminate(Timer!Advanced(tick.job))
            /\ left' = left \cup {d} /\ Timer!Done
  BY <1>1 DEF Timer!AckDispatch, Timer!history, Timer!NotCommitted, Timer!Delivery, Timer!Claimed, Timer!Known
<1>3. /\ Handled = {d} /\ Latest = tick.now /\ Latest \in Nat /\ Latest <= clock /\ clock \in Nat
      /\ tick \in [at : {"ack", "rollback"}, job : Jobs, now : Nat, id : Nat \ {0}, pushed : BOOLEAN]
  BY <1>1, <1>2, TickOf DEF Handled, Dispatching
<1>4. CASE Timer!Undo /\ UNCHANGED <<jobs, jobsMay, storeBlocked, left>>
  <2>1. CASE tick.pushed
    <3>1. tick' = [tick EXCEPT !.at = "rollback"]
      BY <1>4, <2>1 DEF Timer!Undo
    <3>2. /\ tick' \in Ticks /\ tick'.at = "rollback" /\ tick'.job = tick.job /\ tick'.id = tick.id /\ tick'.now = tick.now
      BY <1>3, <3>1 DEF Ticks
    <3>3. Handled' = {d} /\ Latest' = Latest
      BY <1>1, <1>3, <3>2 DEF Handled, Dispatching, Latest
    <3> QED
      BY <1>2, <1>3, <1>4, <2>1, <3>2, <3>3, TimerTicks
  <2>2. CASE ~ tick.pushed
    <3>1. Timer!Done
      BY <1>4, <2>2 DEF Timer!Undo
    <3> QED
      BY <1>2, <1>3, <1>4, <3>1, TickOver, TimerTicks
  <2> QED
    BY <2>1, <2>2
<1>5. CASE /\ ~ storeBlocked /\ tick.job \in DOMAIN jobs /\ jobs[tick.job].claimed = tick.id
           /\ Timer!Committed(Timer!Advanced(tick.job)) \/ Timer!Indeterminate(Timer!Advanced(tick.job))
           /\ left' = left \cup {d} /\ Timer!Done
  <2>1. tick' \in Ticks /\ tick'.at = "idle" /\ Handled' = {} /\ Latest' = clock /\ Latest' \in Nat /\ Latest <= Latest'
    BY <1>2, <1>5, TickOver
  <2>0. PICK j \in DOMAIN jobs : j = tick.job
    BY <1>5
  <2>2. PICK S : S = Timer!Advanced(tick.job) /\ j = tick.job
    BY <2>0
  <2>3. /\ MutatesTo(S) /\ (storeBlocked' \/ (jobsMay' = {S} /\ jobs' = S) \/ UNCHANGED <<jobs, jobsMay>>)
    BY <1>5, <2>2 DEF Timer!Committed, Timer!Indeterminate, MutatesTo
  <2>4. TimerTypes /\ unused' = unused /\ jobs[j] \in JobRecords /\ jobs[j].claimed <= Latest
    BY <1>2, JobOf DEF TimerInv
  <2>5. ScheduleTypes(S)' /\ Follows(S)
    <3>1. CASE jobs[j].once
      <4>1. S = [k \in DOMAIN jobs \ {j} |-> jobs[k]]
        BY <2>2, <3>1 DEF Timer!Advanced, Timer!Restrict
      <4>2. DOMAIN S = DOMAIN jobs \ {j} /\ S = [k \in DOMAIN S |-> S[k]] /\ \A k \in DOMAIN S : S[k] = jobs[k]
        BY <4>1
      <4>3. ASSUME NEW k \in DOMAIN S
            PROVE  S[k] \in JobRecords /\ S[k].claimed <= Latest'
        <5>1. jobs[k] \in JobRecords /\ jobs[k].claimed <= Latest /\ jobs[k].claimed \in Nat /\ S[k] = jobs[k]
          BY <4>2, JobOf
        <5> QED
          BY <1>3, <2>1, <5>1
      <4>4. DOMAIN S \subseteq Jobs \ unused'
        BY <2>4, <4>2, JobOf
      <4>5. ScheduleTypes(S)'
        BY <4>2, <4>3, <4>4 DEF ScheduleTypes
      <4>6. Follows(S)
        BY <4>2 DEF Follows, PassedIn, ClaimedIn
      <4> QED
        BY <4>5, <4>6
    <3>2. CASE ~ jobs[j].once /\ Timer!Next(tick.now) # 0
      <4>1. PICK r : r = [jobs[j] EXCEPT !.claimed = 0, !.fire = Timer!Next(tick.now)]
        OBVIOUS
      <4>2. S = [jobs EXCEPT ![j] = r]
        BY <2>2, <3>2, <4>1 DEF Timer!Advanced
      <4>3. Timer!Next(tick.now) = Latest + 1
        BY <1>3, <3>2, ScheduleAssumption DEF Timer!Next
      <4>4. r \in JobRecords /\ r.claimed = 0 /\ r.fire = Latest + 1
        <5>1. \A g \in Nat \ {0}, x \in JobRecords :
                /\ [x EXCEPT !.claimed = 0, !.fire = g] \in JobRecords /\ [x EXCEPT !.claimed = 0, !.fire = g].claimed = 0
                /\ [x EXCEPT !.claimed = 0, !.fire = g].fire = g
          BY DEF JobRecords
        <5>2. r = [jobs[j] EXCEPT !.claimed = 0, !.fire = Latest + 1] /\ Latest + 1 \in Nat \ {0}
          BY <1>3, <4>1, <4>3
        <5> QED
          BY <2>4, <5>1, <5>2
      <4>5. \A o \in Nat \ {0} : o <= Latest => r.claimed # o /\ r.fire > o
        BY <1>3, <4>4
      <4>6. r.claimed <= Latest'
        BY <2>1, <4>4
      <4> QED
        BY <1>3, <2>1, <2>4, <4>2, <4>4, <4>5, <4>6, OneJob
    <3>3. CASE ~ jobs[j].once /\ Timer!Next(tick.now) = 0
      <4>1. PICK r : r = [jobs[j] EXCEPT !.claimed = 0, !.enabled = FALSE]
        OBVIOUS
      <4>2. S = [jobs EXCEPT ![j] = r]
        BY <2>2, <3>3, <4>1 DEF Timer!Advanced
      <4>3. clock >= Horizon
        BY <1>3, <3>3, ScheduleAssumption DEF Timer!Next
      <4>4. r \in JobRecords /\ r.claimed = 0 /\ ~ r.enabled
        BY <2>4, <4>1 DEF JobRecords
      <4>5. \A o \in Nat \ {0} : r.claimed # o /\ ~ r.enabled /\ clock >= Horizon
        BY <4>3, <4>4
      <4>6. r.claimed <= Latest'
        BY <2>1, <4>4
      <4> QED
        BY <1>3, <2>1, <2>4, <4>2, <4>4, <4>5, <4>6, OneJob
    <3> QED
      BY <3>1, <3>2, <3>3
  <2>6. LeftOK => \A x \in left' : x \in left \/ \A Q \in queueMay : x \in Q
    BY <1>2, <1>3, <1>5 DEF LeftOK
  <2> QED
    BY <1>2, <1>3, <1>5, <2>1, <2>3, <2>5, <2>6, TimerMoves
<1> QED
  BY <1>2, <1>4, <1>5

LEMMA OnlyOne ==
  ASSUME NEW S, IsFiniteSet(S), NEW x \in S, ~ Timer!Cardinality(S) > 1
  PROVE  S = {x}
<1>1. Timer!Cardinality(S) = Cardinality(S)
  BY DEF Timer!Cardinality, Cardinality
<1>2. Cardinality(S) \in Nat /\ Cardinality(S) <= 1
  BY <1>1, FS_CardinalityType
<1>3. Cardinality({x}) = 1 /\ IsFiniteSet({x}) /\ {x} \subseteq S
  BY FS_Singleton
<1> QED
  BY <1>2, <1>3, FS_Subset

\* A restart reads the schedule and the queue that a loss of power left; it
\* guesses when more than one might have been.
LEMMA TimerRestarts ==
  ASSUME TimerInv, Timer!Restart
  PROVE  TimerInv'
<1>1. /\ \/ jobs' = jobs /\ jobsMay' = jobsMay
         \/ jobs' \in jobsMay /\ jobsMay' = {jobs'}
      /\ \/ queue' = queue /\ queueMay' = queueMay
         \/ queue' \in queueMay /\ queueMay' = {queue'}
      /\ storeBlocked' = FALSE /\ queueBlocked' = FALSE /\ tick' = Timer!Idle
      /\ UNCHANGED <<clock, unused, left, ran, ranAgain, dropped, removed>>
  BY DEF Timer!Restart
<1>0. /\ guessed \subseteq guessed'
      /\ Timer!Cardinality(jobsMay') > 1 => "schedule" \in guessed'
      /\ Timer!Cardinality(queueMay') > 1 => "queue" \in guessed'
  <2>1. guessed' = guessed \cup (IF Timer!Cardinality(jobsMay') > 1 THEN {"schedule"} ELSE {})
                          \cup (IF Timer!Cardinality(queueMay') > 1 THEN {"queue"} ELSE {})
    BY DEF Timer!Restart
  <2> QED
    BY <2>1
<1>2. TimerTypes
  BY DEF TimerInv
<1>3. /\ jobs' \in jobsMay' /\ jobsMay' \subseteq jobsMay /\ queue' \in queueMay' /\ queueMay' \subseteq queueMay
      /\ IsFiniteSet(jobsMay') /\ IsFiniteSet(queueMay')
  BY <1>1, <1>2, FS_Subset DEF TimerTypes
<1>4. tick' \in Ticks /\ Handled' = {} /\ Latest' = clock
  BY <1>1 DEF Timer!Idle, Ticks, Handled, Dispatching, Latest
<1>5. Latest \in Nat /\ Latest <= clock /\ clock \in Nat
  BY <1>2, LatestOf DEF TimerTypes
<1>6. ASSUME NEW T \in jobsMay
      PROVE  ScheduleTypes(T)'
  <2>1. ScheduleTypes(T)
    BY <1>2 DEF TimerTypes
  <2>2. ASSUME NEW j \in DOMAIN T
        PROVE  T[j].claimed <= Latest'
    <3>1. T[j].claimed \in Nat /\ T[j].claimed <= Latest
      BY <2>1 DEF ScheduleTypes, JobRecords
    <3> QED
      BY <1>4, <1>5, <3>1
  <2> QED
    BY <1>1, <2>1, <2>2 DEF ScheduleTypes
<1>7. TimerTypes'
  <2>1. \A T \in jobsMay' : ScheduleTypes(T)'
    BY <1>3, <1>6
  <2>2. clock' = clock
    BY <1>1
  <2>3. clock' \in Nat /\ Latest' <= clock'
    BY <1>4, <1>5, <2>2
  <2>4. storeBlocked' \in BOOLEAN /\ queueBlocked' \in BOOLEAN
    BY <1>1
  <2> QED
    BY <1>3, <1>4, <2>1, <2>3, <2>4 DEF TimerTypes
<1>8. "schedule" \notin guessed' => jobsMay' = {jobs'}
  BY <1>0, <1>3, OnlyOne
<1>9. "queue" \notin guessed' => queueMay' = {queue'}
  BY <1>0, <1>3, OnlyOne
<1>10. \A T, x : PassedIn(T, x)' = PassedIn(T, x) /\ ClaimedIn(T, x)' = ClaimedIn(T, x)
  BY <1>1 DEF PassedIn, ClaimedIn
<1>11. ASSUME NEW x, OccurrenceOK(x)
       PROVE  OccurrenceOK(x)'
  BY <1>1, <1>3, <1>4, <1>5, <1>10, <1>11 DEF OccurrenceOK
<1>12. \A x : RanOK(x) => RanOK(x)'
  BY <1>1, <1>3, <1>4, <1>10 DEF RanOK
<1>13. ScheduleOK /\ "schedule" \notin guessed' => ScheduleOK'
  BY <1>1, <1>3, <1>4, <1>8, <1>11, <1>12 DEF ScheduleOK
<1>14. LeftOK /\ "queue" \notin guessed' => LeftOK'
  BY <1>1, <1>3, <1>4, <1>9 DEF LeftOK
<1> QED
  BY <1>0, <1>1, <1>7, <1>13, <1>14 DEF TimerInv

\* What is visible of the queue is synced.
LEMMA TimerRepairs ==
  ASSUME TimerInv, Timer!Repair
  PROVE  TimerInv'
<1>1. /\ queueBlocked' = FALSE /\ queueMay' = {queue}
      /\ UNCHANGED <<jobs, jobsMay, storeBlocked, queue, tick, clock, unused, left, ran, ranAgain, dropped, removed, guessed>>
  BY DEF Timer!Repair, Timer!history
<1>2. TimerTypes /\ Latest' = Latest /\ Handled' = Handled
  BY <1>1 DEF TimerInv, Latest, Handled
<1>3. \A T : ScheduleTypes(T)' = ScheduleTypes(T)
  BY <1>1, <1>2 DEF ScheduleTypes
<1>4. TimerTypes'
  BY <1>1, <1>2, <1>3, FS_Singleton DEF TimerTypes
<1>5. \A T, x : PassedIn(T, x)' = PassedIn(T, x) /\ ClaimedIn(T, x)' = ClaimedIn(T, x)
  BY <1>1 DEF PassedIn, ClaimedIn
<1>6. \A x : (OccurrenceOK(x) => OccurrenceOK(x)') /\ (RanOK(x) => RanOK(x)')
  BY <1>1, <1>2, <1>5 DEF OccurrenceOK, RanOK, TimerTypes
<1>7. ScheduleOK => ScheduleOK'
  BY <1>1, <1>2, <1>5, <1>6 DEF ScheduleOK, TimerTypes
<1>8. LeftOK => LeftOK'
  BY <1>1, <1>2 DEF LeftOK, TimerTypes
<1> QED
  BY <1>1, <1>4, <1>7, <1>8 DEF TimerInv

LEMMA TimerStep ==
  ASSUME TimerInv, Timer!NextSchedule
  PROVE  TimerInv'
<1>1. ASSUME NEW x \in queue, Timer!Deliver(x)
      PROVE  TimerInv'
  BY <1>1, TimerDelivers
<1>2. ASSUME NEW j \in Jobs, \/ \E once \in BOOLEAN : Timer!Add(j, once)
                             \/ Timer!Remove(j) \/ Timer!Pause(j) \/ Timer!Resume(j) \/ Timer!Record(j) \/ Timer!Candidate(j)
      PROVE  TimerInv'
  BY <1>2, TimerAdds, TimerRemoves, TimerPauses, TimerResumes, TimerRecords, TimerBegins
<1> QED
  BY <1>1, <1>2, TimerClaims, TimerEnqueues, TimerAcknowledges, TimerRollsBack, TimerClears, TimerRepairs, TimerPasses,
     TimerRestarts DEF Timer!NextSchedule

LEMMA TimerKept == ServicesSpec => []TimerInv
<1>1. ServicesInit => TimerInv
  BY TimerInit, Chosen
<1>2. TimerInv /\ UNCHANGED timer => TimerInv'
  BY DEF TimerInv, TimerTypes, ScheduleTypes, Latest, Handled, ScheduleOK, LeftOK, OccurrenceOK, RanOK, ClaimedIn, PassedIn, timer
<1>3. TimerInv /\ [ServicesNext]_services => TimerInv'
  <2>1. [ServicesNext]_services => Timer!NextSchedule \/ UNCHANGED timer
    BY DEF ServicesNext, services
  <2> QED
    BY <1>2, <2>1, TimerStep
<1> QED
  BY <1>1, <1>3, PTL DEF ServicesSpec

\* An occurrence of a timed message becomes a message of the Session once,
\* whichever of its two files failed and whatever a loss of power took back
\* of them (claim_due, enqueue_existing_committed, ack_dispatch,
\* ensure_delivery_admitted).
THEOREM FiredOnceHolds == ServicesSpec => []FiredOnce
<1>1. TimerInv => FiredOnce
  BY DEF TimerInv, FiredOnce, Timer!FiredOnce
<1> QED
  BY <1>1, TimerKept, PTL

\* And what the schedule has moved past is in the queue, was run, or was
\* cleared: no failure between the two files loses it (ack_dispatch, and the
\* commit and rollback of enqueue_existing_committed around it).
THEOREM NoneLostHolds == ServicesSpec => []NoneLost
<1>1. TimerInv => Timer!NoneLost
  BY DEF TimerInv, TimerTypes, LeftOK, Timer!NoneLost
<1>2. TimerInv => NoneLost
  BY <1>1 DEF NoneLost
<1> QED
  BY <1>2, TimerKept, PTL
-----------------------------------------------------------------------------
(* The judgement of a Goal *)

Attempts == [op : Nat, evidence : Evidence, phase : {"Claimed", "Prepared", "Scored", "Unknown"},
             outcome : {"pass", "fail", None}, usage : {"known", "unknown", None}]
Goals == [status : Judge!Statuses, attempt : Attempts \cup {None}]
Works == [op : Judge!Operations, evidence : Evidence]

JudgeTypes ==
  /\ aim \in Goals /\ sent \subseteq Judge!Operations
  /\ reports \in [Judge!Operations -> {"none", "known", "unknown"}]
  /\ counted \in [Judge!Operations -> {"none", "known", "unknown"}]
  /\ judging \in Callers \cup {None} /\ job \in [Callers -> Works \cup {None}]
  /\ step \in [Callers -> {"idle", "begin", "prepare", "ask", "asked", "discard", "clear", "settle", "lost", "recover", "finalize"}]
  /\ \A c \in Callers : step[c] # "idle" => judging = c /\ job[c] \in Works

Over == aim.status \in {"Canceled", "Complete"}

\* A request that was sent is the attempt of its Goal, which a restart does not
\* take for free; or the Goal is over.
SentIsHeld ==
  /\ sent # {} /\ ~ Over =>
       /\ aim.attempt # None /\ sent = {aim.attempt.op}
       /\ aim.attempt.phase \in {"Prepared", "Scored", "Unknown"}
  /\ \E n \in Nat : sent \subseteq {n}

\* Who is about to send has the attempt, and nothing was sent before.
AboutToSend ==
  \A c \in Callers :
    /\ step[c] \in {"begin", "prepare", "ask", "discard", "clear"} => sent = {}
    /\ step[c] \in {"begin", "prepare", "ask", "asked"} =>
         \/ aim.status = "Canceled"
         \/ /\ aim.attempt # None /\ aim.attempt.op = job[c].op
            /\ aim.attempt.phase = IF step[c] \in {"begin", "prepare"} THEN "Claimed" ELSE "Prepared"

\* What the Goal knows of the cost is what the judge reported.
ScoreIsReport ==
  /\ aim.attempt # None /\ aim.attempt.phase = "Scored" =>
       aim.attempt.op \in Judge!Operations /\ aim.attempt.usage = reports[aim.attempt.op]
  /\ aim.status = "Canceled" => aim.attempt = None

JudgeInv == JudgeTypes /\ SentIsHeld /\ AboutToSend /\ ScoreIsReport

LEMMA JudgeInit == Judge!InitCompletion => JudgeInv
<1> SUFFICES ASSUME Judge!InitCompletion
             PROVE  JudgeInv
  OBVIOUS
<1>1. aim = [status |-> "Active", attempt |-> None] /\ sent = {} /\ \A c \in Callers : step[c] = "idle"
  BY DEF Judge!InitCompletion
<1>2. aim \in Goals /\ aim.status = "Active" /\ aim.attempt = None
  BY <1>1 DEF Goals, Judge!Statuses
<1>3. JudgeTypes
  BY <1>2 DEF Judge!InitCompletion, JudgeTypes
<1> QED
  BY <1>1, <1>2, <1>3 DEF JudgeInv, SentIsHeld, AboutToSend, ScoreIsReport

\* The goals that a step writes.
LEMMA GoalOf ==
  ASSUME NEW g \in Goals
  PROVE  /\ g.status \in Judge!Statuses
         /\ g.attempt # None => g.attempt \in Attempts /\ g.attempt.op \in Nat
         /\ [g EXCEPT !.attempt = None] \in Goals /\ [g EXCEPT !.attempt = None].attempt = None
         /\ [g EXCEPT !.attempt = None].status = g.status
         /\ \A status \in Judge!Statuses :
              /\ [g EXCEPT !.status = status] \in Goals /\ [g EXCEPT !.status = status].status = status
              /\ [g EXCEPT !.status = status].attempt = g.attempt
         /\ \A t \in Attempts :
              /\ [g EXCEPT !.attempt = t] \in Goals /\ [g EXCEPT !.attempt = t].attempt = t
              /\ [g EXCEPT !.attempt = t].status = g.status
<1>1. g.status \in Judge!Statuses /\ (g.attempt # None => g.attempt \in Attempts)
  BY DEF Goals
<1>2. ASSUME g.attempt \in Attempts
      PROVE  g.attempt.op \in Nat
  BY <1>2 DEF Attempts
<1> QED
  BY <1>1, <1>2 DEF Goals

LEMMA AttemptOf ==
  ASSUME NEW t \in Attempts
  PROVE  /\ t # None
         /\ \A p \in {"Claimed", "Prepared", "Scored", "Unknown"} :
              /\ [t EXCEPT !.phase = p] \in Attempts /\ [t EXCEPT !.phase = p].phase = p
              /\ [t EXCEPT !.phase = p].op = t.op /\ [t EXCEPT !.phase = p].usage = t.usage
BY CompletionAssumption DEF Attempts

\* A step that writes the Goal: what it leaves of it, and where its caller is.
LEMMA Judged ==
  ASSUME JudgeInv, JudgeTypes', sent' \subseteq sent, reports' = reports, aim'.status = "Canceled" => aim'.attempt = None,
         \/ aim'.attempt = aim.attempt
         \/ aim'.attempt = None
         \/ /\ aim.attempt # None /\ aim'.attempt # None /\ aim'.attempt.op = aim.attempt.op
            /\ aim'.attempt.usage = aim.attempt.usage
            /\ aim'.attempt.phase \in {"Prepared", "Unknown"}
         \/ sent = {} /\ aim'.attempt.phase = "Claimed",
         Over => Over',
         sent' = {} \/ Over' \/ aim'.attempt # None,
         AboutToSend'
  PROVE  JudgeInv'
<1>1. SentIsHeld'
  BY DEF JudgeInv, SentIsHeld, Over
<1>2. ScoreIsReport'
  BY DEF JudgeInv, ScoreIsReport
<1> QED
  BY <1>1, <1>2 DEF JudgeInv

\* A caller that holds the judgement goes from place to place; the others rest.
LEMMA OneJudges ==
  ASSUME JudgeInv, NEW c \in Callers, step[c] # "idle"
  PROVE  /\ judging = c /\ job[c] \in Works /\ job[c].op \in Judge!Operations /\ job[c].op \in Nat
         /\ \A x \in Callers : x # c => step[x] = "idle"
<1>1. judging = c /\ job[c] \in Works
  BY DEF JudgeInv, JudgeTypes
<1>2. job[c].op \in Judge!Operations /\ \A n \in Judge!Operations : n \in Nat
  BY <1>1 DEF Works, Judge!Operations
<1> QED
  BY <1>1, <1>2 DEF JudgeInv, JudgeTypes

LEMMA Proceeds ==
  ASSUME JudgeInv, NEW c \in Callers, step[c] # "idle",
         NEW to \in {"begin", "prepare", "ask", "asked", "discard", "clear", "settle", "lost", "recover", "finalize"},
         Judge!Proceed(c, to), aim' \in Goals, sent' \subseteq Judge!Operations,
         reports' \in [Judge!Operations -> {"none", "known", "unknown"}],
         counted' \in [Judge!Operations -> {"none", "known", "unknown"}]
  PROVE  /\ JudgeTypes' /\ step'[c] = to /\ job' = job
         /\ \A x \in Callers : x # c => step'[x] = "idle"
BY OneJudges DEF JudgeInv, JudgeTypes, Judge!Proceed, Judge!Goto

LEMMA EndsJudging ==
  ASSUME JudgeInv, NEW c \in Callers, step[c] # "idle", Judge!End(c), aim' \in Goals, UNCHANGED <<sent, reports>>,
         counted' \in [Judge!Operations -> {"none", "known", "unknown"}]
  PROVE  JudgeTypes' /\ \A x \in Callers : step'[x] = "idle"
BY OneJudges DEF JudgeInv, JudgeTypes, Judge!End, Judge!Goto

LEMMA JudgeAdmits ==
  ASSUME JudgeInv, NEW c \in Callers, NEW e \in Evidence, Judge!Admit(c, e)
  PROVE  JudgeInv'
<1>0. UNCHANGED <<reports, sent, counted>> /\ \A x \in Callers : step[x] = "idle"
  <2>1. UNCHANGED <<reports, sent, counted>> /\ judging = None
    BY DEF Judge!Admit
  <2> QED
    BY <2>1, CompletionAssumption DEF JudgeInv, JudgeTypes
<1>1. aim \in Goals
  BY DEF JudgeInv, JudgeTypes
<1>2. CASE /\ Judge!Holds({"Scored"}) /\ Judge!Goto(c, "finalize") /\ judging' = c /\ UNCHANGED aim
           /\ job' = [job EXCEPT ![c] = [op |-> aim.attempt.op, evidence |-> e]]
  <2>1. [op |-> aim.attempt.op, evidence |-> e] \in Works
    BY <1>2 DEF JudgeInv, ScoreIsReport, Judge!Holds, Works
  <2>2. JudgeTypes' /\ \A x \in Callers : step'[x] \in {"idle", "finalize"}
    BY <1>0, <1>2, <2>1 DEF JudgeInv, JudgeTypes, Judge!Goto
  <2>3. AboutToSend'
    BY <2>2 DEF AboutToSend
  <2> QED
    BY <1>0, <1>2, <2>2, <2>3 DEF JudgeInv, SentIsHeld, ScoreIsReport, Over
<1>3. CASE /\ aim.attempt = None /\ Judge!Is({"Active"}) /\ next \in Judge!Operations
           /\ \E ok \in BOOLEAN :
                /\ Judge!Saved([aim EXCEPT !.attempt = Judge!Attempt(next, e, "Claimed")], ok)
                /\ IF ok THEN /\ Judge!Goto(c, "begin") /\ judging' = c
                              /\ job' = [job EXCEPT ![c] = [op |-> next, evidence |-> e]]
                         ELSE UNCHANGED <<step, judging, job>>
  <2> DEFINE t == Judge!Attempt(next, e, "Claimed")
             new == [aim EXCEPT !.attempt = t]
  <2>1. t \in Attempts /\ t.phase = "Claimed" /\ t.op = next
    <3>1. next \in Nat
      BY <1>3 DEF Judge!Operations
    <3> QED
      BY <3>1 DEF Judge!Attempt, Attempts
  <2>2. /\ new \in Goals /\ new.attempt = t /\ new.status = aim.status /\ aim.status = "Active"
        /\ sent = {} /\ t # None
    <3>1. aim.status = "Active"
      BY <1>3 DEF Judge!Is
    <3>2. sent = {}
      BY <1>3, <3>1 DEF JudgeInv, SentIsHeld, Over
    <3>3. t # None
      BY <2>1, AttemptOf
    <3> HIDE DEF t
    <3> QED
      BY <1>1, <2>1, <3>1, <3>2, <3>3, GoalOf
  <2>3. aim' \in {aim, new} /\ (aim' = new \/ UNCHANGED <<step, judging, job>>)
    BY <1>3 DEF Judge!Saved
  <2> HIDE DEF new, t
  <2>4. [op |-> next, evidence |-> e] \in Works /\ [op |-> next, evidence |-> e].op = next
    BY <1>3 DEF Works
  <2>5. CASE UNCHANGED <<step, judging, job>>
    <3>1. JudgeTypes'
      BY <1>0, <1>1, <2>2, <2>3, <2>5 DEF JudgeInv, JudgeTypes
    <3>2. AboutToSend'
      BY <1>0, <2>5 DEF AboutToSend
    <3> QED
      BY <1>0, <1>3, <2>1, <2>2, <2>3, <3>1, <3>2, Judged DEF Over
  <2>6. CASE Judge!Goto(c, "begin") /\ judging' = c /\ job' = [job EXCEPT ![c] = [op |-> next, evidence |-> e]] /\ aim' = new
    <3>1. JudgeTypes'
      BY <1>0, <2>2, <2>4, <2>6 DEF JudgeInv, JudgeTypes, Judge!Goto
    <3>2. step'[c] = "begin" /\ job'[c].op = next /\ \A x \in Callers : x # c => step'[x] = "idle"
      BY <1>0, <2>4, <2>6 DEF JudgeInv, JudgeTypes, Judge!Goto
    <3>3. AboutToSend'
      BY <1>0, <2>1, <2>2, <2>6, <3>2 DEF AboutToSend
    <3> QED
      BY <1>0, <1>3, <2>1, <2>2, <2>6, <3>1, <3>3, Judged DEF Over
  <2> QED
    BY <1>3, <2>5, <2>6 DEF Judge!Saved, new, t
<1> QED
  BY <1>2, <1>3 DEF Judge!Admit

\* Places where the Goal rests.
LEMMA JudgeRests ==
  ASSUME JudgeInv, NEW c \in Callers, step[c] # "idle", UNCHANGED <<aim, reports, counted>>,
         NEW to \in {"prepare", "asked", "discard", "clear"}, Judge!Proceed(c, to),
         \/ step[c] = "begin" /\ to \in {"prepare", "clear"} /\ sent' = sent
         \/ step[c] = "ask" /\ to = "asked" /\ sent' = sent \cup {job[c].op}
         \/ step[c] \in {"prepare", "ask"} /\ to = "discard" /\ sent' = sent
         \/ step[c] = "discard" /\ to = "clear" /\ sent' = sent
  PROVE  JudgeInv'
<1>1. job[c].op \in Judge!Operations /\ job[c].op \in Nat
  BY OneJudges
<1>2. sent' \subseteq Judge!Operations
  BY <1>1 DEF JudgeInv, JudgeTypes
<1>3. JudgeTypes' /\ step'[c] = to /\ job' = job /\ \A x \in Callers : x # c => step'[x] = "idle"
  BY <1>2, Proceeds DEF JudgeInv, JudgeTypes
<1>4. AboutToSend'
  BY <1>3 DEF JudgeInv, AboutToSend
<1>5. SentIsHeld'
  BY <1>1 DEF JudgeInv, SentIsHeld, AboutToSend, Over
<1> QED
  BY <1>3, <1>4, <1>5 DEF JudgeInv, ScoreIsReport

LEMMA JudgePrepares ==
  ASSUME JudgeInv, NEW c \in Callers, Judge!Prepare(c)
  PROVE  JudgeInv'
<1>1. /\ step[c] = "prepare" /\ UNCHANGED <<counted, reports, sent>> /\ sent = {}
  BY DEF Judge!Prepare, JudgeInv, AboutToSend
<1>2. CASE Judge!Proceed(c, "discard") /\ UNCHANGED aim
  BY <1>1, <1>2, JudgeRests
<1>3. CASE /\ Judge!Mine(c) /\ Judge!Holds({"Claimed", "Prepared"})
           /\ \E ok \in BOOLEAN : /\ Judge!Saved([aim EXCEPT !.attempt.phase = "Prepared"], ok)
                                  /\ Judge!Proceed(c, IF ok THEN "ask" ELSE "discard")
  <2> DEFINE t == [aim.attempt EXCEPT !.phase = "Prepared"]
             new == [aim EXCEPT !.attempt = t]
  <2>1. aim \in Goals /\ aim.attempt # None /\ aim.attempt \in Attempts /\ aim.attempt.op = job[c].op
    <3>1. aim \in Goals /\ aim.attempt # None /\ aim.attempt.op = job[c].op
      BY <1>3 DEF JudgeInv, JudgeTypes, Judge!Mine
    <3> QED
      BY <3>1, GoalOf
  <2>2. t \in Attempts /\ t # None /\ t.phase = "Prepared" /\ t.op = job[c].op /\ t.usage = aim.attempt.usage
    BY <2>1, AttemptOf
  <2>3. new = [aim EXCEPT !.attempt.phase = "Prepared"]
    BY <2>1 DEF Goals
  <2> HIDE DEF t
  <2>4. new \in Goals /\ new.attempt = t /\ new.status = aim.status
    BY <2>1, <2>2, GoalOf
  <2>5. /\ aim' \in {aim, new}
        /\ (aim' = new /\ Judge!Proceed(c, "ask")) \/ Judge!Proceed(c, "discard")
    BY <1>3, <2>3 DEF Judge!Saved
  <2> HIDE DEF new
  <2>6. aim' \in Goals /\ aim'.status = aim.status /\ aim'.attempt \in {aim.attempt, t}
    BY <2>1, <2>4, <2>5
  <2>7. JudgeTypes' /\ AboutToSend'
    <3>0. sent' \subseteq Judge!Operations
      BY <1>1
    <3>1. CASE aim' = new /\ Judge!Proceed(c, "ask")
      <4>1. JudgeTypes' /\ step'[c] = "ask" /\ job' = job /\ \A x \in Callers : x # c => step'[x] = "idle"
        BY <1>1, <2>6, <3>0, <3>1, Proceeds DEF JudgeInv, JudgeTypes
      <4> QED
        BY <1>1, <2>2, <2>4, <3>1, <4>1 DEF AboutToSend
    <3>2. CASE Judge!Proceed(c, "discard")
      <4>1. JudgeTypes' /\ step'[c] = "discard" /\ job' = job /\ \A x \in Callers : x # c => step'[x] = "idle"
        BY <1>1, <2>6, <3>0, <3>2, Proceeds DEF JudgeInv, JudgeTypes
      <4> QED
        BY <1>1, <4>1 DEF AboutToSend
    <3> QED
      BY <2>5, <3>1, <3>2
  <2>8. aim'.status # "Canceled"
    BY <2>1, <2>6 DEF JudgeInv, ScoreIsReport
  <2> QED
    BY <1>1, <2>1, <2>2, <2>6, <2>7, <2>8, Judged DEF Over
<1> QED
  BY <1>2, <1>3 DEF Judge!Prepare

LEMMA JudgeEnds ==
  ASSUME JudgeInv, NEW c \in Callers, step[c] # "idle", Judge!End(c), aim' \in Goals, UNCHANGED <<sent, reports>>,
         counted' \in [Judge!Operations -> {"none", "known", "unknown"}],
         aim'.status = "Canceled" => aim'.attempt = None,
         \/ aim'.attempt = aim.attempt
         \/ aim'.attempt = None /\ sent = {}
         \/ /\ aim.attempt # None /\ aim'.attempt # None /\ aim'.attempt.op = aim.attempt.op
            /\ aim'.attempt.usage = aim.attempt.usage /\ aim'.attempt.phase = "Unknown",
         Over => Over'
  PROVE  JudgeInv'
<1>1. JudgeTypes' /\ \A x \in Callers : step'[x] = "idle"
  BY EndsJudging
<1>2. AboutToSend'
  BY <1>1 DEF AboutToSend
<1>3. sent' = {} \/ Over' \/ aim'.attempt # None
  BY DEF JudgeInv, SentIsHeld
<1> QED
  BY <1>1, <1>2, <1>3, Judged

LEMMA JudgeClears ==
  ASSUME JudgeInv, NEW c \in Callers, Judge!Clear(c)
  PROVE  JudgeInv'
<1>1. /\ step[c] = "clear" /\ Judge!End(c) /\ UNCHANGED <<sent, reports, counted>> /\ sent = {}
      /\ aim' = aim \/ aim' = [aim EXCEPT !.attempt = None]
  BY DEF Judge!Clear, Judge!Saved, JudgeInv, AboutToSend
<1>2. aim \in Goals /\ [aim EXCEPT !.attempt = None] \in Goals /\ [aim EXCEPT !.attempt = None].attempt = None
      /\ [aim EXCEPT !.attempt = None].status = aim.status
  BY GoalOf DEF JudgeInv, JudgeTypes
<1>3. aim' \in Goals /\ aim'.status = aim.status /\ aim'.attempt \in {aim.attempt, None}
  BY <1>1, <1>2
<1> QED
  BY <1>1, <1>3, JudgeEnds DEF JudgeInv, JudgeTypes, ScoreIsReport, Over

LEMMA JudgeAnswers ==
  ASSUME JudgeInv, NEW c \in Callers, NEW answer \in {"pass", "fail"}, NEW report \in {"known", "unknown"},
         Judge!Answer(c, answer, report)
  PROVE  JudgeInv'
<1>1. /\ step[c] = "asked" /\ UNCHANGED <<sent, counted>> /\ reports' = [reports EXCEPT ![job[c].op] = report]
      /\ aim \in Goals
  BY DEF Judge!Answer, JudgeInv, JudgeTypes
<1>2. job[c].op \in Judge!Operations /\ job[c].op \in Nat
  BY <1>1, OneJudges
<1>3. /\ reports' \in [Judge!Operations -> {"none", "known", "unknown"}] /\ reports'[job[c].op] = report
  BY <1>1, <1>2 DEF JudgeInv, JudgeTypes
<1>4. CASE aim.attempt = None
  <2>1. Judge!Proceed(c, "lost") /\ UNCHANGED aim
    BY <1>4 DEF Judge!Answer, Judge!Mine
  <2>2. sent' \subseteq Judge!Operations
    BY <1>1 DEF JudgeInv, JudgeTypes
  <2>3. JudgeTypes' /\ step'[c] = "lost" /\ job' = job /\ \A x \in Callers : x # c => step'[x] = "idle"
    BY <1>1, <1>3, <2>1, <2>2, Proceeds DEF JudgeInv, JudgeTypes
  <2> QED
    BY <1>1, <1>4, <2>1, <2>3 DEF JudgeInv, SentIsHeld, AboutToSend, ScoreIsReport, Over
<1>5. CASE aim.attempt # None
  <2> DEFINE t == [aim.attempt EXCEPT !.phase = "Scored", !.outcome = answer, !.usage = report]
             new == [aim EXCEPT !.attempt = t]
  <2>1. /\ aim.status # "Canceled" /\ aim.attempt.op = job[c].op /\ aim.attempt.phase = "Prepared"
    BY <1>1, <1>5 DEF JudgeInv, AboutToSend, ScoreIsReport
  <2>2. aim.attempt \in Attempts
    BY <1>1, <1>5, GoalOf
  <2>3. t \in Attempts /\ t # None /\ t.phase = "Scored" /\ t.op = job[c].op /\ t.usage = report
    <3>1. t \in Attempts
      BY <2>2 DEF Attempts
    <3>2. t # None
      BY <3>1, CompletionAssumption DEF Attempts
    <3>3. t.phase = "Scored" /\ t.op = aim.attempt.op /\ t.usage = report
      BY <2>2 DEF Attempts
    <3> QED
      BY <2>1, <3>1, <3>2, <3>3
  <2>4. new = [aim EXCEPT !.attempt.phase = "Scored", !.attempt.outcome = answer, !.attempt.usage = report]
    BY <1>1, <2>2 DEF Goals, Attempts
  <2> HIDE DEF t
  <2>5. new \in Goals /\ new.attempt = t /\ new.status = aim.status
    BY <1>1, <2>3, GoalOf
  <2>6. aim' \in {aim, new} /\ (Judge!Proceed(c, "settle") \/ Judge!Proceed(c, "lost"))
    BY <1>5, <2>1, <2>4 DEF Judge!Answer, Judge!Mine, Judge!Holds, Judge!Saved
  <2> HIDE DEF new
  <2>7. aim' \in Goals /\ aim'.status = aim.status /\ aim'.attempt \in {aim.attempt, t}
    BY <1>1, <2>5, <2>6
  <2>8. sent' \subseteq Judge!Operations
    BY <1>1 DEF JudgeInv, JudgeTypes
  <2>9. JudgeTypes' /\ step'[c] \in {"settle", "lost"} /\ job' = job /\ \A x \in Callers : x # c => step'[x] = "idle"
    BY <1>1, <1>3, <2>6, <2>7, <2>8, Proceeds DEF JudgeInv, JudgeTypes
  <2>10. AboutToSend'
    BY <2>9 DEF AboutToSend
  <2>11. SentIsHeld'
    BY <1>1, <1>5, <2>1, <2>3, <2>7 DEF JudgeInv, SentIsHeld, Over
  <2>12. ScoreIsReport'
    BY <1>2, <1>3, <2>1, <2>3, <2>7 DEF ScoreIsReport
  <2> QED
    BY <2>9, <2>10, <2>11, <2>12 DEF JudgeInv
<1> QED
  BY <1>4, <1>5

LEMMA ChargedOf ==
  ASSUME NEW g \in Goals, NEW h \in Judge!Charged(g)
  PROVE  /\ h \in Goals /\ h.attempt = g.attempt
         /\ h.status = g.status \/ (g.status = "Active" /\ h.status = "BudgetLimited")
<1>1. "BudgetLimited" \in Judge!Statuses
  BY DEF Judge!Statuses
<1>2. h = g \/ (g.status = "Active" /\ h = [g EXCEPT !.status = "BudgetLimited"])
  BY DEF Judge!Charged
<1>3. /\ [g EXCEPT !.status = "BudgetLimited"] \in Goals /\ [g EXCEPT !.status = "BudgetLimited"].attempt = g.attempt
      /\ [g EXCEPT !.status = "BudgetLimited"].status = "BudgetLimited"
  BY <1>1, GoalOf
<1> QED
  BY <1>2, <1>3

LEMMA JudgeSettles ==
  ASSUME JudgeInv, NEW c \in Callers, Judge!Settle(c)
  PROVE  JudgeInv'
<1>1. /\ step[c] \in {"settle", "lost"} /\ UNCHANGED <<sent, reports>> /\ aim \in Goals
      /\ UNCHANGED <<aim, counted>> \/ (aim' \in Judge!Charged(aim) /\ counted' = [counted EXCEPT ![job[c].op] = reports[job[c].op]])
      /\ Judge!Proceed(c, "recover") \/ Judge!Proceed(c, "finalize") \/ Judge!End(c)
  BY DEF Judge!Settle, JudgeInv, JudgeTypes
<1>2. job[c].op \in Judge!Operations
  BY <1>1, OneJudges
<1>3. counted' \in [Judge!Operations -> {"none", "known", "unknown"}]
  BY <1>1, <1>2 DEF JudgeInv, JudgeTypes
<1>4. /\ aim' \in Goals /\ aim'.attempt = aim.attempt
      /\ aim'.status = aim.status \/ (aim.status = "Active" /\ aim'.status = "BudgetLimited")
  BY <1>1, ChargedOf
<1>5. /\ sent' \subseteq Judge!Operations /\ reports' \in [Judge!Operations -> {"none", "known", "unknown"}]
      /\ aim'.status = "Canceled" => aim'.attempt = None
      /\ Over => Over'
  BY <1>1, <1>4 DEF JudgeInv, JudgeTypes, ScoreIsReport, Over
<1>6. CASE Judge!End(c)
  BY <1>1, <1>3, <1>4, <1>5, <1>6, JudgeEnds
<1>7. CASE Judge!Proceed(c, "recover") \/ Judge!Proceed(c, "finalize")
  <2>1. JudgeTypes' /\ step'[c] \in {"recover", "finalize"} /\ \A x \in Callers : x # c => step'[x] = "idle"
    BY <1>1, <1>3, <1>4, <1>5, <1>7, Proceeds
  <2>2. AboutToSend'
    BY <2>1 DEF AboutToSend
  <2>3. sent' = {} \/ Over' \/ aim'.attempt # None
    BY <1>1, <1>4, <1>5 DEF JudgeInv, SentIsHeld
  <2> QED
    BY <1>1, <1>4, <1>5, <2>1, <2>2, <2>3, Judged
<1> QED
  BY <1>1, <1>6, <1>7

\* A restart, or the caller whose outcome was not stored: what may have been
\* sent is unknown, and not free.
LEMMA InterruptedOf ==
  ASSUME NEW g \in Goals
  PROVE  /\ Judge!Interrupted(g) \in Goals
         /\ \/ Judge!Interrupted(g) = g /\ (g.attempt = None \/ g.attempt.phase \in {"Scored", "Unknown"})
            \/ /\ g.attempt # None /\ g.attempt.phase = "Claimed"
               /\ Judge!Interrupted(g).attempt = None /\ Judge!Interrupted(g).status = g.status
            \/ /\ g.attempt # None /\ g.attempt.phase = "Prepared"
               /\ Judge!Interrupted(g).attempt # None /\ Judge!Interrupted(g).attempt.op = g.attempt.op
               /\ Judge!Interrupted(g).attempt.usage = g.attempt.usage
               /\ Judge!Interrupted(g).attempt.phase = "Unknown"
               /\ Judge!Interrupted(g).status = IF g.status = "Active" THEN "Blocked" ELSE g.status
<1>1. CASE g.attempt = None
  BY <1>1 DEF Judge!Interrupted
<1>2. CASE g.attempt # None
  <2> DEFINE t == [g.attempt EXCEPT !.phase = "Unknown"]
             status == IF g.status = "Active" THEN "Blocked" ELSE g.status
             new == [g EXCEPT !.attempt.phase = "Unknown", !.status = IF @ = "Active" THEN "Blocked" ELSE @]
  <2>1. g.attempt \in Attempts /\ g.status \in Judge!Statuses
    BY <1>2, GoalOf
  <2>2. t \in Attempts /\ t # None /\ t.phase = "Unknown" /\ t.op = g.attempt.op /\ t.usage = g.attempt.usage
    BY <2>1, AttemptOf
  <2>3. status \in Judge!Statuses
    BY <2>1 DEF Judge!Statuses
  <2>4. new = [[g EXCEPT !.attempt = t] EXCEPT !.status = status]
    BY <2>1 DEF Goals
  <2> HIDE DEF t, status
  <2>5. [g EXCEPT !.attempt = t] \in Goals /\ [g EXCEPT !.attempt = t].attempt = t
    BY <2>2, GoalOf
  <2> DEFINE h == [g EXCEPT !.attempt = t]
  <2> HIDE DEF h
  <2>6. h \in Goals /\ h.attempt = t /\ new = [h EXCEPT !.status = status]
    BY <2>4, <2>5 DEF h
  <2> HIDE DEF new
  <2>7. new \in Goals /\ new.attempt = t /\ new.status = status
    BY <2>3, <2>6, GoalOf
  <2>8. CASE g.attempt.phase = "Prepared"
    <3>1. Judge!Interrupted(g) = new
      BY <1>2, <2>8 DEF Judge!Interrupted, new
    <3> QED
      BY <1>2, <2>2, <2>7, <2>8, <3>1 DEF status
  <2>9. CASE g.attempt.phase = "Claimed"
    BY <1>2, <2>9, GoalOf DEF Judge!Interrupted
  <2>10. CASE g.attempt.phase \in {"Scored", "Unknown"}
    BY <1>2, <2>10 DEF Judge!Interrupted
  <2>11. g.attempt.phase \in {"Claimed", "Prepared", "Scored", "Unknown"}
    BY <2>1 DEF Attempts
  <2> QED
    BY <2>8, <2>9, <2>10, <2>11
<1> QED
  BY <1>1, <1>2

LEMMA JudgeRecovers ==
  ASSUME JudgeInv, NEW c \in Callers, Judge!Recover(c)
  PROVE  JudgeInv'
<1>1. /\ step[c] = "recover" /\ Judge!End(c) /\ UNCHANGED <<sent, reports, counted>> /\ aim \in Goals
      /\ aim' = aim \/ (aim' = Judge!Interrupted(aim) /\ aim.attempt # None /\ aim.attempt.phase = "Prepared")
  BY DEF Judge!Recover, Judge!Saved, Judge!Holds, JudgeInv, JudgeTypes
<1>2. aim' \in Goals /\ (aim.status = aim'.status \/ (aim.status = "Active" /\ aim'.status = "Blocked"))
  BY <1>1, InterruptedOf
<1>3. \/ aim'.attempt = aim.attempt
      \/ /\ aim.attempt # None /\ aim'.attempt # None /\ aim'.attempt.op = aim.attempt.op
         /\ aim'.attempt.usage = aim.attempt.usage /\ aim'.attempt.phase = "Unknown"
  BY <1>1, InterruptedOf
<1>4. aim'.status = "Canceled" => aim'.attempt = None
  BY <1>2, <1>3 DEF JudgeInv, ScoreIsReport
<1> QED
  BY <1>1, <1>2, <1>3, <1>4, JudgeEnds DEF Over, JudgeInv, JudgeTypes

LEMMA JudgeFinalizes ==
  ASSUME JudgeInv, NEW c \in Callers, Judge!Finalize(c)
  PROVE  JudgeInv'
<1>1. /\ step[c] = "finalize" /\ Judge!End(c) /\ UNCHANGED <<sent, reports, counted>> /\ aim \in Goals
      /\ aim' = aim \/ aim' = [aim EXCEPT !.status = "Complete"]
  BY DEF Judge!Finalize, Judge!Saved, JudgeInv, JudgeTypes
<1>2. "Complete" \in Judge!Statuses
  BY DEF Judge!Statuses
<1>3. /\ [aim EXCEPT !.status = "Complete"] \in Goals /\ [aim EXCEPT !.status = "Complete"].attempt = aim.attempt
      /\ [aim EXCEPT !.status = "Complete"].status = "Complete"
  BY <1>1, <1>2, GoalOf
<1>4. aim' \in Goals /\ aim'.attempt = aim.attempt /\ (aim'.status = aim.status \/ aim'.status = "Complete")
  BY <1>1, <1>3
<1> QED
  BY <1>1, <1>4, JudgeEnds DEF Over, JudgeInv, JudgeTypes, ScoreIsReport

\* Steps of the owner: no caller moves.
LEMMA JudgeOwner ==
  ASSUME JudgeInv, UNCHANGED <<reports, counted, judging, step, job>>, sent' \subseteq sent, aim' \in Goals,
         aim'.status = "Canceled" => aim'.attempt = None,
         \/ aim'.attempt = aim.attempt /\ (sent' = sent \/ sent' = {})
         \/ aim'.attempt = None /\ (aim'.status = "Canceled" \/ (sent' = {} /\ (aim.attempt = None \/ aim.attempt.phase \in {"Scored", "Unknown"}))),
         aim.status # "Canceled", Over => Over'
  PROVE  JudgeInv'
<1>1. JudgeTypes'
  BY DEF JudgeInv, JudgeTypes
<1>2. AboutToSend'
  BY DEF JudgeInv, AboutToSend
<1>3. sent' = {} \/ Over' \/ aim'.attempt # None
  BY DEF JudgeInv, SentIsHeld, Over
<1> QED
  BY <1>1, <1>2, <1>3, Judged

LEMMA JudgeTurns ==
  ASSUME JudgeInv, Judge!Pause \/ Judge!Resume \/ Judge!RecordTurn \/ Judge!Cancel
  PROVE  JudgeInv'
<1>1. UNCHANGED <<reports, counted, judging, step, job, sent>> /\ aim \in Goals
  BY DEF Judge!Pause, Judge!Resume, Judge!RecordTurn, Judge!Cancel, Judge!Turns, JudgeInv, JudgeTypes
<1>2. CASE Judge!Cancel
  <2> DEFINE g == [aim EXCEPT !.attempt = None]
  <2>1. aim' = [g EXCEPT !.status = "Canceled"]
    BY <1>1, <1>2 DEF Judge!Cancel, Goals
  <2>2. g \in Goals /\ g.attempt = None
    BY <1>1, GoalOf
  <2>3. "Canceled" \in Judge!Statuses
    BY DEF Judge!Statuses
  <2> HIDE DEF g
  <2>4. aim' \in Goals /\ aim'.status = "Canceled" /\ aim'.attempt = None
    BY <2>1, <2>2, <2>3, GoalOf
  <2>5. aim.status # "Canceled"
    BY <1>2 DEF Judge!Cancel, Judge!Is
  <2> QED
    BY <1>1, <2>4, <2>5, JudgeOwner DEF Over
<1>3. CASE Judge!Pause \/ Judge!Resume \/ Judge!RecordTurn
  <2>1. PICK to \in {"Paused", "Active", "Blocked", "BudgetLimited"} :
          aim.status \in {"Active", "Paused", "Blocked"} /\ aim' = [aim EXCEPT !.status = to]
    BY <1>3 DEF Judge!Pause, Judge!Resume, Judge!RecordTurn, Judge!Turns
  <2>2. to \in Judge!Statuses
    BY DEF Judge!Statuses
  <2>3. aim' \in Goals /\ aim'.status = to /\ aim'.attempt = aim.attempt
    BY <1>1, <2>1, <2>2, GoalOf
  <2> QED
    BY <1>1, <2>1, <2>3, JudgeOwner DEF Over
<1> QED
  BY <1>2, <1>3

LEMMA JudgeAdjusts ==
  ASSUME JudgeInv, Judge!Adjust
  PROVE  JudgeInv'
<1> DEFINE kept == Judge!Is({"BudgetLimited"})
                   /\ (Judge!Holds({"Claimed", "Prepared"}) \/ (Judge!Holds({"Scored"}) /\ aim.attempt.outcome = "pass"))
           new == [status |-> "Active", attempt |-> IF kept THEN aim.attempt ELSE None]
<1>1. /\ UNCHANGED <<reports, counted, judging, step, job>> /\ aim \in Goals /\ aim' = new
      /\ sent' = IF kept THEN sent ELSE {}
  BY DEF Judge!Adjust, JudgeInv, JudgeTypes
<1>2. aim.status \in {"Blocked", "Active", "BudgetLimited"}
  BY DEF Judge!Adjust, Judge!Is
<1>3. ~ kept => (aim.attempt = None \/ aim.attempt.phase \in {"Scored", "Unknown"})
  <2>1. aim.attempt # None => aim.attempt.phase \in {"Claimed", "Prepared", "Scored", "Unknown"}
    BY <1>1, GoalOf DEF Attempts
  <2> QED
    BY <2>1 DEF Judge!Adjust, Judge!Is, Judge!Holds
<1> HIDE DEF kept
<1>4. aim.attempt \in Attempts \cup {None} /\ "Active" \in Judge!Statuses
  BY <1>1, GoalOf DEF Judge!Statuses
<1>5. new \in Goals /\ new.status = "Active" /\ new.attempt = IF kept THEN aim.attempt ELSE None
  BY <1>4 DEF Goals
<1> HIDE DEF new
<1>6. sent' \subseteq sent
  BY <1>1
<1>7. CASE kept
  BY <1>1, <1>2, <1>5, <1>6, <1>7, JudgeOwner DEF Over
<1>8. CASE ~ kept
  BY <1>1, <1>2, <1>3, <1>5, <1>6, <1>8, JudgeOwner DEF Over
<1> QED
  BY <1>7, <1>8

LEMMA JudgeRestarts ==
  ASSUME JudgeInv, Judge!Restart
  PROVE  JudgeInv'
<1>1. /\ UNCHANGED <<reports, sent>> /\ judging' = None /\ step' = [c \in Callers |-> "idle"] /\ job' = [c \in Callers |-> None]
      /\ aim \in Goals
      /\ \E g \in Goals : /\ aim' = Judge!Reconciled(g) /\ g.attempt = aim.attempt
                          /\ g.status = aim.status \/ (aim.status = "Active" /\ g.status = "BudgetLimited")
  <2>1. aim \in Goals
    BY DEF JudgeInv, JudgeTypes
  <2>2. \E g \in Judge!Charged(aim) \cup {aim} : aim' = Judge!Reconciled(g)
    BY DEF Judge!Restart
  <2> QED
    BY <2>1, <2>2, ChargedOf DEF Judge!Restart
<1>2. PICK g \in Goals : /\ aim' = Judge!Reconciled(g) /\ g.attempt = aim.attempt
                         /\ g.status = aim.status \/ (aim.status = "Active" /\ g.status = "BudgetLimited")
  BY <1>1
<1>3. \/ aim' = [g EXCEPT !.attempt = None] /\ g.status \in {"Canceled", "Complete"}
      \/ aim' = Judge!Interrupted(g) /\ g.status # "Canceled"
  BY <1>2 DEF Judge!Reconciled
<1>4. /\ [g EXCEPT !.attempt = None] \in Goals /\ [g EXCEPT !.attempt = None].attempt = None
      /\ [g EXCEPT !.attempt = None].status = g.status
  BY GoalOf
<1>5. /\ aim' \in Goals /\ (g.status = aim'.status \/ (g.status = "Active" /\ aim'.status = "Blocked"))
      /\ aim'.status = "Canceled" => aim'.attempt = None
      /\ \/ aim'.attempt = aim.attempt
         \/ aim'.attempt = None /\ (sent = {} \/ Over')
         \/ /\ aim.attempt # None /\ aim'.attempt # None /\ aim'.attempt.op = aim.attempt.op
            /\ aim'.attempt.usage = aim.attempt.usage /\ aim'.attempt.phase = "Unknown"
  <2>1. CASE aim' = [g EXCEPT !.attempt = None] /\ g.status \in {"Canceled", "Complete"}
    BY <1>4, <2>1 DEF Over
  <2>2. CASE aim' = Judge!Interrupted(g) /\ g.status # "Canceled"
    <3>1. aim' \in Goals /\ (g.status = aim'.status \/ (g.status = "Active" /\ aim'.status = "Blocked"))
      BY <2>2, InterruptedOf
    <3>2. aim'.status # "Canceled"
      BY <2>2, <3>1
    <3>3. g.attempt # None /\ g.attempt.phase = "Claimed" => sent = {} \/ Over
      BY <1>2 DEF JudgeInv, SentIsHeld
    <3>4. Over => Over'
      BY <1>2, <3>1 DEF Over
    <3> QED
      BY <1>2, <2>2, <3>1, <3>2, <3>3, <3>4, InterruptedOf
  <2> QED
    BY <1>3, <2>1, <2>2
<1>6. counted' \in [Judge!Operations -> {"none", "known", "unknown"}]
  <2>1. \A n \in Judge!Operations : Judge!Hydrated(n) \in {"none", "known", "unknown"}
    BY DEF Judge!Hydrated, Judge!Holds, JudgeInv, JudgeTypes, ScoreIsReport
  <2> QED
    BY <2>1 DEF Judge!Restart, JudgeInv, JudgeTypes
<1>7. JudgeTypes'
  BY <1>1, <1>5, <1>6 DEF JudgeInv, JudgeTypes
<1>8. AboutToSend'
  BY <1>1 DEF AboutToSend
<1>9. Over => Over'
  BY <1>2, <1>5 DEF Over
<1>10. sent' = {} \/ Over' \/ aim'.attempt # None
  BY <1>1, <1>5, <1>9 DEF JudgeInv, SentIsHeld
<1> QED
  BY <1>1, <1>5, <1>7, <1>8, <1>9, <1>10, Judged

LEMMA JudgeStep ==
  ASSUME JudgeInv, Judge!NextCompletion
  PROVE  JudgeInv'
<1>1. ASSUME NEW c \in Callers, Judge!Begin(c) \/ Judge!Ask(c) \/ Judge!Discard(c)
      PROVE  JudgeInv'
  <2>1. CASE Judge!Begin(c)
    BY <2>1, JudgeRests DEF Judge!Begin
  <2>2. CASE Judge!Ask(c)
    BY <2>2, JudgeRests DEF Judge!Ask
  <2>3. CASE Judge!Discard(c)
    BY <2>3, JudgeRests DEF Judge!Discard
  <2> QED
    BY <1>1, <2>1, <2>2, <2>3
<1>2. ASSUME NEW c \in Callers, Judge!Drop(c)
      PROVE  JudgeInv'
  BY <1>2, JudgeEnds DEF Judge!Drop, JudgeInv, JudgeTypes, ScoreIsReport, Over
<1> QED
  BY <1>1, <1>2, JudgeAdmits, JudgePrepares, JudgeClears, JudgeAnswers, JudgeSettles, JudgeRecovers, JudgeFinalizes,
     JudgeTurns, JudgeAdjusts, JudgeRestarts DEF Judge!NextCompletion, Judge!Request

LEMMA JudgeKept == ServicesSpec => []JudgeInv
<1>1. ServicesInit => JudgeInv
  BY JudgeInit, Chosen
<1>2. JudgeInv /\ UNCHANGED completions => JudgeInv'
  BY DEF JudgeInv, JudgeTypes, SentIsHeld, AboutToSend, ScoreIsReport, Over, completions
<1>3. JudgeInv /\ [ServicesNext]_services => JudgeInv'
  <2>1. [ServicesNext]_services => Judge!NextCompletion \/ UNCHANGED completions
    BY DEF ServicesNext, services
  <2> QED
    BY <1>2, <2>1, JudgeStep
<1> QED
  BY <1>1, <1>3, PTL DEF ServicesSpec

\* A judgement is paid for once until the owner adjusts the Goal, whatever
\* failed, was dropped, cancelled or restarted (admit_completion,
\* recover_interrupted_completion).
THEOREM JudgedOnceHolds == ServicesSpec => []JudgedOnce
<1>1. ASSUME NEW S, NEW d, S \subseteq {d}
      PROVE  Judge!Cardinality(S) <= 1
  <2>1. S = {} \/ S = {d}
    BY <1>1
  <2>2. Cardinality(S) \in {0, 1}
    BY <2>1, FS_EmptySet, FS_Singleton
  <2> QED
    BY <2>2 DEF Judge!Cardinality, Cardinality
<1>2. JudgeInv => Judge!JudgedOnce
  BY <1>1 DEF JudgeInv, SentIsHeld, Judge!JudgedOnce
<1>3. JudgeInv => JudgedOnce
  BY <1>2 DEF JudgedOnce
<1> QED
  BY <1>3, JudgeKept, PTL

\* What a Goal knows of the cost of its judgement is never counted as unknown,
\* by the settlement or by a restart (hydrate_completion_usage_in).
THEOREM KnownIsCountedHolds == ServicesSpec => KnownIsCounted
<1>1. JudgeInv /\ [ServicesNext]_services =>
        [\A op \in Judge!Operations :
           counted[op] = "none" /\ counted'[op] = "unknown"
             => ~ (Judge!Holds({"Scored"}) /\ aim.attempt.op = op /\ aim.attempt.usage = "known")]_(Judge!completion)
  <2> SUFFICES ASSUME JudgeInv, Judge!NextCompletion, NEW n \in Judge!Operations,
                      counted[n] = "none", counted'[n] = "unknown",
                      Judge!Holds({"Scored"}), aim.attempt.op = n, aim.attempt.usage = "known"
               PROVE  FALSE
    <3>1. [ServicesNext]_services => Judge!NextCompletion \/ UNCHANGED Judge!completion
      BY DEF ServicesNext, services, completions, Judge!completion
    <3> QED
      BY <3>1
  <2>1. reports[n] = "known"
    BY DEF JudgeInv, ScoreIsReport, Judge!Holds
  <2>2. ASSUME NEW c \in Callers, Judge!Settle(c)
        PROVE  FALSE
    <3>1. step[c] # "idle" /\ (counted' = counted \/ counted' = [counted EXCEPT ![job[c].op] = reports[job[c].op]])
      BY <2>2 DEF Judge!Settle
    <3> QED
      BY <2>1, <3>1 DEF JudgeInv, JudgeTypes
  <2>3. CASE Judge!Restart
    BY <2>3 DEF Judge!Restart, Judge!Hydrated
  <2>4. CASE UNCHANGED counted
    BY <2>4
  <2> QED
    BY <2>2, <2>3, <2>4 DEF Judge!NextCompletion, Judge!Request, Judge!Admit, Judge!Begin, Judge!Prepare, Judge!Ask, Judge!Drop,
       Judge!Discard, Judge!Clear, Judge!Answer, Judge!Recover, Judge!Finalize, Judge!Pause, Judge!Resume, Judge!RecordTurn,
       Judge!Turns, Judge!Cancel, Judge!Adjust
<1>2. ServicesSpec =>
        [][\A op \in Judge!Operations :
             counted[op] = "none" /\ counted'[op] = "unknown"
               => ~ (Judge!Holds({"Scored"}) /\ aim.attempt.op = op /\ aim.attempt.usage = "known")]_(Judge!completion)
  BY <1>1, JudgeKept, PTL DEF ServicesSpec
<1> QED
  BY <1>2 DEF KnownIsCounted, Judge!KnownIsCounted

-----------------------------------------------------------------------------
(* The journal of a workflow *)

Lines == [Steps -> {"none", "started", "done"}]
FlowJournals == [lines : Lines, broken : BOOLEAN]

\* What was dispatched and did not expire.
Alive == {s \in dispatches : \A x \in forgotten : x[1] # s}

FlowTypes ==
  /\ journal \in FlowJournals /\ journalMay \subseteq FlowJournals
  /\ script \in [Executions -> {"on", "off"}]
  /\ results \in [Executions -> SUBSET Steps] /\ intents \in [Executions -> SUBSET Steps]
  /\ dispatches \subseteq Steps

OneExecution == \A x, y \in Executions : script[x] = "on" /\ script[y] = "on" => x = y

\* What was dispatched has a line in every journal that a restart may find, and
\* an execution that is at work knows of it.
Traced == \A s \in Alive : \A f \in journalMay \cup {journal} : f.lines[s] # "none"
Recalled == \A s \in Alive, x \in Executions : script[x] = "on" => s \in results[x] \cup intents[x]

FlowInv == FlowTypes /\ OneExecution /\ Traced /\ Recalled /\ Engine!DispatchedOnce

LEMMA FlowInit == Engine!InitWorkflow => FlowInv
BY DEF Engine!InitWorkflow, FlowInv, FlowTypes, OneExecution, Traced, Recalled, Alive, FlowJournals, Lines,
     Engine!Empty, Engine!DispatchedOnce

\* What the append of a line that is the newer state of its step leaves.
LEMMA AppendTraces ==
  ASSUME FlowInv, NEW s \in Steps, NEW p \in {"started", "done"},
         \/ Engine!Appended(Engine!Line(s, p))
         \/ Engine!Refused(Engine!Line(s, p))
  PROVE  /\ journal' \in FlowJournals /\ journalMay' \subseteq FlowJournals
         /\ \A z \in Alive : \A f \in journalMay' \cup {journal'} : f.lines[z] # "none"
         /\ Engine!Appended(Engine!Line(s, p)) =>
              \A f \in journalMay' \cup {journal'} : f.lines[s] # "none"
<1> DEFINE line == Engine!Line(s, p)
<1>1. /\ line \in FlowJournals /\ line.lines[s] # "none"
      /\ \A z \in Steps : journal.lines[z] # "none" => line.lines[z] # "none"
  BY DEF Engine!Line, FlowInv, FlowTypes, FlowJournals, Lines
<1>2. Engine!Broken \in FlowJournals /\ Engine!Broken.lines = journal.lines
  BY DEF Engine!Broken, FlowInv, FlowTypes, FlowJournals
<1>3. \A f \in journalMay' \cup {journal'} : f \in journalMay \cup {journal, line, Engine!Broken}
  BY DEF Engine!Appended, Engine!Refused, Engine!NotAppended, Engine!Unsynced
<1>4. Engine!Appended(line) => journal' = line /\ journalMay' = {line}
  BY DEF Engine!Appended
<1>5. Alive \subseteq Steps
  BY DEF Alive, FlowInv, FlowTypes
<1>6. journalMay \cup {journal} \subseteq FlowJournals /\ Traced
  BY DEF FlowInv, FlowTypes
<1> HIDE DEF line
<1>7. journal' \in FlowJournals /\ journalMay' \subseteq FlowJournals
  BY <1>1, <1>2, <1>3, <1>6
<1>8. \A z \in Alive : \A f \in journalMay' \cup {journal'} : f.lines[z] # "none"
  BY <1>1, <1>2, <1>3, <1>5, <1>6 DEF Traced
<1> QED
  BY <1>1, <1>4, <1>7, <1>8 DEF line

LEMMA OpenFlow ==
  ASSUME FlowInv, NEW x \in Executions, Engine!Open(x)
  PROVE  FlowInv'
<1> DEFINE old == {s \in aged : journal.lines[s] # "none"}
           kept == [journal EXCEPT !.lines = [s \in Steps |-> IF s \in old THEN "none" ELSE @[s]]]
<1>1. /\ UNCHANGED <<dispatches, repeats>>
      /\ forgotten' = forgotten \cup {<<s, journal.lines[s]>> : s \in old}
      /\ \A y \in Executions : script[y] = "off"
  BY DEF Engine!Open, Engine!Locked
<1>2. Alive' \subseteq Alive /\ \A s \in Alive' : s \notin old
  <2> HIDE DEF old
  <2>1. Alive' \subseteq Alive
    BY <1>1 DEF Alive
  <2>2. ASSUME NEW s \in old
        PROVE  s \notin Alive'
    <3>1. <<s, journal.lines[s]>> \in forgotten' /\ <<s, journal.lines[s]>>[1] = s
      BY <1>1
    <3> QED
      BY <3>1 DEF Alive
  <2> QED
    BY <2>1, <2>2
<1>3. /\ kept \in FlowJournals
      /\ \A s \in Steps : s \notin old => kept.lines[s] = journal.lines[s]
      /\ old = {} => kept = journal
  BY DEF FlowInv, FlowTypes, FlowJournals, Lines
<1>4. \/ /\ journal' = kept /\ (journalMay' = {kept} \/ (old = {} /\ journalMay' = journalMay))
         /\ script' = [script EXCEPT ![x] = "on"]
         /\ results' = [results EXCEPT ![x] = {s \in Steps : kept.lines[s] = "done"}]
         /\ intents' = [intents EXCEPT ![x] = {s \in Steps : kept.lines[s] = "started"}]
      \/ journal' = kept /\ journalMay' = journalMay \cup {kept} /\ UNCHANGED <<script, results, intents>>
  BY <1>3 DEF Engine!Open, Engine!Appended, Engine!Unsynced, Engine!Opened
<1> HIDE DEF kept, old
<1>5. FlowTypes' /\ OneExecution'
  BY <1>1, <1>3, <1>4 DEF FlowInv, FlowTypes, OneExecution
<1>6. Engine!DispatchedOnce'
  BY <1>1 DEF FlowInv, Engine!DispatchedOnce
<1>7. Alive' \subseteq Steps
  BY <1>5 DEF Alive, FlowTypes
<1>8. \A s \in Alive' : kept.lines[s] \in {"started", "done"}
  BY <1>2, <1>3, <1>7 DEF FlowInv, Traced, FlowJournals, Lines
<1>9. Traced'
  BY <1>2, <1>4, <1>8 DEF FlowInv, Traced
<1>10. Recalled'
  BY <1>1, <1>4, <1>7, <1>8 DEF FlowInv, FlowTypes, Recalled
<1> QED
  BY <1>5, <1>6, <1>9, <1>10 DEF FlowInv

LEMMA BeginFlow ==
  ASSUME FlowInv, NEW x \in Executions, NEW s \in Steps, script[x] = "on", Engine!Begin(x, s),
         UNCHANGED <<script, forgotten>>
  PROVE  FlowInv'
<1>1. UNCHANGED results /\ s \notin results[x] /\ s \notin intents[x]
  BY DEF Engine!Begin, Engine!State
<1>2. s \notin Alive
  BY <1>1 DEF FlowInv, Recalled
<1>3. CASE /\ Engine!Appended(Engine!Line(s, "started"))
           /\ intents' = [intents EXCEPT ![x] = @ \cup {s}]
           /\ dispatches' = dispatches \cup {s} /\ repeats' = repeats \cup (dispatches \cap {s})
  <2>1. Alive' \subseteq Alive \cup {s}
    BY <1>3 DEF Alive
  <2>2. FlowTypes' /\ OneExecution'
    BY <1>1, <1>3, AppendTraces DEF FlowInv, FlowTypes, OneExecution
  <2>3. Traced'
    BY <1>3, <2>1, AppendTraces DEF Traced
  <2>4. Recalled'
    BY <1>1, <1>3, <2>1 DEF FlowInv, FlowTypes, OneExecution, Recalled
  <2>5. Engine!DispatchedOnce'
    BY <1>2, <1>3 DEF FlowInv, Engine!DispatchedOnce, Alive
  <2> QED
    BY <2>2, <2>3, <2>4, <2>5 DEF FlowInv
<1>4. CASE Engine!Refused(Engine!Line(s, "started")) /\ UNCHANGED <<intents, dispatches, repeats>>
  <2>1. Alive' = Alive
    BY <1>4 DEF Alive
  <2> QED
    BY <1>1, <1>4, <2>1, AppendTraces
       DEF FlowInv, FlowTypes, OneExecution, Traced, Recalled, Engine!DispatchedOnce
<1> QED
  BY <1>3, <1>4 DEF Engine!Begin

LEMMA RecordFlow ==
  ASSUME FlowInv, NEW x \in Executions, NEW s \in Steps, Engine!Record(x, s)
  PROVE  FlowInv'
<1>1. /\ UNCHANGED <<script, dispatches, repeats, forgotten>>
      /\ intents' = [intents EXCEPT ![x] = @ \ {s}] /\ results' = [results EXCEPT ![x] = @ \cup {s}]
      /\ Engine!Appended(Engine!Line(s, "done")) \/ Engine!Refused(Engine!Line(s, "done"))
  BY DEF Engine!Record
<1>2. Alive' = Alive
  BY <1>1 DEF Alive
<1> QED
  BY <1>1, <1>2, AppendTraces DEF FlowInv, FlowTypes, OneExecution, Traced, Recalled, Engine!DispatchedOnce

\* A step that leaves the traces alone, or stops the executions xs.
LEMMA QuietFlow ==
  ASSUME FlowInv, UNCHANGED <<dispatches, repeats, forgotten>>,
         journal' \in journalMay \cup {journal, Engine!Broken},
         journalMay' \subseteq journalMay \cup {journal'},
         UNCHANGED <<script, results, intents>> \/ \E xs : Engine!Gone(xs)
  PROVE  FlowInv'
<1>1. Alive' = Alive /\ Alive \subseteq Steps
  BY DEF Alive, FlowInv, FlowTypes
<1>2. Engine!Broken \in FlowJournals /\ Engine!Broken.lines = journal.lines
  BY DEF Engine!Broken, FlowInv, FlowTypes, FlowJournals
<1>3. journal' \in FlowJournals /\ journalMay' \subseteq FlowJournals /\ Traced'
  BY <1>1, <1>2 DEF FlowInv, FlowTypes, Traced
<1>4. FlowTypes' /\ OneExecution' /\ Recalled'
  BY <1>1, <1>3 DEF FlowInv, FlowTypes, OneExecution, Recalled, Engine!Gone
<1> QED
  BY <1>3, <1>4 DEF FlowInv, Engine!DispatchedOnce

\* However often a workflow is invoked again under its run id, a step whose
\* entry did not expire is dispatched once (begin, resume_gate, lock_journal).
THEOREM DispatchedOnceHolds == ServicesSpec => []DispatchedOnce
<1>1. ServicesInit => FlowInv
  BY FlowInit, Chosen
<1>2. ASSUME FlowInv, Engine!NextWorkflow
      PROVE  FlowInv'
  <2>1. ASSUME NEW x \in Executions, NEW s \in Steps, Engine!ResumeGate(x, s)
        PROVE  FlowInv'
    <3>1. script[x] = "on" /\ UNCHANGED <<script, forgotten>>
      BY <2>1 DEF Engine!ResumeGate
    <3>2. CASE Engine!Cached(x, s) \/ Engine!Unknown(x, s)
      BY <1>2, <3>1, <3>2, QuietFlow DEF Engine!Cached, Engine!Unknown
    <3> QED
      BY <1>2, <2>1, <3>1, <3>2, BeginFlow DEF Engine!ResumeGate
  <2>2. ASSUME NEW x \in Executions, Engine!Ends(x)
        PROVE  FlowInv'
    BY <1>2, <2>2, QuietFlow DEF Engine!Ends
  <2>3. ASSUME NEW x \in Executions, NEW s \in Steps, Engine!Fails(x, s)
        PROVE  FlowInv'
    BY <1>2, <2>3, QuietFlow DEF Engine!Fails
  <2>4. CASE Engine!Stop
    BY <1>2, <2>4, QuietFlow DEF Engine!Stop
  <2>5. CASE Engine!AWeekPasses
    BY <1>2, <2>5, QuietFlow DEF Engine!AWeekPasses
  <2> QED
    BY <1>2, <2>1, <2>2, <2>3, <2>4, <2>5, OpenFlow, RecordFlow DEF Engine!NextWorkflow
<1>3. FlowInv /\ UNCHANGED flows => FlowInv'
  BY DEF FlowInv, FlowTypes, OneExecution, Traced, Recalled, Alive, Engine!DispatchedOnce, flows
<1>4. (component = "workflow" => FlowInv) /\ [ServicesNext]_services => (component = "workflow" => FlowInv)'
  BY <1>2, <1>3, Chosen
<1>5. (component = "workflow" => FlowInv) => DispatchedOnce
  BY DEF DispatchedOnce, FlowInv
<1> QED
  BY <1>1, <1>4, <1>5, PTL DEF ServicesSpec

-----------------------------------------------------------------------------
(* A custom provider *)

Configs == [provider : Nat, edits : Nat]
Journals == {Settings!NoJournal} \cup [phase : {"prepared", "committed"}, config : Configs, auth : Nat]
Recoveries == {"recover", "restore config", "restore auth", "unlink"}
Amid == {"gate", "write config", "write auth", "undo auth", "undo config", "mark"}
Deals == {Settings!Idle} \cup {[at |-> "down"]} \cup [at : Recoveries, then : {"serve"}]
           \cup [at : Recoveries \cup Amid \cup {"lock", "clean up", "commit"}, then : {"lock", "over"}, version : Nat]

ProviderTypes ==
  /\ files \in [config : Configs, auth : Nat, journal : Journals]
  /\ filesMay \in [config : SUBSET Configs, auth : SUBSET Nat, journal : SUBSET Journals]
  /\ files.config \in filesMay.config /\ files.auth \in filesMay.auth /\ files.journal \in filesMay.journal
  /\ deal \in Deals /\ deals \in Nat

\* Whatever a loss of power may leave of the config and the key, they are of
\* one transaction.
OneDeal == \A c \in filesMay.config, a \in filesMay.auth : c.provider = a /\ a \in agreed

\* They are, unless every journal that may be left takes them back; and what a
\* journal takes them back to is of one transaction.
TornIsPrepared ==
  /\ \A j \in filesMay.journal : j.phase # "prepared" => OneDeal
  /\ \A j \in filesMay.journal : j.phase = "prepared" => j.config.provider = j.auth /\ j.auth \in agreed
  /\ files.journal.phase = "prepared" =>
       \A j \in filesMay.journal : j.phase # "prepared" => \A a \in filesMay.auth : a = files.journal.auth

\* How far the transaction, or its recovery, is.
PlaceOfDeal ==
  /\ deal.at = "lock" => files.journal = Settings!NoJournal
  /\ deal.at \in Amid \cup {"restore config", "restore auth"} => files.journal.phase = "prepared"
  /\ deal.at \in Amid => filesMay.journal = {files.journal}
  /\ deal.at = "write auth" => files.config.provider = deal.version
  /\ deal.at = "mark" =>
       \A c \in filesMay.config, a \in filesMay.auth : c.provider = deal.version /\ a = deal.version
  /\ deal.at = "restore auth" => files.config.provider = files.journal.auth
  /\ deal.at = "commit" => files.journal.phase = "committed"
  /\ deal.at \in {"clean up", "unlink"} => OneDeal

ProviderInv == ProviderTypes /\ TornIsPrepared /\ PlaceOfDeal

LEMMA ProviderInit == Settings!InitProvider => ProviderInv
<1> SUFFICES ASSUME Settings!InitProvider
             PROVE  ProviderInv
  OBVIOUS
<1>1. /\ files = [config |-> [provider |-> 0, edits |-> 0], auth |-> 0, journal |-> Settings!NoJournal]
      /\ filesMay = [g \in DOMAIN files |-> {files[g]}] /\ deal = Settings!Idle /\ deals = 0 /\ agreed = {0}
  BY DEF Settings!InitProvider
<1>2. DOMAIN files = {"config", "auth", "journal"}
  BY <1>1
<1>3. filesMay = [config |-> {files.config}, auth |-> {files.auth}, journal |-> {files.journal}]
  BY <1>1, <1>2
<1>4. ProviderTypes
  BY <1>1, <1>3 DEF ProviderTypes, Configs, Journals, Deals
<1>5. TornIsPrepared
  BY <1>1, <1>3 DEF TornIsPrepared, OneDeal, Settings!NoJournal
<1> QED
  BY <1>1, <1>4, <1>5 DEF ProviderInv, PlaceOfDeal, Settings!Idle, Amid

\* A write of one file: all three are durable, or its new content is one more
\* that may be left.
AllDurable ==
  filesMay' = [config |-> {files'.config}, auth |-> {files'.auth}, journal |-> {files'.journal}]

LEMMA DurableAll ==
  ASSUME ProviderTypes, NEW f \in {"config", "auth", "journal"}, NEW new, Settings!Durable(f, new)
  PROVE  AllDurable
<1>1. DOMAIN files = {"config", "auth", "journal"}
  BY DEF ProviderTypes
<1> QED
  BY <1>1 DEF Settings!Durable, AllDurable

LEMMA SeenConfig ==
  ASSUME ProviderTypes, NEW new \in Configs, Settings!Seen("config", new)
  PROVE  /\ files' \in [config : Configs, auth : Nat, journal : Journals]
         /\ files'.config = new /\ files'.auth = files.auth /\ files'.journal = files.journal
         /\ \/ AllDurable
            \/ /\ filesMay' \in [config : SUBSET Configs, auth : SUBSET Nat, journal : SUBSET Journals]
               /\ filesMay'.config = filesMay.config \cup {new}
               /\ filesMay'.auth = filesMay.auth /\ filesMay'.journal = filesMay.journal
<1>1. files' = [files EXCEPT !.config = new]
  BY DEF Settings!Seen, Settings!Durable, Settings!Unsure
<1>2. AllDurable \/ filesMay' = [filesMay EXCEPT !.config = @ \cup {new}]
  BY DurableAll DEF Settings!Seen, Settings!Unsure
<1> QED
  BY <1>1, <1>2 DEF ProviderTypes

LEMMA SeenAuth ==
  ASSUME ProviderTypes, NEW new \in Nat, Settings!Seen("auth", new)
  PROVE  /\ files' \in [config : Configs, auth : Nat, journal : Journals]
         /\ files'.config = files.config /\ files'.auth = new /\ files'.journal = files.journal
         /\ \/ AllDurable
            \/ /\ filesMay' \in [config : SUBSET Configs, auth : SUBSET Nat, journal : SUBSET Journals]
               /\ filesMay'.auth = filesMay.auth \cup {new}
               /\ filesMay'.config = filesMay.config /\ filesMay'.journal = filesMay.journal
<1>1. files' = [files EXCEPT !.auth = new]
  BY DEF Settings!Seen, Settings!Durable, Settings!Unsure
<1>2. AllDurable \/ filesMay' = [filesMay EXCEPT !.auth = @ \cup {new}]
  BY DurableAll DEF Settings!Seen, Settings!Unsure
<1> QED
  BY <1>1, <1>2 DEF ProviderTypes

LEMMA SeenJournal ==
  ASSUME ProviderTypes, NEW new \in Journals, Settings!Seen("journal", new)
  PROVE  /\ files' \in [config : Configs, auth : Nat, journal : Journals]
         /\ files'.config = files.config /\ files'.auth = files.auth /\ files'.journal = new
         /\ \/ AllDurable
            \/ /\ filesMay' \in [config : SUBSET Configs, auth : SUBSET Nat, journal : SUBSET Journals]
               /\ filesMay'.journal = filesMay.journal \cup {new}
               /\ filesMay'.config = filesMay.config /\ filesMay'.auth = filesMay.auth
<1>1. files' = [files EXCEPT !.journal = new]
  BY DEF Settings!Seen, Settings!Durable, Settings!Unsure
<1>2. AllDurable \/ filesMay' = [filesMay EXCEPT !.journal = @ \cup {new}]
  BY DurableAll DEF Settings!Seen, Settings!Unsure
<1> QED
  BY <1>1, <1>2 DEF ProviderTypes

\* What may be left once all is durable.
LEMMA OfDurable ==
  ASSUME AllDurable, files' \in [config : Configs, auth : Nat, journal : Journals]
  PROVE  /\ filesMay' \in [config : SUBSET Configs, auth : SUBSET Nat, journal : SUBSET Journals]
         /\ filesMay'.config = {files'.config} /\ filesMay'.auth = {files'.auth}
         /\ filesMay'.journal = {files'.journal}
         /\ files'.config \in Configs /\ files'.auth \in Nat /\ files'.journal \in Journals
BY DEF AllDurable

\* Where a transaction goes.
LEMMA DealGoes ==
  ASSUME NEW d \in Deals, d.at \notin {"idle", "down"}
  PROVE  /\ \A to \in Recoveries : [d EXCEPT !.at = to] \in Deals /\ [d EXCEPT !.at = to].at = to
         /\ d.at \notin Recoveries \/ d.then = "lock" =>
              /\ d.version \in Nat
              /\ \A to \in Recoveries \cup Amid \cup {"lock", "clean up", "commit"} :
                   /\ [d EXCEPT !.at = to] \in Deals /\ [d EXCEPT !.at = to].at = to
                   /\ [d EXCEPT !.at = to].version = d.version
              /\ [d EXCEPT !.at = "recover", !.then = "over"] \in Deals
              /\ [d EXCEPT !.at = "recover", !.then = "over"].at = "recover"
<1>1. \/ d \in [at : Recoveries, then : {"serve"}]
      \/ d \in [at : Recoveries \cup Amid \cup {"lock", "clean up", "commit"}, then : {"lock", "over"}, version : Nat]
  <2>1. Settings!Idle.at = "idle" /\ [at |-> "down"].at = "down"
    BY DEF Settings!Idle
  <2>2. d # Settings!Idle /\ d # [at |-> "down"]
    BY <2>1
  <2> QED
    BY <2>2 DEF Deals
<1>2. CASE d \in [at : Recoveries, then : {"serve"}]
  <2>1. \A to \in Recoveries :
           [d EXCEPT !.at = to] \in [at : Recoveries, then : {"serve"}] /\ [d EXCEPT !.at = to].at = to
    BY <1>2
  <2> QED
    BY <1>2, <2>1 DEF Deals
<1>3. CASE d \in [at : Recoveries \cup Amid \cup {"lock", "clean up", "commit"}, then : {"lock", "over"}, version : Nat]
  <2> DEFINE P == Recoveries \cup Amid \cup {"lock", "clean up", "commit"}
             D == [at : P, then : {"lock", "over"}, version : Nat]
  <2>1. "recover" \in P /\ Recoveries \subseteq P
    BY DEF Recoveries
  <2>2. D \subseteq Deals
    BY DEF Deals
  <2> HIDE DEF P
  <2>3. d \in D
    BY <1>3 DEF P
  <2>4. \A to \in P : [d EXCEPT !.at = to] \in D /\ [d EXCEPT !.at = to].at = to
                         /\ [d EXCEPT !.at = to].version = d.version
    BY <2>3
  <2>5. /\ [d EXCEPT !.at = "recover", !.then = "over"] \in D
        /\ [d EXCEPT !.at = "recover", !.then = "over"].at = "recover" /\ d.version \in Nat
    BY <2>1, <2>3
  <2> QED
    BY <2>1, <2>2, <2>4, <2>5 DEF P
<1> QED
  BY <1>1, <1>2, <1>3

\* The recovery leads on, and nothing but its place changes.
LEMMA DealRecovered ==
  ASSUME NEW d \in Deals, d.at \in Recoveries
  PROVE  /\ (IF d.then = "lock" THEN [d EXCEPT !.at = "lock"] ELSE Settings!Idle) \in Deals
         /\ (IF d.then = "lock" THEN [d EXCEPT !.at = "lock"] ELSE Settings!Idle).at \in {"lock", "idle"}
         /\ (IF d.then = "serve" THEN [at |-> "down"] ELSE Settings!Idle) \in Deals
         /\ (IF d.then = "serve" THEN [at |-> "down"] ELSE Settings!Idle).at \in {"down", "idle"}
<1>1. d.at \notin {"idle", "down"}
  BY DEF Recoveries
<1>2. CASE d.then = "lock"
  BY <1>1, <1>2, DealGoes DEF Deals, Settings!Idle
<1>3. CASE d.then # "lock"
  BY <1>3 DEF Deals, Settings!Idle
<1> QED
  BY <1>2, <1>3

\* The steps of a recovery.
LEMMA ProviderRecovers ==
  ASSUME ProviderInv, Settings!Recover
  PROVE  ProviderInv'
<1>1. /\ deal.at = "recover" /\ UNCHANGED <<files, filesMay, agreed, deals>>
      /\ \/ files.journal = Settings!NoJournal /\ Settings!Recovered
         \/ files.journal.phase = "committed" /\ Settings!To("unlink")
         \/ files.journal.phase = "prepared" /\ Settings!To("restore config")
  BY DEF Settings!Recover
<1>2. deal \in Deals /\ deal.at \in Recoveries /\ deal.at \notin {"idle", "down"} /\ files.journal \in filesMay.journal
  BY <1>1 DEF ProviderInv, ProviderTypes, Recoveries
<1>3. CASE files.journal = Settings!NoJournal /\ Settings!Recovered
  <2>1. deal' \in Deals /\ deal'.at \in {"lock", "idle"}
    BY <1>2, <1>3, DealRecovered DEF Settings!Recovered
  <2> QED
    BY <1>1, <1>3, <2>1 DEF ProviderInv, ProviderTypes, TornIsPrepared, PlaceOfDeal, OneDeal, Amid
<1>4. CASE files.journal.phase = "committed" /\ Settings!To("unlink")
  <2>1. deal' \in Deals /\ deal'.at = "unlink"
    BY <1>2, <1>4, DealGoes DEF Settings!To, Recoveries
  <2>2. OneDeal
    BY <1>2, <1>4 DEF ProviderInv, TornIsPrepared
  <2> QED
    BY <1>1, <2>1, <2>2 DEF ProviderInv, ProviderTypes, TornIsPrepared, PlaceOfDeal, OneDeal, Amid
<1>5. CASE files.journal.phase = "prepared" /\ Settings!To("restore config")
  <2>1. deal' \in Deals /\ deal'.at = "restore config"
    BY <1>2, <1>5, DealGoes DEF Settings!To, Recoveries
  <2> QED
    BY <1>1, <1>5, <2>1 DEF ProviderInv, ProviderTypes, TornIsPrepared, PlaceOfDeal, OneDeal, Amid
<1> QED
  BY <1>1, <1>3, <1>4, <1>5

\* A recovery that failed leaves the files as they are, or one of them with
\* what the journal says.
LEMMA JournalOf ==
  ASSUME ProviderInv, files.journal.phase = "prepared"
  PROVE  /\ files.journal.config \in Configs /\ files.journal.auth \in Nat
         /\ files.journal.config.provider = files.journal.auth /\ files.journal.auth \in agreed
         /\ [files.journal EXCEPT !.phase = "committed"] \in Journals
         /\ [files.journal EXCEPT !.phase = "committed"].phase = "committed"
<1>1. files.journal \in Journals /\ files.journal \in filesMay.journal
  BY DEF ProviderInv, ProviderTypes
<1>2. files.journal # Settings!NoJournal
  BY DEF Settings!NoJournal
<1>3. files.journal \in [phase : {"prepared", "committed"}, config : Configs, auth : Nat]
  BY <1>1, <1>2 DEF Journals
<1>4. [files.journal EXCEPT !.phase = "committed"] \in [phase : {"prepared", "committed"}, config : Configs, auth : Nat]
  BY <1>3
<1>5. [files.journal EXCEPT !.phase = "committed"].phase = "committed"
  BY <1>3
<1> QED
  BY <1>1, <1>3, <1>4, <1>5 DEF ProviderInv, TornIsPrepared, Journals

LEMMA ConfigRestored ==
  ASSUME ProviderInv, Settings!RestoreConfig
  PROVE  ProviderInv'
<1>1. /\ deal.at = "restore config" /\ UNCHANGED <<agreed, deals>> /\ files.journal.phase = "prepared"
      /\ \/ Settings!Seen("config", files.journal.config) /\ Settings!To("restore auth")
         \/ UNCHANGED <<files, filesMay>> /\ Settings!NotRecovered
  BY DEF Settings!RestoreConfig, Settings!Unwritten, ProviderInv, PlaceOfDeal
<1>2. deal \in Deals /\ deal.at \in Recoveries /\ deal.at \notin {"idle", "down"}
  BY <1>1 DEF ProviderInv, ProviderTypes, Recoveries
<1>3. CASE Settings!Seen("config", files.journal.config) /\ Settings!To("restore auth")
  <2>1. deal' \in Deals /\ deal'.at = "restore auth"
    BY <1>2, <1>3, DealGoes DEF Settings!To, Recoveries
  <2>2. /\ files' \in [config : Configs, auth : Nat, journal : Journals]
        /\ files'.config = files.journal.config /\ files'.auth = files.auth /\ files'.journal = files.journal
        /\ \/ AllDurable
           \/ /\ filesMay' \in [config : SUBSET Configs, auth : SUBSET Nat, journal : SUBSET Journals]
              /\ filesMay'.config = filesMay.config \cup {files.journal.config}
              /\ filesMay'.auth = filesMay.auth /\ filesMay'.journal = filesMay.journal
    BY <1>1, <1>3, JournalOf, SeenConfig DEF ProviderInv
  <2>3. ProviderTypes'
    BY <1>1, <2>1, <2>2, OfDurable DEF ProviderInv, ProviderTypes
  <2>4. TornIsPrepared'
    <3>1. CASE AllDurable
      BY <1>1, <2>2, <3>1, JournalOf, OfDurable DEF TornIsPrepared
    <3>2. CASE /\ filesMay'.config = filesMay.config \cup {files.journal.config}
               /\ filesMay'.auth = filesMay.auth /\ filesMay'.journal = filesMay.journal
      BY <1>1, <2>2, <3>2, JournalOf DEF ProviderInv, TornIsPrepared, OneDeal
    <3> QED
      BY <2>2, <3>1, <3>2
  <2>5. PlaceOfDeal'
    BY <1>1, <2>1, <2>2, JournalOf DEF PlaceOfDeal, Amid
  <2> QED
    BY <2>3, <2>4, <2>5 DEF ProviderInv
<1>4. CASE UNCHANGED <<files, filesMay>> /\ Settings!NotRecovered
  <2>1. deal' \in Deals /\ deal'.at \in {"down", "idle"}
    BY <1>2, <1>4, DealRecovered DEF Settings!NotRecovered
  <2> QED
    BY <1>1, <1>4, <2>1 DEF ProviderInv, ProviderTypes, TornIsPrepared, PlaceOfDeal, OneDeal, Amid
<1> QED
  BY <1>1, <1>3, <1>4

LEMMA AuthRestored ==
  ASSUME ProviderInv, Settings!RestoreAuth
  PROVE  ProviderInv'
<1>1. /\ deal.at = "restore auth" /\ UNCHANGED <<agreed, deals>> /\ files.journal.phase = "prepared"
      /\ files.config.provider = files.journal.auth
      /\ \/ Settings!Durable("auth", files.journal.auth) /\ Settings!To("unlink")
         \/ Settings!Unsure("auth", files.journal.auth) /\ Settings!NotRecovered
         \/ UNCHANGED <<files, filesMay>> /\ Settings!NotRecovered
  BY DEF Settings!RestoreAuth, Settings!Unwritten, ProviderInv, PlaceOfDeal
<1>2. deal \in Deals /\ deal.at \in Recoveries /\ deal.at \notin {"idle", "down"}
  BY <1>1 DEF ProviderInv, ProviderTypes, Recoveries
<1>3. CASE Settings!Durable("auth", files.journal.auth) /\ Settings!To("unlink")
  <2>1. deal' \in Deals /\ deal'.at = "unlink"
    BY <1>2, <1>3, DealGoes DEF Settings!To, Recoveries
  <2>2. /\ files' \in [config : Configs, auth : Nat, journal : Journals] /\ AllDurable
        /\ files'.config = files.config /\ files'.auth = files.journal.auth /\ files'.journal = files.journal
    BY <1>1, <1>3, JournalOf, SeenAuth, DurableAll DEF ProviderInv, Settings!Seen
  <2>3. ProviderTypes'
    BY <1>1, <2>1, <2>2, OfDurable DEF ProviderInv, ProviderTypes
  <2>4. TornIsPrepared'
    BY <1>1, <2>2, JournalOf, OfDurable DEF TornIsPrepared
  <2>5. OneDeal'
    BY <1>1, <2>2, JournalOf, OfDurable DEF OneDeal
  <2>6. PlaceOfDeal'
    BY <2>1, <2>5 DEF PlaceOfDeal, Amid
  <2> QED
    BY <2>3, <2>4, <2>6 DEF ProviderInv
<1>4. CASE Settings!Unsure("auth", files.journal.auth) /\ Settings!NotRecovered
  <2>1. deal' \in Deals /\ deal'.at \in {"down", "idle"}
    BY <1>2, <1>4, DealRecovered DEF Settings!NotRecovered
  <2>2. /\ files' \in [config : Configs, auth : Nat, journal : Journals]
        /\ files'.config = files.config /\ files'.auth = files.journal.auth /\ files'.journal = files.journal
        /\ \/ AllDurable
           \/ /\ filesMay' \in [config : SUBSET Configs, auth : SUBSET Nat, journal : SUBSET Journals]
              /\ filesMay'.auth = filesMay.auth \cup {files.journal.auth}
              /\ filesMay'.config = filesMay.config /\ filesMay'.journal = filesMay.journal
    BY <1>1, <1>4, JournalOf, SeenAuth DEF ProviderInv, Settings!Seen
  <2>3. ProviderTypes'
    BY <1>1, <2>1, <2>2, OfDurable DEF ProviderInv, ProviderTypes
  <2>4. TornIsPrepared'
    <3>1. CASE AllDurable
      BY <1>1, <2>2, <3>1, JournalOf, OfDurable DEF TornIsPrepared
    <3>2. CASE /\ filesMay'.auth = filesMay.auth \cup {files.journal.auth}
               /\ filesMay'.config = filesMay.config /\ filesMay'.journal = filesMay.journal
      BY <1>1, <2>2, <3>2, JournalOf DEF ProviderInv, ProviderTypes, TornIsPrepared, OneDeal
    <3> QED
      BY <2>2, <3>1, <3>2
  <2> QED
    BY <2>1, <2>3, <2>4 DEF ProviderInv, PlaceOfDeal, Amid
<1>5. CASE UNCHANGED <<files, filesMay>> /\ Settings!NotRecovered
  <2>1. deal' \in Deals /\ deal'.at \in {"down", "idle"}
    BY <1>2, <1>5, DealRecovered DEF Settings!NotRecovered
  <2> QED
    BY <1>1, <1>5, <2>1 DEF ProviderInv, ProviderTypes, TornIsPrepared, PlaceOfDeal, OneDeal, Amid
<1> QED
  BY <1>1, <1>3, <1>4, <1>5

\* The journal goes, when config and key are of one transaction or nothing of
\* it was written yet.
LEMMA JournalGoes ==
  ASSUME ProviderInv, UNCHANGED <<agreed, deals>>, OneDeal, deal' \in Deals,
         deal'.at \in {"idle", "down", "lock", "recover"},
         Settings!Seen("journal", Settings!NoJournal)
  PROVE  ProviderInv'
<1>1. /\ files' \in [config : Configs, auth : Nat, journal : Journals]
      /\ files'.config = files.config /\ files'.auth = files.auth /\ files'.journal = Settings!NoJournal
      /\ \/ AllDurable
         \/ /\ filesMay' \in [config : SUBSET Configs, auth : SUBSET Nat, journal : SUBSET Journals]
            /\ filesMay'.journal = filesMay.journal \cup {Settings!NoJournal}
            /\ filesMay'.config = filesMay.config /\ filesMay'.auth = filesMay.auth
  BY SeenJournal DEF ProviderInv, Journals
<1>2. ProviderTypes'
  BY <1>1, OfDurable DEF ProviderInv, ProviderTypes
<1>3. OneDeal'
  BY <1>1, OfDurable DEF ProviderInv, ProviderTypes, OneDeal
<1>4. Settings!NoJournal.phase = "none"
  BY DEF Settings!NoJournal
<1>5. TornIsPrepared'
  <2>1. CASE AllDurable
    BY <1>1, <1>3, <1>4, <2>1, OfDurable DEF TornIsPrepared
  <2>2. CASE filesMay'.journal = filesMay.journal \cup {Settings!NoJournal}
    BY <1>1, <1>3, <1>4, <2>2 DEF ProviderInv, TornIsPrepared
  <2> QED
    BY <1>1, <2>1, <2>2
<1> QED
  BY <1>1, <1>2, <1>5 DEF ProviderInv, PlaceOfDeal, Amid

\* A step that leaves the files.
LEMMA FilesRest ==
  ASSUME ProviderInv, UNCHANGED <<files, filesMay, agreed>>, deals' \in Nat, deal' \in Deals,
         \/ deal'.at \in {"idle", "down", "recover"}
         \/ deal.at = "unlink" /\ deal'.at = "lock" /\ files.journal = Settings!NoJournal
         \/ deal.at = "gate" /\ deal'.at = "write config"
         \/ deal.at = "undo auth" /\ deal'.at = "undo config"
  PROVE  ProviderInv'
BY DEF ProviderInv, ProviderTypes, TornIsPrepared, PlaceOfDeal, OneDeal, Amid

LEMMA JournalUnlinked ==
  ASSUME ProviderInv, Settings!Unlink
  PROVE  ProviderInv'
<1>1. /\ deal.at = "unlink" /\ UNCHANGED <<agreed, deals>> /\ OneDeal
      /\ \/ Settings!Seen("journal", Settings!NoJournal) /\ (Settings!Recovered \/ Settings!NotRecovered)
         \/ UNCHANGED <<files, filesMay>> /\ Settings!NotRecovered
  BY DEF Settings!Unlink, Settings!Unwritten, Settings!Seen, ProviderInv, PlaceOfDeal
<1>2. deal \in Deals /\ deal.at \in Recoveries
  BY <1>1 DEF ProviderInv, ProviderTypes, Recoveries
<1>3. deal' \in Deals /\ deal'.at \in {"idle", "down", "lock"} /\ (Settings!NotRecovered => deal'.at \in {"idle", "down"})
  BY <1>1, <1>2, DealRecovered DEF Settings!Recovered, Settings!NotRecovered
<1>4. CASE Settings!Seen("journal", Settings!NoJournal)
  BY <1>1, <1>3, <1>4, JournalGoes
<1>5. CASE UNCHANGED <<files, filesMay>> /\ Settings!NotRecovered
  BY <1>1, <1>3, <1>5, FilesRest DEF ProviderInv, ProviderTypes
<1> QED
  BY <1>1, <1>4, <1>5

\* The steps of a transaction.
LEMMA ProviderPrepares ==
  ASSUME ProviderInv, Settings!Prepare
  PROVE  ProviderInv'
<1> DEFINE line == [phase |-> "prepared", config |-> files.config, auth |-> files.auth]
<1>1. /\ deal.at = "lock" /\ UNCHANGED <<agreed, deals>> /\ files.journal = Settings!NoJournal
      /\ \/ Settings!Durable("journal", line) /\ Settings!To("gate")
         \/ Settings!Unsure("journal", line) /\ Settings!To("clean up")
         \/ UNCHANGED <<files, filesMay>> /\ Settings!Fails
  BY DEF Settings!Prepare, Settings!Unwritten, ProviderInv, PlaceOfDeal
<1>2. /\ deal \in Deals /\ deal.at \notin {"idle", "down"} /\ deal.at \notin Recoveries
      /\ files.config \in filesMay.config /\ files.auth \in filesMay.auth /\ files.journal \in filesMay.journal
      /\ files.config \in Configs /\ files.auth \in Nat
  BY <1>1 DEF ProviderInv, ProviderTypes, Recoveries
<1>3. OneDeal /\ Settings!NoJournal.phase = "none"
  <2>1. Settings!NoJournal.phase = "none"
    BY DEF Settings!NoJournal
  <2> QED
    BY <1>1, <1>2, <2>1 DEF ProviderInv, TornIsPrepared
<1>4. line \in Journals /\ line.phase = "prepared" /\ line.config = files.config /\ line.auth = files.auth
  BY <1>2 DEF Journals
<1> HIDE DEF line
<1>5. ASSUME Settings!Seen("journal", line), deal' \in Deals, deal'.at \in {"clean up", "gate"},
             deal'.at = "gate" => AllDurable
      PROVE  ProviderInv'
  <2>1. /\ files' \in [config : Configs, auth : Nat, journal : Journals]
        /\ files'.config = files.config /\ files'.auth = files.auth /\ files'.journal = line
        /\ \/ AllDurable
           \/ /\ filesMay' \in [config : SUBSET Configs, auth : SUBSET Nat, journal : SUBSET Journals]
              /\ filesMay'.journal = filesMay.journal \cup {line}
              /\ filesMay'.config = filesMay.config /\ filesMay'.auth = filesMay.auth
    BY <1>4, <1>5, SeenJournal DEF ProviderInv
  <2>2. ProviderTypes'
    BY <1>1, <1>5, <2>1, OfDurable DEF ProviderInv, ProviderTypes
  <2>3. files.config.provider = files.auth /\ files.auth \in agreed
    BY <1>2, <1>3 DEF OneDeal
  <2>4. TornIsPrepared'
    <3>1. CASE AllDurable
      BY <1>1, <1>4, <2>1, <2>3, <3>1, OfDurable DEF TornIsPrepared
    <3>2. CASE /\ filesMay'.journal = filesMay.journal \cup {line}
               /\ filesMay'.config = filesMay.config /\ filesMay'.auth = filesMay.auth
      <4>1. OneDeal' /\ \A a \in filesMay.auth : a = files.auth
        BY <1>1, <1>2, <1>3, <3>2 DEF OneDeal
      <4> QED
        BY <1>1, <1>4, <2>1, <2>3, <3>2, <4>1 DEF ProviderInv, TornIsPrepared
    <3> QED
      BY <2>1, <3>1, <3>2
  <2>5. CASE deal'.at = "clean up"
    <3>1. OneDeal'
      BY <1>1, <1>2, <1>3, <2>1, OfDurable DEF OneDeal
    <3> QED
      BY <2>2, <2>4, <2>5, <3>1 DEF ProviderInv, PlaceOfDeal, Amid
  <2>6. CASE deal'.at = "gate" /\ AllDurable
    BY <1>4, <2>1, <2>2, <2>4, <2>6, OfDurable DEF ProviderInv, PlaceOfDeal
  <2> QED
    BY <1>5, <2>5, <2>6
<1>6. CASE UNCHANGED <<files, filesMay>> /\ Settings!Fails
  <2>1. deal' \in Deals /\ deal'.at = "recover"
    BY <1>2, <1>6, DealGoes DEF Settings!Fails
  <2> QED
    BY <1>1, <1>6, <2>1, FilesRest DEF ProviderInv, ProviderTypes
<1>7. Settings!Durable("journal", line) => AllDurable
  BY DurableAll DEF ProviderInv
<1>8. Settings!Durable("journal", line) \/ Settings!Unsure("journal", line) => Settings!Seen("journal", line)
  BY DEF Settings!Seen
<1>9. CASE Settings!Durable("journal", line) /\ Settings!To("gate")
  <2>1. deal' \in Deals /\ deal'.at = "gate"
    BY <1>2, <1>9, DealGoes DEF Settings!To, Amid
  <2> QED
    BY <1>5, <1>7, <1>8, <1>9, <2>1
<1>10. CASE Settings!Unsure("journal", line) /\ Settings!To("clean up")
  <2>1. deal' \in Deals /\ deal'.at = "clean up"
    BY <1>2, <1>10, DealGoes DEF Settings!To
  <2> QED
    BY <1>5, <1>8, <1>10, <2>1
<1> QED
  BY <1>1, <1>6, <1>9, <1>10

LEMMA ProviderCleansUp ==
  ASSUME ProviderInv, Settings!CleanUp
  PROVE  ProviderInv'
<1>1. /\ deal.at = "clean up" /\ UNCHANGED <<agreed, deals>> /\ Settings!Fails
      /\ OneDeal
      /\ Settings!Seen("journal", Settings!NoJournal) \/ UNCHANGED <<files, filesMay>>
  BY DEF Settings!CleanUp, Settings!AnyWrite, Settings!Unwritten, ProviderInv, PlaceOfDeal
<1>2. deal \in Deals /\ deal.at \notin {"idle", "down"} /\ deal.at \notin Recoveries
  BY <1>1 DEF ProviderInv, ProviderTypes, Recoveries
<1>3. deal' \in Deals /\ deal'.at = "recover"
  BY <1>1, <1>2, DealGoes DEF Settings!Fails
<1> QED
  BY <1>1, <1>3, JournalGoes, FilesRest DEF ProviderInv, ProviderTypes

\* A file is written while the journal is prepared on disk.
LEMMA UnderJournal ==
  ASSUME ProviderInv, deal.at \in Amid, UNCHANGED <<agreed, deals>>, deal' \in Deals,
         files' \in [config : Configs, auth : Nat, journal : Journals], files'.journal = files.journal,
         \/ AllDurable
         \/ /\ filesMay' \in [config : SUBSET Configs, auth : SUBSET Nat, journal : SUBSET Journals]
            /\ filesMay'.journal = filesMay.journal
            /\ files'.config \in filesMay'.config /\ files'.auth \in filesMay'.auth,
         \/ deal'.at \in {"recover", "undo auth", "undo config"}
         \/ deal'.at = "write auth" /\ files'.config.provider = deal'.version
         \/ deal'.at = "mark" /\ AllDurable /\ files'.config.provider = deal'.version /\ files'.auth = deal'.version
  PROVE  ProviderInv'
<1>1. files.journal.phase = "prepared" /\ filesMay.journal = {files.journal}
  BY DEF ProviderInv, PlaceOfDeal
<1>2. ProviderTypes' /\ filesMay'.journal = {files.journal}
  BY <1>1, OfDurable DEF ProviderInv, ProviderTypes
<1>3. TornIsPrepared'
  BY <1>1, <1>2, JournalOf DEF TornIsPrepared
<1>4. PlaceOfDeal'
  BY <1>1, <1>2, OfDurable DEF PlaceOfDeal, Amid
<1> QED
  BY <1>2, <1>3, <1>4 DEF ProviderInv

LEMMA ConfigWritten ==
  ASSUME ProviderInv, Settings!WriteConfig
  PROVE  ProviderInv'
<1> DEFINE new == [files.config EXCEPT !.provider = deal.version]
<1>1. /\ deal.at = "write config" /\ UNCHANGED <<agreed, deals>>
      /\ \/ Settings!Seen("config", new) /\ Settings!To("write auth")
         \/ UNCHANGED <<files, filesMay>> /\ Settings!Fails
  BY DEF Settings!WriteConfig, Settings!Unwritten
<1>2. deal \in Deals /\ deal.at \notin {"idle", "down"} /\ deal.at \notin Recoveries /\ deal.at \in Amid
  BY <1>1 DEF ProviderInv, ProviderTypes, Recoveries, Amid
<1>3. deal.version \in Nat
  BY <1>2, DealGoes
<1>4. new \in Configs /\ new.provider = deal.version
  BY <1>3 DEF ProviderInv, ProviderTypes, Configs
<1> HIDE DEF new
<1>5. CASE Settings!Seen("config", new) /\ Settings!To("write auth")
  <2>1. deal' \in Deals /\ deal'.at = "write auth" /\ deal'.version = deal.version
    BY <1>2, <1>5, DealGoes DEF Settings!To, Amid
  <2> QED
    BY <1>1, <1>2, <1>4, <1>5, <2>1, SeenConfig, UnderJournal DEF ProviderInv, ProviderTypes
<1>6. CASE UNCHANGED <<files, filesMay>> /\ Settings!Fails
  <2>1. deal' \in Deals /\ deal'.at = "recover"
    BY <1>2, <1>6, DealGoes DEF Settings!Fails
  <2> QED
    BY <1>1, <1>6, <2>1, FilesRest DEF ProviderInv, ProviderTypes
<1> QED
  BY <1>1, <1>5, <1>6

LEMMA AuthWritten ==
  ASSUME ProviderInv, Settings!WriteAuth
  PROVE  ProviderInv'
<1>1. /\ deal.at = "write auth" /\ UNCHANGED <<agreed, deals>> /\ files.config.provider = deal.version
      /\ \/ Settings!Durable("auth", deal.version) /\ Settings!To("mark")
         \/ Settings!Seen("auth", deal.version) /\ (Settings!To("undo config") \/ Settings!To("undo auth"))
         \/ UNCHANGED <<files, filesMay>> /\ Settings!To("undo auth")
  BY DEF Settings!WriteAuth, Settings!Unwritten, Settings!Seen, ProviderInv, PlaceOfDeal
<1>2. deal \in Deals /\ deal.at \notin {"idle", "down"} /\ deal.at \notin Recoveries /\ deal.at \in Amid
  BY <1>1 DEF ProviderInv, ProviderTypes, Recoveries, Amid
<1>3. deal.version \in Nat
  BY <1>2, DealGoes
<1>4. CASE Settings!Durable("auth", deal.version) /\ Settings!To("mark")
  <2>1. deal' \in Deals /\ deal'.at = "mark" /\ deal'.version = deal.version
    BY <1>2, <1>4, DealGoes DEF Settings!To, Amid
  <2>2. /\ files' \in [config : Configs, auth : Nat, journal : Journals] /\ AllDurable
        /\ files'.config = files.config /\ files'.auth = deal.version /\ files'.journal = files.journal
    BY <1>3, <1>4, SeenAuth, DurableAll DEF ProviderInv, Settings!Seen
  <2> QED
    BY <1>1, <1>2, <2>1, <2>2, UnderJournal
<1>5. CASE Settings!Seen("auth", deal.version) /\ (Settings!To("undo config") \/ Settings!To("undo auth"))
  <2>1. deal' \in Deals /\ deal'.at \in {"undo config", "undo auth"}
    <3>1. ASSUME Settings!To("undo config") PROVE deal' \in Deals /\ deal'.at = "undo config"
      BY <1>2, <3>1, DealGoes DEF Settings!To, Amid
    <3>2. ASSUME Settings!To("undo auth") PROVE deal' \in Deals /\ deal'.at = "undo auth"
      BY <1>2, <3>2, DealGoes DEF Settings!To, Amid
    <3> QED
      BY <1>5, <3>1, <3>2
  <2> QED
    BY <1>1, <1>2, <1>3, <1>5, <2>1, SeenAuth, UnderJournal DEF ProviderInv, ProviderTypes
<1>6. CASE UNCHANGED <<files, filesMay>> /\ Settings!To("undo auth")
  <2>1. deal' \in Deals /\ deal'.at = "undo auth"
    BY <1>2, <1>6, DealGoes DEF Settings!To, Amid
  <2> QED
    BY <1>1, <1>2, <1>6, <2>1, UnderJournal DEF ProviderInv, ProviderTypes
<1> QED
  BY <1>1, <1>4, <1>5, <1>6

LEMMA ProviderUndoes ==
  ASSUME ProviderInv, Settings!UndoAuth \/ Settings!UndoConfig
  PROVE  ProviderInv'
<1>1. /\ deal.at \in {"undo auth", "undo config"} /\ UNCHANGED <<agreed, deals>>
      /\ Settings!To("undo config") \/ Settings!Fails
      /\ \/ Settings!Seen("auth", files.journal.auth) \/ Settings!Seen("config", files.journal.config)
         \/ UNCHANGED <<files, filesMay>>
  BY DEF Settings!UndoAuth, Settings!UndoConfig, Settings!AnyWrite, Settings!Unwritten
<1>2. deal \in Deals /\ deal.at \notin {"idle", "down"} /\ deal.at \notin Recoveries /\ deal.at \in Amid
  BY <1>1 DEF ProviderInv, ProviderTypes, Recoveries, Amid
<1>3. deal' \in Deals /\ deal'.at \in {"undo config", "recover"}
  <2>1. ASSUME Settings!To("undo config") PROVE deal' \in Deals /\ deal'.at = "undo config"
    BY <1>2, <2>1, DealGoes DEF Settings!To, Amid
  <2>2. ASSUME Settings!Fails PROVE deal' \in Deals /\ deal'.at = "recover"
    BY <1>2, <2>2, DealGoes DEF Settings!Fails
  <2> QED
    BY <1>1, <2>1, <2>2
<1>4. files.journal.phase = "prepared"
  BY <1>2 DEF ProviderInv, PlaceOfDeal
<1>5. CASE Settings!Seen("auth", files.journal.auth)
  BY <1>1, <1>2, <1>3, <1>4, <1>5, JournalOf, SeenAuth, UnderJournal DEF ProviderInv, ProviderTypes
<1>6. CASE Settings!Seen("config", files.journal.config)
  BY <1>1, <1>2, <1>3, <1>4, <1>6, JournalOf, SeenConfig, UnderJournal DEF ProviderInv, ProviderTypes
<1>7. CASE UNCHANGED <<files, filesMay>>
  BY <1>1, <1>2, <1>3, <1>7, UnderJournal DEF ProviderInv, ProviderTypes
<1> QED
  BY <1>1, <1>5, <1>6, <1>7

LEMMA ProviderMarks ==
  ASSUME ProviderInv, Settings!Mark
  PROVE  ProviderInv'
<1> DEFINE line == [files.journal EXCEPT !.phase = "committed"]
<1>1. /\ deal.at = "mark" /\ UNCHANGED deals /\ files.journal.phase = "prepared"
      /\ filesMay.journal = {files.journal}
      /\ \A c \in filesMay.config, a \in filesMay.auth : c.provider = deal.version /\ a = deal.version
      /\ \/ Settings!Durable("journal", line) /\ Settings!To("commit") /\ agreed' = {deal.version}
         \/ Settings!Unsure("journal", line) /\ deal' = Settings!Idle /\ agreed' = agreed \cup {deal.version}
         \/ UNCHANGED <<files, filesMay>> /\ Settings!Fails /\ UNCHANGED agreed
  BY DEF Settings!Mark, Settings!Unwritten, ProviderInv, PlaceOfDeal, Amid
<1>2. /\ deal \in Deals /\ deal.at \notin {"idle", "down"} /\ deal.at \notin Recoveries
      /\ files.config \in filesMay.config /\ files.auth \in filesMay.auth
  BY <1>1 DEF ProviderInv, ProviderTypes, Recoveries
<1>3. line \in Journals /\ line.phase = "committed"
  BY <1>1, JournalOf
<1> HIDE DEF line
<1>4. CASE Settings!Durable("journal", line) /\ Settings!To("commit") /\ agreed' = {deal.version}
  <2>1. deal' \in Deals /\ deal'.at = "commit"
    BY <1>2, <1>4, DealGoes DEF Settings!To
  <2>2. /\ files' \in [config : Configs, auth : Nat, journal : Journals] /\ AllDurable
        /\ files'.config = files.config /\ files'.auth = files.auth /\ files'.journal = line
    BY <1>3, <1>4, SeenJournal, DurableAll DEF ProviderInv, Settings!Seen
  <2>3. ProviderTypes'
    BY <1>1, <2>1, <2>2, OfDurable DEF ProviderInv, ProviderTypes
  <2>4. OneDeal'
    BY <1>1, <1>2, <1>4, <2>2, OfDurable DEF OneDeal
  <2>5. TornIsPrepared'
    BY <1>3, <2>2, <2>4, OfDurable DEF TornIsPrepared
  <2> QED
    BY <1>3, <2>1, <2>2, <2>3, <2>5 DEF ProviderInv, PlaceOfDeal, Amid
<1>5. CASE Settings!Unsure("journal", line) /\ deal' = Settings!Idle /\ agreed' = agreed \cup {deal.version}
  <2>1. deal' \in Deals /\ deal'.at = "idle"
    BY <1>5 DEF Deals, Settings!Idle
  <2>2. /\ files' \in [config : Configs, auth : Nat, journal : Journals]
        /\ files'.config = files.config /\ files'.auth = files.auth /\ files'.journal = line
        /\ \/ AllDurable
           \/ /\ filesMay' \in [config : SUBSET Configs, auth : SUBSET Nat, journal : SUBSET Journals]
              /\ filesMay'.journal = filesMay.journal \cup {line}
              /\ filesMay'.config = filesMay.config /\ filesMay'.auth = filesMay.auth
    BY <1>3, <1>5, SeenJournal DEF ProviderInv, Settings!Seen
  <2>3. ProviderTypes'
    BY <1>1, <2>1, <2>2, OfDurable DEF ProviderInv, ProviderTypes
  <2>4. OneDeal'
    BY <1>1, <1>2, <1>5, <2>2, OfDurable DEF OneDeal
  <2>5. TornIsPrepared'
    <3>1. CASE AllDurable
      BY <1>3, <2>2, <2>4, <3>1, OfDurable DEF TornIsPrepared
    <3>2. CASE filesMay'.journal = filesMay.journal \cup {line}
      BY <1>1, <1>3, <1>5, <2>2, <2>4, <3>2 DEF ProviderInv, TornIsPrepared
    <3> QED
      BY <2>2, <3>1, <3>2
  <2> QED
    BY <2>1, <2>3, <2>5 DEF ProviderInv, PlaceOfDeal, Amid
<1>6. CASE UNCHANGED <<files, filesMay>> /\ Settings!Fails /\ UNCHANGED agreed
  <2>1. deal' \in Deals /\ deal'.at = "recover"
    BY <1>2, <1>6, DealGoes DEF Settings!Fails
  <2> QED
    BY <1>1, <1>6, <2>1, FilesRest DEF ProviderInv, ProviderTypes
<1> QED
  BY <1>1, <1>4, <1>5, <1>6

LEMMA ProviderCommits ==
  ASSUME ProviderInv, Settings!Commit
  PROVE  ProviderInv'
<1>1. /\ deal.at = "commit" /\ UNCHANGED <<agreed, deals>> /\ deal' = Settings!Idle
      /\ files.journal.phase = "committed" /\ files.journal \in filesMay.journal
      /\ Settings!Seen("journal", Settings!NoJournal) \/ UNCHANGED <<files, filesMay>>
  BY DEF Settings!Commit, Settings!AnyWrite, Settings!Unwritten, ProviderInv, ProviderTypes, PlaceOfDeal
<1>2. deal' \in Deals /\ deal'.at = "idle"
  BY <1>1 DEF Deals, Settings!Idle
<1>3. OneDeal
  BY <1>1 DEF ProviderInv, TornIsPrepared
<1> QED
  BY <1>1, <1>2, <1>3, JournalGoes, FilesRest DEF ProviderInv, ProviderTypes

LEMMA ProviderBegins ==
  ASSUME ProviderInv, NEW version \in Nat, Settings!Begin(version)
  PROVE  ProviderInv'
<1>1. /\ deal' = [at |-> "recover", then |-> "lock", version |-> version] /\ deals' \in Nat
      /\ UNCHANGED <<files, filesMay, agreed>>
  BY DEF Settings!Begin, ProviderInv, ProviderTypes
<1>2. deal' \in Deals /\ deal'.at = "recover"
  BY <1>1 DEF Deals, Recoveries
<1> QED
  BY <1>1, <1>2, FilesRest

LEMMA ProviderEnters ==
  ASSUME ProviderInv, Settings!EnterGate
  PROVE  ProviderInv'
<1>1. deal.at = "gate" /\ Settings!To("write config") /\ UNCHANGED <<files, filesMay, agreed, deals>>
  BY DEF Settings!EnterGate
<1>2. deal \in Deals /\ deal.at \notin {"idle", "down"} /\ deal.at \notin Recoveries
  BY <1>1 DEF ProviderInv, ProviderTypes, Recoveries
<1>3. deal' \in Deals /\ deal'.at = "write config"
  BY <1>1, <1>2, DealGoes DEF Settings!To, Amid
<1> QED
  BY <1>1, <1>3, FilesRest DEF ProviderInv, ProviderTypes

\* Another setting leaves the provider of the config as it is.
LEMMA ConfigEdited ==
  ASSUME ProviderInv, Settings!EditWrites
  PROVE  ProviderInv'
<1> DEFINE new == [files.config EXCEPT !.edits = @ + 1]
<1>1. /\ UNCHANGED <<deal, deals, agreed>>
      /\ Settings!Seen("config", new) \/ UNCHANGED <<files, filesMay>>
  BY DEF Settings!EditWrites, Settings!Unwritten, Settings!Seen
<1>2. new \in Configs /\ new.provider = files.config.provider
  BY DEF ProviderInv, ProviderTypes, Configs
<1> HIDE DEF new
<1>3. CASE UNCHANGED <<files, filesMay>>
  BY <1>1, <1>3 DEF ProviderInv, ProviderTypes, TornIsPrepared, PlaceOfDeal, OneDeal
<1>4. CASE Settings!Seen("config", new)
  <2>1. /\ files' \in [config : Configs, auth : Nat, journal : Journals]
        /\ files'.config = new /\ files'.auth = files.auth /\ files'.journal = files.journal
        /\ \/ AllDurable
           \/ /\ filesMay' \in [config : SUBSET Configs, auth : SUBSET Nat, journal : SUBSET Journals]
              /\ filesMay'.config = filesMay.config \cup {new}
              /\ filesMay'.auth = filesMay.auth /\ filesMay'.journal = filesMay.journal
    BY <1>2, <1>4, SeenConfig DEF ProviderInv
  <2>2. /\ ProviderTypes'
        /\ \A c \in filesMay'.config : \E d \in filesMay.config : c.provider = d.provider
        /\ filesMay'.auth \subseteq filesMay.auth /\ filesMay'.journal \subseteq filesMay.journal
        /\ files.journal \in filesMay.journal /\ files.journal \in filesMay'.journal
    BY <1>1, <1>2, <2>1, OfDurable DEF ProviderInv, ProviderTypes
  <2>3. OneDeal => OneDeal'
    BY <1>1, <2>2 DEF OneDeal
  <2>4. TornIsPrepared'
    BY <1>1, <2>1, <2>2, <2>3 DEF ProviderInv, TornIsPrepared
  <2>5. filesMay.journal = {files.journal} => filesMay'.journal = {files'.journal}
    BY <2>1, <2>2
  <2>6. PlaceOfDeal'
    BY <1>1, <1>2, <2>1, <2>2, <2>3, <2>5 DEF ProviderInv, PlaceOfDeal
  <2> QED
    BY <2>2, <2>4, <2>6 DEF ProviderInv
<1> QED
  BY <1>1, <1>3, <1>4

LEMMA ProviderEnds ==
  ASSUME ProviderInv, Settings!Ends
  PROVE  ProviderInv'
<1>1. /\ deal' = [at |-> "recover", then |-> "serve"] /\ UNCHANGED <<deals, agreed>>
      /\ \/ UNCHANGED <<files, filesMay>>
         \/ /\ files' \in [config : filesMay.config, auth : filesMay.auth, journal : filesMay.journal]
            /\ filesMay' = [g \in DOMAIN files |-> {files'[g]}]
  BY DEF Settings!Ends
<1>2. deal' \in Deals /\ deal'.at = "recover"
  BY <1>1 DEF Deals, Recoveries
<1>3. CASE UNCHANGED <<files, filesMay>>
  BY <1>1, <1>2, <1>3, FilesRest DEF ProviderInv, ProviderTypes
<1>4. CASE /\ files' \in [config : filesMay.config, auth : filesMay.auth, journal : filesMay.journal]
           /\ filesMay' = [g \in DOMAIN files |-> {files'[g]}]
  <2>1. /\ files' \in [config : Configs, auth : Nat, journal : Journals]
        /\ files'.config \in filesMay.config /\ files'.auth \in filesMay.auth /\ files'.journal \in filesMay.journal
    BY <1>4 DEF ProviderInv, ProviderTypes
  <2>2. AllDurable
    <3>1. DOMAIN files = {"config", "auth", "journal"}
      BY DEF ProviderInv, ProviderTypes
    <3> QED
      BY <1>4, <3>1 DEF AllDurable
  <2>3. ProviderTypes'
    BY <1>1, <1>2, <2>1, <2>2, OfDurable DEF ProviderInv, ProviderTypes
  <2>4. OneDeal => OneDeal'
    BY <1>1, <2>1, <2>2, OfDurable DEF OneDeal
  <2>5. TornIsPrepared'
    BY <1>1, <2>1, <2>2, <2>4, OfDurable DEF ProviderInv, TornIsPrepared
  <2> QED
    BY <1>2, <2>3, <2>5 DEF ProviderInv, PlaceOfDeal, Amid
<1> QED
  BY <1>1, <1>3, <1>4

LEMMA ProviderStep ==
  ASSUME ProviderInv, Settings!NextProvider
  PROVE  ProviderInv'
<1>1. 0 \in Nat /\ deals + 1 \in Nat
  BY DEF ProviderInv, ProviderTypes
<1>2. ASSUME NEW to \in {"gate", "write"}, Settings!EditLocks(to)
      PROVE  ProviderInv'
  BY <1>2 DEF Settings!EditLocks, ProviderInv, ProviderTypes, TornIsPrepared, PlaceOfDeal, OneDeal
<1>3. ASSUME Settings!EditEnters
      PROVE  ProviderInv'
  BY <1>3 DEF Settings!EditEnters, ProviderInv, ProviderTypes, TornIsPrepared, PlaceOfDeal, OneDeal
<1> QED
  BY <1>1, <1>2, <1>3, ProviderBegins, ProviderRecovers, ConfigRestored, AuthRestored, JournalUnlinked, ProviderPrepares,
     ProviderCleansUp, ProviderEnters, ConfigWritten, AuthWritten, ProviderUndoes, ProviderMarks, ProviderCommits,
     ConfigEdited, ProviderEnds DEF Settings!NextProvider

LEMMA ProviderKept == ServicesSpec => []ProviderInv
<1>1. ServicesInit => ProviderInv
  BY ProviderInit, Chosen
<1>2. ProviderInv /\ UNCHANGED settings => ProviderInv'
  BY DEF ProviderInv, ProviderTypes, TornIsPrepared, PlaceOfDeal, OneDeal, settings
<1>3. ProviderInv /\ [ServicesNext]_services => ProviderInv'
  <2>1. [ServicesNext]_services => Settings!NextProvider \/ UNCHANGED settings
    BY DEF ServicesNext, services
  <2> QED
    BY <1>2, <2>1, ProviderStep
<1> QED
  BY <1>1, <1>3, PTL DEF ServicesSpec

\* Between two transactions the definition and the key of a custom provider
\* are of one transaction that the user was told of, whichever writes failed
\* and whatever the process lost (transact_custom_provider_with_runtime,
\* recover_custom_provider_transaction).
THEOREM AllOrNothingHolds == ServicesSpec => []AllOrNothing
<1>1. ProviderInv => Settings!AllOrNothing
  BY DEF ProviderInv, ProviderTypes, TornIsPrepared, OneDeal, Settings!AllOrNothing
<1>2. ProviderInv => AllOrNothing
  BY <1>1 DEF AllOrNothing
<1> QED
  BY <1>2, ProviderKept, PTL
-----------------------------------------------------------------------------
(* The credential of an account *)

Reading == [at : {"idle", "runs", "ensures", "forces", "sent"}]
Answered == [at : {"answered", "stored"}, with : Nat]
InFlight(x) == work[x].at \in {"sent", "answered", "stored"}

\* Presented to the server, and the answer is in the file.
Spent == presented \ lost

AccountTypes ==
  /\ issued \in Nat /\ expired \in Nat
  /\ auth \in authMay /\ authMay \subseteq 0 .. issued
  /\ shared \in 0 .. issued /\ recent \in 0 .. issued
  /\ clone \in [Sessions -> 0 .. issued] /\ work \in [Sessions -> Reading \cup Answered]
  /\ refreshing \in Sessions \cup {Nobody} /\ snapshot \in (0 .. issued) \cup {Nobody}
  /\ presented \subseteq 1 .. issued

\* The lock is with the run that is amid a refresh, and with no other.
LockIsHeld == \A x \in Sessions : InFlight(x) = (refreshing = x)

\* A token that the server does not take was presented.
TakenOnce == \A t \in 1 .. issued : t \in valid \cup presented

\* What a restart may find in the file is not spent, but for a refresh whose
\* answer is not in the file; until the first refresh of a process nothing
\* that it holds is; and what was refreshed last is not while it is good.
FileIsFresh ==
  \A t \in authMay : t \in Spent => \E x \in Sessions : work[x].at \in {"sent", "answered"} /\ t = clone[x]
MemoryIsFresh ==
  recent = 0 =>
    /\ shared \in Spent => \E x \in Sessions : InFlight(x) /\ shared = clone[x]
    /\ snapshot # Nobody /\ snapshot \in Spent => \E x \in Sessions : InFlight(x) /\ snapshot = clone[x]
    /\ \A y \in Sessions : clone[y] \in Spent => \E x \in Sessions : InFlight(x) /\ clone[y] = clone[x]
RecentIsFresh ==
  recent # 0 /\ ~ Account!Expired(recent) /\ recent \in Spent => \E x \in Sessions : InFlight(x) /\ recent = clone[x]

RunsAreAt ==
  \A x \in Sessions :
    /\ work[x].at # "idle" => clone[x] # 0
    /\ work[x].at = "sent" =>
         /\ clone[x] \in presented
         /\ \/ clone[x] \in valid \cup lost
            \/ recent # 0 /\ Account!Expired(recent) /\ clone[x] \notin authMay
    /\ work[x].at \in {"answered", "stored"} => work[x].with \in (1 .. issued) \ presented

AccountInv ==
  /\ AccountTypes /\ LockIsHeld /\ TakenOnce /\ FileIsFresh /\ MemoryIsFresh /\ RecentIsFresh /\ RunsAreAt
  /\ Account!RefreshedOnce

LEMMA AccountInit == Account!InitCredentials => AccountInv
<1> SUFFICES ASSUME Account!InitCredentials
             PROVE  AccountInv
  OBVIOUS
<1>1. \A x \in Sessions : work[x] = [at |-> "idle"] /\ work[x].at = "idle" /\ clone[x] = 0
  BY DEF Account!InitCredentials
<1>2. AccountTypes
  BY DEF Account!InitCredentials, AccountTypes, Reading
<1> QED
  BY <1>1, <1>2, AccountAssumption DEF Account!InitCredentials, AccountInv, LockIsHeld, TakenOnce, FileIsFresh, MemoryIsFresh,
     RecentIsFresh, RunsAreAt, Account!RefreshedOnce, InFlight, Spent

\* What the places of the runs say of each other.
LEMMA Moved ==
  ASSUME AccountInv, NEW s \in Sessions, NEW where \in {"idle", "runs", "ensures", "forces", "sent"}, Account!At(s, where)
  PROVE  /\ work' \in [Sessions -> Reading \cup Answered]
         /\ work'[s].at = where
         /\ \A x \in Sessions : x # s => work'[x] = work[x]
BY DEF AccountInv, AccountTypes, Account!At, Reading

\* A step of a run that holds no lock before or after it, and changes at most
\* its own clone and what is shared, both to what was held.
LEMMA Unlocked ==
  ASSUME AccountInv, NEW s \in Sessions, NEW where \in {"idle", "runs", "ensures", "forces"}, Account!At(s, where),
         ~ InFlight(s), UNCHANGED <<valid, issued, expired, auth, authMay, recent, refreshing, snapshot, presented, again, lost>>,
         NEW c \in 0 .. issued, clone' = [clone EXCEPT ![s] = c], where # "idle" => c # 0,
         \/ c \in {shared, clone[s]} /\ UNCHANGED shared
         \/ c = 0 /\ UNCHANGED shared
         \/ recent # 0 /\ c = recent /\ shared' \in {shared, recent}
  PROVE  AccountInv'
<1>1. /\ work' \in [Sessions -> Reading \cup Answered] /\ work'[s].at = where
      /\ \A x \in Sessions : x # s => work'[x] = work[x]
  BY Moved
<1>2. /\ clone'[s] = c /\ \A x \in Sessions : x # s => clone'[x] = clone[x]
      /\ clone' \in [Sessions -> 0 .. issued]
  BY DEF AccountInv, AccountTypes
<1>3. /\ \A x \in Sessions : InFlight(x)' = InFlight(x) /\ (InFlight(x) => clone'[x] = clone[x])
      /\ Spent' = Spent
  BY <1>1, <1>2 DEF InFlight, Spent
<1>4. AccountTypes'
  BY <1>1, <1>2 DEF AccountInv, AccountTypes
<1>5. LockIsHeld' /\ TakenOnce'
  BY <1>3 DEF AccountInv, LockIsHeld, TakenOnce
<1>6. FileIsFresh'
  BY <1>1, <1>2, <1>3 DEF AccountInv, FileIsFresh, InFlight
<1>7. MemoryIsFresh'
  <2>1. 0 \notin Spent
    BY DEF AccountInv, AccountTypes, Spent
  <2> QED
    BY <1>2, <1>3, <2>1 DEF AccountInv, MemoryIsFresh
<1>8. RecentIsFresh'
  BY <1>2, <1>3 DEF AccountInv, RecentIsFresh, Account!Expired
<1>9. RunsAreAt'
  <2> SUFFICES ASSUME NEW x \in Sessions
               PROVE  /\ work'[x].at # "idle" => clone'[x] # 0
                      /\ work'[x].at = "sent" =>
                           /\ clone'[x] \in presented
                           /\ \/ clone'[x] \in valid \cup lost
                              \/ recent # 0 /\ Account!Expired(recent) /\ clone'[x] \notin authMay
                      /\ work'[x].at \in {"answered", "stored"} => work'[x].with \in (1 .. issued) \ presented
    BY DEF RunsAreAt, Account!Expired
  <2> QED
    BY <1>1, <1>2 DEF AccountInv, RunsAreAt
<1>10. Account!RefreshedOnce'
  BY DEF AccountInv, Account!RefreshedOnce
<1> QED
  BY <1>4, <1>5, <1>6, <1>7, <1>8, <1>9, <1>10 DEF AccountInv

LEMMA Adopted ==
  ASSUME AccountInv, NEW s \in Sessions, Account!Adopts(s), ~ InFlight(s), recent # 0,
         UNCHANGED <<valid, issued, expired, snapshot>>
  PROVE  AccountInv'
<1>1. recent \in 0 .. issued
  BY DEF AccountInv, AccountTypes
<1> QED
  BY <1>1, Unlocked DEF Account!Adopts, Account!Ghosts

\* Who presents has the lock, and what it presents is not spent, but beyond
\* two refreshes.
LEMMA Presented ==
  ASSUME AccountInv, NEW s \in Sessions, work[s].at \in {"ensures", "forces"}, refreshing = Nobody,
         ~ Account!Refreshed(s), Account!Present(s), UNCHANGED <<valid, issued, expired, snapshot>>
  PROVE  AccountInv'
<1> DEFINE c == clone[s]
<1>1. /\ work' \in [Sessions -> Reading \cup Answered] /\ work'[s].at = "sent"
      /\ \A x \in Sessions : x # s => work'[x] = work[x]
  BY Moved DEF Account!Present
<1>2. /\ refreshing' = s /\ presented' = presented \cup {c} /\ UNCHANGED <<clone, lost, auth, authMay, shared, recent>>
      /\ again' = IF c \in presented \ lost
                  THEN again \cup {<<c, IF recent # 0 /\ Account!Expired(recent) THEN "outlived" ELSE "recent">>}
                  ELSE again
  BY DEF Account!Present, Account!Stores
<1>3. /\ \A x \in Sessions : ~ InFlight(x)
      /\ \A x \in Sessions : InFlight(x)' = (x = s)
  BY <1>1, AccountAssumption DEF AccountInv, LockIsHeld, InFlight
<1>4. c \in 1 .. issued
  BY DEF AccountInv, AccountTypes, RunsAreAt
<1>5. \/ c \notin Spent
      \/ recent # 0 /\ Account!Expired(recent) /\ c \notin authMay
  BY <1>3 DEF AccountInv, FileIsFresh, MemoryIsFresh, RecentIsFresh, Account!Refreshed, InFlight
<1>6. /\ Spent' \subseteq Spent \cup {c}
  BY <1>2 DEF Spent
<1>7. AccountTypes'
  BY <1>1, <1>2, <1>4 DEF AccountInv, AccountTypes
<1>8. LockIsHeld' /\ TakenOnce'
  BY <1>2, <1>3 DEF AccountInv, LockIsHeld, TakenOnce
<1>9. FileIsFresh'
  BY <1>1, <1>2, <1>3, <1>6 DEF AccountInv, FileIsFresh, InFlight
<1>10. MemoryIsFresh'
  BY <1>2, <1>3, <1>6 DEF AccountInv, MemoryIsFresh
<1>11. RecentIsFresh'
  BY <1>2, <1>3, <1>6 DEF AccountInv, RecentIsFresh, Account!Expired
<1>12. RunsAreAt'
  <2>1. c \in valid \cup presented
    BY <1>4 DEF AccountInv, TakenOnce
  <2>2. c \in valid \cup lost \/ (recent # 0 /\ Account!Expired(recent) /\ c \notin authMay)
    BY <1>5, <2>1 DEF Spent
  <2> SUFFICES ASSUME NEW x \in Sessions
               PROVE  /\ work'[x].at # "idle" => clone[x] # 0
                      /\ work'[x].at = "sent" =>
                           /\ clone[x] \in presented'
                           /\ \/ clone[x] \in valid \cup lost
                              \/ recent # 0 /\ Account!Expired(recent) /\ clone[x] \notin authMay
                      /\ work'[x].at \in {"answered", "stored"} => work'[x].with \in (1 .. issued) \ presented'
    BY <1>2 DEF RunsAreAt, Account!Expired
  <2>3. CASE x = s
    BY <1>1, <1>2, <1>4, <2>2, <2>3
  <2>4. CASE x # s
    BY <1>1, <1>3, <2>4 DEF AccountInv, RunsAreAt, InFlight
  <2> QED
    BY <2>3, <2>4
<1>13. Account!RefreshedOnce'
  BY <1>2, <1>5 DEF AccountInv, Account!RefreshedOnce, Spent
<1> QED
  BY <1>7, <1>8, <1>9, <1>10, <1>11, <1>12, <1>13 DEF AccountInv

\* The refresh of a run ends without an answer in the file: what it presented
\* counts as lost, or was before.
LEMMA Failed ==
  ASSUME AccountInv, NEW s \in Sessions, work[s].at \in {"sent", "answered"}, Account!At(s, "runs"), refreshing' = Nobody,
         UNCHANGED <<expired, auth, authMay, shared, recent, clone, snapshot, presented, again>>,
         \/ lost' = lost \cup {clone[s]} /\ (UNCHANGED <<valid, issued>> \/ (Account!Rotated(s) /\ work[s].at = "sent"))
         \/ UNCHANGED <<lost, valid, issued>> /\ clone[s] \notin valid /\ work[s].at = "sent"
  PROVE  AccountInv'
<1> DEFINE c == clone[s]
<1>1. /\ work' \in [Sessions -> Reading \cup Answered] /\ work'[s].at = "runs"
      /\ \A x \in Sessions : x # s => work'[x] = work[x]
  BY Moved
<1>2. /\ \A x \in Sessions : InFlight(x) => x = s
      /\ \A x \in Sessions : ~ InFlight(x)'
  BY <1>1 DEF AccountInv, LockIsHeld, InFlight
<1>3. issued' \in Nat /\ issued \in Nat /\ issued' >= issued
  BY DEF AccountInv, AccountTypes, Account!Rotated
<1>4. AccountTypes'
  BY <1>1, <1>3 DEF AccountInv, AccountTypes
<1>5. LockIsHeld'
  BY <1>2, AccountAssumption DEF LockIsHeld, InFlight
<1>6. TakenOnce'
  <2>1. work[s].at = "sent" => c \in presented
    BY DEF AccountInv, RunsAreAt
  <2> QED
    BY <1>3, <2>1 DEF AccountInv, AccountTypes, TakenOnce, Account!Rotated
<1>7. \/ Spent' \subseteq Spent \ {c}
      \/ Spent' = Spent /\ recent # 0 /\ Account!Expired(recent) /\ c \notin authMay
  BY DEF AccountInv, RunsAreAt, Spent
<1>8. FileIsFresh'
  BY <1>1, <1>2, <1>7 DEF AccountInv, FileIsFresh, InFlight
<1>9. MemoryIsFresh'
  BY <1>2, <1>7 DEF AccountInv, MemoryIsFresh
<1>10. RecentIsFresh'
  BY <1>2, <1>7 DEF AccountInv, RecentIsFresh, Account!Expired
<1>11. RunsAreAt'
  <2>1. c # 0
    BY DEF AccountInv, RunsAreAt
  <2> QED
    BY <1>1, <1>2, <2>1 DEF AccountInv, RunsAreAt, InFlight
<1>12. Account!RefreshedOnce'
  BY DEF AccountInv, Account!RefreshedOnce
<1> QED
  BY <1>4, <1>5, <1>6, <1>8, <1>9, <1>10, <1>11, <1>12 DEF AccountInv

LEMMA Answers ==
  ASSUME AccountInv, NEW s \in Sessions, Account!Answer(s)
  PROVE  AccountInv'
<1> USE DEF Account!Stores, Account!Server
<1>1. CASE clone[s] \notin valid
  BY <1>1, Failed DEF Account!Answer, Account!Rotated
<1>2. CASE clone[s] \in valid
  <2>1. /\ work[s].at = "sent" /\ issued' = issued + 1 /\ valid' = (valid \ {clone[s]}) \cup {issued'}
        /\ work' = [work EXCEPT ![s] = [at |-> "answered", with |-> issued']]
        /\ UNCHANGED <<expired, auth, authMay, shared, recent, clone, refreshing, snapshot, presented, again, lost>>
    BY <1>2 DEF Account!Answer, Account!Rotated
  <2>2. issued \in Nat /\ issued' \in Nat
    BY <2>1 DEF AccountInv, AccountTypes
  <2>3. [at |-> "answered", with |-> issued'] \in Answered
    BY <2>2 DEF Answered
  <2>4. /\ work' \in [Sessions -> Reading \cup Answered] /\ work'[s].at = "answered" /\ work'[s].with = issued'
        /\ \A x \in Sessions : x # s => work'[x] = work[x]
    BY <2>1, <2>3 DEF AccountInv, AccountTypes
  <2>5. AccountTypes'
    BY <2>1, <2>2, <2>4 DEF AccountInv, AccountTypes
  <2>6. \A x \in Sessions : InFlight(x)' = InFlight(x)
    BY <2>1, <2>4 DEF InFlight
  <2>7. LockIsHeld'
    BY <2>1, <2>6 DEF AccountInv, LockIsHeld
  <2>8. TakenOnce'
    <3>1. clone[s] \in presented
      BY <2>1 DEF AccountInv, RunsAreAt
    <3> QED
      BY <2>1, <2>2, <3>1 DEF AccountInv, TakenOnce
  <2>9. FileIsFresh'
    BY <2>1, <2>4 DEF AccountInv, FileIsFresh, Spent
  <2>10. MemoryIsFresh' /\ RecentIsFresh'
    BY <2>1, <2>6 DEF AccountInv, MemoryIsFresh, RecentIsFresh, Spent, Account!Expired
  <2>11. issued' \notin presented /\ issued' \in 1 .. issued'
    BY <2>1, <2>2 DEF AccountInv, AccountTypes
  <2>12. RunsAreAt'
    <3> SUFFICES ASSUME NEW x \in Sessions
                 PROVE  /\ work'[x].at # "idle" => clone[x] # 0
                        /\ work'[x].at = "sent" =>
                             /\ clone[x] \in presented
                             /\ \/ clone[x] \in valid' \cup lost
                                \/ recent # 0 /\ Account!Expired(recent) /\ clone[x] \notin authMay
                        /\ work'[x].at \in {"answered", "stored"} => work'[x].with \in (1 .. issued') \ presented
      BY <2>1 DEF RunsAreAt, Account!Expired
    <3>1. CASE x = s
      BY <2>1, <2>4, <2>11, <3>1 DEF AccountInv, RunsAreAt
    <3>2. CASE x # s
      <4>1. ~ InFlight(x)
        BY <2>1, <3>2 DEF AccountInv, LockIsHeld, InFlight
      <4> QED
        BY <2>4, <3>2, <4>1 DEF AccountInv, RunsAreAt, InFlight
    <3> QED
      BY <3>1, <3>2
  <2>13. Account!RefreshedOnce'
    BY <2>1 DEF AccountInv, Account!RefreshedOnce
  <2> QED
    BY <2>5, <2>7, <2>8, <2>9, <2>10, <2>12, <2>13 DEF AccountInv
<1> QED
  BY <1>1, <1>2

\* What came reaches the file, for certain or not; then it is no longer owed.
LEMMA Applies ==
  ASSUME AccountInv, NEW s \in Sessions, Account!Apply(s)
  PROVE  AccountInv'
<1>1. CASE work' = [work EXCEPT ![s].at = "stored"]
  <2> DEFINE new == work[s].with
  <2>1. /\ work[s].at = "answered" /\ auth' = new /\ UNCHANGED <<refreshing, valid, issued, expired, shared, recent, clone, snapshot, presented, again>>
        /\ \/ authMay' = {new} /\ lost' = lost
           \/ authMay' = authMay \cup {new} /\ lost' = lost \cup {clone[s]}
    <3>1. work'[s].at = "stored" /\ work[s].at = "answered"
      BY <1>1 DEF AccountInv, AccountTypes, Reading, Answered, Account!Apply
    <3>2. ~ Account!At(s, "runs")
      BY <3>1, Moved
    <3> QED
      BY <3>1, <3>2 DEF Account!Apply, Account!Server
  <2>2. new \in (1 .. issued) \ presented
    BY <2>1 DEF AccountInv, RunsAreAt
  <2>3. /\ work' \in [Sessions -> Reading \cup Answered] /\ work'[s].at = "stored" /\ work'[s].with = new
        /\ \A x \in Sessions : x # s => work'[x] = work[x]
    <3>1. work[s] \in Answered
      BY <2>1 DEF AccountInv, AccountTypes, Reading
    <3>2. /\ [work[s] EXCEPT !.at = "stored"] \in Answered /\ [work[s] EXCEPT !.at = "stored"].at = "stored"
          /\ [work[s] EXCEPT !.at = "stored"].with = new
      BY <3>1 DEF Answered
    <3>3. work' = [work EXCEPT ![s] = [work[s] EXCEPT !.at = "stored"]]
      BY <1>1 DEF AccountInv, AccountTypes
    <3> QED
      BY <3>2, <3>3 DEF AccountInv, AccountTypes
  <2>4. \A x \in Sessions : InFlight(x)' = InFlight(x)
    BY <2>1, <2>3 DEF InFlight
  <2>5. \A x \in Sessions : InFlight(x) => x = s
    BY <2>1 DEF AccountInv, LockIsHeld, InFlight
  <2> HIDE DEF new
  <2>6. AccountTypes'
    <3>1. new \in 0 .. issued /\ authMay \subseteq 0 .. issued /\ issued \in Nat
      BY <2>2 DEF AccountInv, AccountTypes
    <3>2. auth' \in authMay' /\ authMay' \subseteq 0 .. issued
      BY <2>1, <3>1
    <3> QED
      BY <2>1, <2>3, <3>2 DEF AccountInv, AccountTypes
  <2>7. LockIsHeld' /\ TakenOnce'
    BY <2>1, <2>4 DEF AccountInv, LockIsHeld, TakenOnce
  <2>8. Spent' \subseteq Spent /\ (lost' # lost => clone[s] \notin Spent') /\ new \notin Spent'
    BY <2>1, <2>2 DEF Spent
  <2>9. FileIsFresh'
    <3> SUFFICES ASSUME NEW t \in authMay', t \in Spent'
                 PROVE  FALSE
      BY DEF FileIsFresh
    <3>1. t # new /\ t \in authMay /\ t \in Spent /\ lost' = lost \cup {clone[s]}
      BY <2>1, <2>8
    <3>2. t = clone[s]
      BY <2>5, <3>1 DEF AccountInv, FileIsFresh, InFlight
    <3> QED
      BY <3>1, <3>2 DEF Spent
  <2>10. MemoryIsFresh' /\ RecentIsFresh'
    BY <2>1, <2>4, <2>8 DEF AccountInv, MemoryIsFresh, RecentIsFresh, Account!Expired
  <2>11. RunsAreAt'
    <3> SUFFICES ASSUME NEW x \in Sessions
                 PROVE  /\ work'[x].at # "idle" => clone[x] # 0
                        /\ work'[x].at # "sent"
                        /\ work'[x].at \in {"answered", "stored"} => work'[x].with \in (1 .. issued) \ presented
      BY <2>1 DEF RunsAreAt
    <3>1. CASE x = s
      BY <2>1, <2>2, <2>3, <3>1 DEF AccountInv, RunsAreAt
    <3>2. CASE x # s
      BY <2>3, <2>5, <3>2 DEF AccountInv, RunsAreAt, InFlight
    <3> QED
      BY <3>1, <3>2
  <2>12. Account!RefreshedOnce'
    BY <2>1 DEF AccountInv, Account!RefreshedOnce
  <2> QED
    BY <2>6, <2>7, <2>9, <2>10, <2>11, <2>12 DEF AccountInv
<1>2. CASE Account!At(s, "runs") /\ refreshing' = Nobody /\ lost' = lost \cup {clone[s]} /\ UNCHANGED Account!Files
  BY <1>2, Failed DEF Account!Apply, Account!Files, Account!Server
<1> QED
  BY <1>1, <1>2 DEF Account!Apply

LEMMA Publishes ==
  ASSUME AccountInv, NEW s \in Sessions, Account!PublishRefresh(s)
  PROVE  AccountInv'
<1> DEFINE new == work[s].with
<1>1. /\ work[s].at = "stored" /\ recent' = new /\ shared' = new /\ clone' = [clone EXCEPT ![s] = new]
      /\ refreshing' = Nobody /\ Account!At(s, "runs")
      /\ UNCHANGED <<valid, issued, expired, auth, authMay, snapshot, presented, again, lost>>
  BY DEF Account!PublishRefresh, Account!Files, Account!Server, Account!Ghosts
<1>2. new \in (1 .. issued) \ presented
  BY <1>1 DEF AccountInv, RunsAreAt
<1>3. /\ work' \in [Sessions -> Reading \cup Answered] /\ work'[s].at = "runs"
      /\ \A x \in Sessions : x # s => work'[x] = work[x]
  BY <1>1, Moved
<1>4. /\ \A x \in Sessions : InFlight(x) => x = s
      /\ \A x \in Sessions : ~ InFlight(x)'
  BY <1>1, <1>3 DEF AccountInv, LockIsHeld, InFlight
<1> HIDE DEF new
<1>5. issued \in Nat /\ new \in 0 .. issued /\ new # 0
  BY <1>2 DEF AccountInv, AccountTypes
<1>6. AccountTypes'
  BY <1>1, <1>3, <1>5 DEF AccountInv, AccountTypes
<1>7. LockIsHeld'
  BY <1>1, <1>4, AccountAssumption DEF LockIsHeld, InFlight
<1>8. TakenOnce' /\ Spent' = Spent
  BY <1>1 DEF AccountInv, TakenOnce, Spent
<1>9. FileIsFresh'
  BY <1>1, <1>4, <1>8 DEF AccountInv, FileIsFresh, InFlight
<1>10. MemoryIsFresh' /\ RecentIsFresh'
  BY <1>1, <1>2, <1>5, <1>8 DEF MemoryIsFresh, RecentIsFresh, Spent
<1>11. clone'[s] = new /\ \A x \in Sessions : x # s => clone'[x] = clone[x]
  BY <1>1 DEF AccountInv, AccountTypes
<1>12. RunsAreAt'
  BY <1>1, <1>3, <1>4, <1>5, <1>11 DEF AccountInv, RunsAreAt, InFlight
<1>13. Account!RefreshedOnce'
  BY <1>1 DEF AccountInv, Account!RefreshedOnce
<1> QED
  BY <1>6, <1>7, <1>8, <1>9, <1>10, <1>12, <1>13 DEF AccountInv

LEMMA AccountDrops ==
  ASSUME AccountInv, NEW s \in Sessions, Account!Dropped(s)
  PROVE  AccountInv'
<1> USE DEF Account!Stores, Account!Server
<1>1. CASE work[s].at = "sent"
  BY <1>1, Failed DEF Account!Dropped, Account!Rotated
<1>2. CASE work[s].at \in {"ensures", "forces"}
  <2>1. clone[s] \in 0 .. issued /\ clone[s] # 0 /\ ~ InFlight(s) /\ clone' = [clone EXCEPT ![s] = clone[s]]
    BY <1>2 DEF AccountInv, AccountTypes, RunsAreAt, InFlight, Account!Dropped
  <2> QED
    BY <1>2, <2>1, Unlocked DEF Account!Dropped
<1> QED
  BY <1>1, <1>2 DEF Account!Dropped

\* Steps of the user and of time, which no run takes part in: what the file,
\* the shared store and the login then hold is new, or was held, or is none.
LEMMA Outside ==
  ASSUME AccountInv, UNCHANGED <<recent, clone, work, refreshing, presented, again, lost>>,
         issued' \in {issued, issued + 1}, expired' \in Nat, expired <= expired',
         valid' = IF issued' = issued THEN valid ELSE valid \cup {issued'},
         auth' \in authMay', authMay' \subseteq authMay \cup {0} \cup (IF issued' = issued THEN {} ELSE {issued'}),
         shared' \in {shared, 0} \/ (snapshot # Nobody /\ shared' = snapshot),
         snapshot' \in {snapshot, Nobody} \/ snapshot' = auth'
  PROVE  AccountInv'
<1>1. issued \in Nat /\ issued' \in Nat /\ issued <= issued' /\ issued + 1 \notin 0 .. issued
  BY DEF AccountInv, AccountTypes
<1>2. Spent' = Spent /\ (issued' # issued => issued' \notin Spent) /\ 0 \notin Spent
  BY <1>1 DEF AccountInv, AccountTypes, Spent
<1>3. authMay' \subseteq 0 .. issued'
  BY <1>1 DEF AccountInv, AccountTypes
<1>4. AccountTypes'
  BY <1>1, <1>3 DEF AccountInv, AccountTypes
<1>5. LockIsHeld'
  BY DEF AccountInv, LockIsHeld, InFlight
<1>6. TakenOnce'
  BY <1>1 DEF AccountInv, TakenOnce
<1>7. FileIsFresh'
  BY <1>2 DEF AccountInv, FileIsFresh
<1>8. MemoryIsFresh'
  BY <1>2, <1>7 DEF AccountInv, MemoryIsFresh, FileIsFresh, InFlight
<1>9. RecentIsFresh'
  <2>1. recent \in Nat /\ expired \in Nat
    BY DEF AccountInv, AccountTypes
  <2>2. Account!Expired(recent) => Account!Expired(recent)'
    BY <2>1 DEF Account!Expired
  <2> QED
    BY <1>2, <2>2 DEF AccountInv, RecentIsFresh, InFlight
<1>10. RunsAreAt'
  <2>1. recent \in Nat /\ expired \in Nat
    BY DEF AccountInv, AccountTypes
  <2>2. Account!Expired(recent) => Account!Expired(recent)'
    BY <2>1 DEF Account!Expired
  <2>3. \A x \in Sessions : clone[x] \in 0 .. issued /\ clone[x] # issued + 1
    BY <1>1 DEF AccountInv, AccountTypes
  <2>4. \A x \in Sessions : clone[x] # 0 /\ clone[x] \notin authMay => clone[x] \notin authMay'
    BY <2>3
  <2>5. valid \subseteq valid' /\ 1 .. issued \subseteq 1 .. issued'
    BY <1>1
  <2> QED
    BY <2>2, <2>4, <2>5 DEF AccountInv, RunsAreAt
<1>11. Account!RefreshedOnce'
  BY DEF AccountInv, Account!RefreshedOnce
<1> QED
  BY <1>4, <1>5, <1>6, <1>7, <1>8, <1>9, <1>10, <1>11 DEF AccountInv

LEMMA Reboots ==
  ASSUME AccountInv, Account!Reboot
  PROVE  AccountInv'
<1> DEFINE away == {clone[x] : x \in {y \in Sessions : work[y].at \in {"sent", "answered"}}}
<1>1. /\ UNCHANGED <<valid, issued, expired, presented, again>> /\ auth' \in authMay /\ authMay' = {auth'}
      /\ shared' = auth' /\ recent' = 0 /\ clone' = [x \in Sessions |-> 0]
      /\ refreshing' = Nobody /\ snapshot' = Nobody /\ lost' = lost \cup away
  BY DEF Account!Reboot, Account!Server
<1>2. work' = [x \in Sessions |-> [at |-> "idle"]]
  BY DEF Account!Reboot
<1>3. \A x \in Sessions : work'[x] \in Reading /\ work'[x].at = "idle" /\ clone'[x] = 0
  BY <1>1, <1>2 DEF Reading
<1>4. auth' \notin Spent' /\ 0 \notin Spent'
  <2>1. auth' \in Spent => auth' \in away
    BY <1>1 DEF AccountInv, FileIsFresh
  <2> QED
    BY <1>1, <2>1 DEF AccountInv, AccountTypes, Spent
<1> HIDE DEF away
<1>5. AccountTypes'
  BY <1>1, <1>2, <1>3 DEF AccountInv, AccountTypes
<1> QED
  BY <1>1, <1>3, <1>4, <1>5, AccountAssumption DEF AccountInv, LockIsHeld, TakenOnce, FileIsFresh, MemoryIsFresh,
     RecentIsFresh, RunsAreAt, InFlight, Account!RefreshedOnce

LEMMA AccountStep ==
  ASSUME AccountInv, Account!NextCredentials
  PROVE  AccountInv'
<1> USE DEF Account!Stores, Account!Server, Account!Ghosts, Account!Files
<1>1. \A s \in Sessions : clone[s] \in 0 .. issued /\ (work[s].at # "idle" => clone[s] # 0) /\ 0 \in 0 .. issued
  BY DEF AccountInv, AccountTypes, RunsAreAt
<1>2. ASSUME NEW s \in Sessions, Account!Starts(s) \/ Account!Over(s)
      PROVE  AccountInv'
  <2>1. shared \in 0 .. issued /\ ~ InFlight(s)
    BY <1>2 DEF AccountInv, AccountTypes, Account!Starts, Account!Over, InFlight
  <2>2. CASE Account!Starts(s)
    BY <2>1, <2>2, Unlocked DEF Account!Starts
  <2>3. CASE Account!Over(s)
    BY <1>1, <2>1, <2>3, Unlocked DEF Account!Over
  <2> QED
    BY <1>2, <2>2, <2>3
<1>3. ASSUME NEW s \in Sessions, Account!EnsureFresh(s) \/ Account!ForceRefresh(s)
      PROVE  AccountInv'
  <2>1. ~ InFlight(s) /\ work[s].at = "runs"
    BY <1>3 DEF Account!EnsureFresh, Account!ForceRefresh, InFlight
  <2>2. CASE recent # 0 /\ Account!Adopts(s) /\ UNCHANGED <<valid, issued, expired, snapshot>>
    BY <2>1, <2>2, Adopted
  <2>3. CASE /\ Account!At(s, "ensures") \/ Account!At(s, "forces")
             /\ UNCHANGED <<valid, issued, expired, auth, authMay, shared, recent, refreshing, snapshot, presented, again, lost, clone>>
    <3>1. clone' = [clone EXCEPT ![s] = clone[s]]
      BY <2>3 DEF AccountInv, AccountTypes
    <3> QED
      BY <1>1, <2>1, <2>3, <3>1, Unlocked
  <2> QED
    BY <1>3, <2>2, <2>3 DEF Account!EnsureFresh, Account!ForceRefresh
<1>4. ASSUME NEW s \in Sessions, Account!Locked(s)
      PROVE  AccountInv'
  <2>1. work[s].at \in {"ensures", "forces"} /\ ~ InFlight(s) /\ UNCHANGED <<valid, issued, expired, snapshot>> /\ refreshing = Nobody
    BY <1>4 DEF Account!Locked, InFlight
  <2>2. CASE Account!Refreshed(s) /\ Account!Adopts(s)
    BY <2>1, <2>2, Adopted DEF Account!Refreshed
  <2>3. CASE ~ Account!Refreshed(s) /\ Account!Present(s)
    BY <2>1, <2>3, Presented
  <2> QED
    BY <1>4, <2>2, <2>3 DEF Account!Locked
<1>5. issued \in Nat /\ expired \in Nat /\ auth \in authMay
  BY DEF AccountInv, AccountTypes
<1>6. CASE Account!Login
  BY <1>5, <1>6, Outside DEF Account!Login
<1>7. CASE Account!OtherLogin \/ Account!LoginShows \/ Account!RemoveAccount
  BY <1>5, <1>7, Outside DEF Account!OtherLogin, Account!LoginShows, Account!RemoveAccount
<1>8. CASE Account!TimePasses
  BY <1>5, <1>8, Outside DEF Account!TimePasses
<1> QED
  BY <1>2, <1>3, <1>4, <1>6, <1>7, <1>8, Answers, Applies, Publishes, AccountDrops, Reboots DEF Account!NextCredentials

\* A refresh token whose answer was stored is not presented again as long as
\* what was refreshed last is good: whichever runs hold clones of it, wait for
\* the lock, are dropped or end with the process (ensure_fresh, force_refresh,
\* run_grant_to).
THEOREM RefreshedOnceHolds == ServicesSpec => []RefreshedOnce
<1>1. ServicesInit => AccountInv
  BY AccountInit, Chosen
<1>2. AccountInv /\ UNCHANGED account => AccountInv'
  BY DEF AccountInv, AccountTypes, LockIsHeld, TakenOnce, FileIsFresh, MemoryIsFresh, RecentIsFresh, RunsAreAt,
     InFlight, Spent, Account!Expired, Account!RefreshedOnce, account
<1>3. (component = "account" => AccountInv) /\ [ServicesNext]_services => (component = "account" => AccountInv)'
  BY <1>2, AccountStep, Chosen
<1>4. (component = "account" => AccountInv) => RefreshedOnce
  BY DEF RefreshedOnce, AccountInv
<1> QED
  BY <1>1, <1>3, <1>4, PTL DEF ServicesSpec

=============================================================================
