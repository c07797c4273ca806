---------------------- MODULE ServiceSupervisorProofs ----------------------
(* Theorems about ServiceSupervisor, for every set of callers, projects    *)
(* and process ids.                                                        *)
EXTENDS ServiceSupervisor, TLAPS

-----------------------------------------------------------------------------
(* The inductive invariant.                                                *)

\* What a caller knows by the place it has reached: an action that stops a
\* service has a record of the caller's own project, a stop that was reported
\* is over, and only a stop or a restart looks at processes.
Placed(c) ==
  /\ at[c] # "idle" /\ kind[c] # "start" => own[c] # None /\ Ours(c, own[c])
  /\ at[c] \in {"check", "kill", "wait"} => kind[c] # "start"
  /\ at[c] = "save" => own[c] # None
  /\ told[c] => at[c] = "idle" /\ own[c] # None /\ ~Verified(own[c])

PlaceInv == \A c \in Caller : Placed(c)

\* A record names a process that was started, once, under the id and by the
\* project it says.
Names(r) ==
  /\ r.birth <= born /\ parent[r.birth] = r.project
  /\ \A i \in Pid : proc[i] = r.birth => i = r.pid

RecordInv ==
  /\ record # None => Names(record)
  /\ \A c \in Caller : own[c] # None => Names(own[c])

\* Between the check and the signal the id stays with the process or free.
KillInv ==
  \A c \in Caller : at[c] = "kill" => proc[own[c].pid] \in {0, own[c].birth}

ServiceInv == ServiceTypeOK /\ PlaceInv /\ RecordInv /\ KillInv

-----------------------------------------------------------------------------
(* Types.                                                                  *)

\* Every step keeps the types, and a caller its record.
LEMMA TypeStep ==
  ASSUME ServiceTypeOK, PlaceInv, [Next]_vars
  PROVE  ServiceTypeOK'
<1> USE SupervisorAssumption DEF ServiceTypeOK, Goes, Leaves, Birth, Record, Lease
<1>1. CASE UNCHANGED vars
  BY <1>1 DEF vars, os, caller, ghosts
<1>2. ASSUME NEW c \in Caller, NEW action \in {"start", "stop", "restart"}, Begin(c, action)
      PROVE  ServiceTypeOK'
  <2>1. overlap' \in BOOLEAN
    BY <1>2 DEF Begin
  <2>2. own' \in [Caller -> Record \cup {None}]
    BY <1>2 DEF Begin
  <2>3. /\ at' \in [Caller -> {"idle", "acquire", "read", "again", "unlink", "writing", "check", "kill",
                             "wait", "launch", "save"}]
        /\ kind' \in [Caller -> {"none", "start", "stop", "restart"}] /\ told' \in [Caller -> BOOLEAN]
    BY <1>2 DEF Begin
  <2>4. \A d \in Caller : at'[d] \in {"check", "kill", "wait", "save"} => own'[d] # None
    BY <1>2 DEF Begin
  <2>5. UNCHANGED <<proc, born, parent, record, lease, lost>>
    BY <1>2 DEF Begin, os
  <2> QED
    BY <2>1, <2>2, <2>3, <2>4, <2>5
<1>3. ASSUME NEW c \in Caller, Create(c) \/ Found(c) \/ Inspect(c) \/ Unlink(c) \/ Refused(c)
      PROVE  ServiceTypeOK'
  <2>1. CASE Create(c)
    BY <2>1 DEF Create, os, ghosts
  <2>2. CASE Found(c) \/ Inspect(c) \/ Refused(c)
    BY <2>2 DEF Found, Inspect, Refused, os, ghosts
  <2>3. CASE Unlink(c)
    BY <2>3 DEF Unlink, os, ghosts
  <2> QED
    BY <1>3, <2>1, <2>2, <2>3
<1>4. ASSUME NEW c \in Caller, Write(c)
      PROVE  ServiceTypeOK'
  BY <1>4 DEF Write, os, ghosts, PlaceInv, Placed
<1>5. ASSUME NEW c \in Caller, Check(c)
      PROVE  ServiceTypeOK'
  BY <1>5 DEF Check, Stopped, os, ghosts
<1>6. ASSUME NEW c \in Caller, Signal(c)
      PROVE  ServiceTypeOK'
  BY <1>6 DEF Signal, ghosts
<1>7. ASSUME NEW c \in Caller, Wait(c)
      PROVE  ServiceTypeOK'
  BY <1>7 DEF Wait, Stopped, os, ghosts
<1>8. ASSUME NEW c \in Caller, NEW i \in Pid, Launch(c, i)
      PROVE  ServiceTypeOK'
  <2> DEFINE who == IF kind[c] = "start" THEN Home[c] ELSE own[c].project
  <2>1. who \in Project
    BY <1>8 DEF Launch, PlaceInv, Placed
  <2>2. /\ born' = born + 1 /\ born + 1 \in 1..MaxBorn
        /\ proc' = [proc EXCEPT ![i] = born + 1] /\ parent' = [parent EXCEPT ![born + 1] = who]
        /\ own' = [own EXCEPT ![c] = [pid |-> i, birth |-> born + 1, project |-> who]]
        /\ at' = [at EXCEPT ![c] = "save"]
        /\ UNCHANGED <<record, lease, kind, told, overlap, lost>>
    BY <1>8 DEF Launch, NextBorn, ghosts
  <2>3. [pid |-> i, birth |-> born + 1, project |-> who] \in Record
    BY <2>1, <2>2
  <2> HIDE DEF who
  <2>4. /\ born' \in 0..MaxBorn /\ proc' \in [Pid -> 0..born']
        /\ parent' \in [Birth -> Project \cup {None}]
    BY <2>1, <2>2
  <2>5. own' \in [Caller -> Record \cup {None}] /\ own'[c] # None
    BY <2>2, <2>3
  <2> QED
    BY <2>2, <2>4, <2>5
<1>9. ASSUME NEW c \in Caller, LaunchFails(c) \/ Save(c) \/ SaveFails(c) \/ Crash(c)
      PROVE  ServiceTypeOK'
  BY <1>9 DEF LaunchFails, Save, SaveFails, Crash, os, ghosts
<1>10. ASSUME NEW i \in Pid, Exit(i) \/ Foreign(i)
       PROVE  ServiceTypeOK'
  <2>1. CASE Exit(i)
    BY <2>1 DEF Exit, caller, ghosts
  <2>2. CASE Foreign(i)
    <3>1. /\ born' = born + 1 /\ born < MaxBorn /\ proc' = [proc EXCEPT ![i] = born + 1]
          /\ parent' = [parent EXCEPT ![born + 1] = None]
          /\ UNCHANGED <<record, lease, at, kind, own, told, overlap, lost>>
      BY <2>2 DEF Foreign, NextBorn, caller, ghosts
    <3>2. /\ born' \in 0..MaxBorn /\ proc' \in [Pid -> 0..born']
          /\ parent' \in [Birth -> Project \cup {None}]
      BY <3>1
    <3> QED
      BY <3>1, <3>2
  <2> QED
    BY <1>10, <2>1, <2>2
<1>11. CASE Expire
  BY <1>11 DEF Expire, os, caller, ghosts
<1> QED
  BY <1>1, <1>2, <1>3, <1>4, <1>5, <1>6, <1>7, <1>8, <1>9, <1>10, <1>11 DEF Next, Acts
-----------------------------------------------------------------------------
(* Records and the processes they name.                                    *)

\* What a step that starts a process does to the table of processes.
LEMMA BornStep ==
  ASSUME ServiceTypeOK, NEW i \in Pid, NEW who \in Project \cup {None}, NextBorn(i, who)
  PROVE  /\ born' = born + 1 /\ born' \in Birth /\ proc'[i] = born' /\ parent'[born'] = who
         /\ \A j \in Pid \ {i} : proc'[j] = proc[j]
         /\ \A j \in Pid : proc[j] <= born
         /\ \A b \in Birth : b <= born => parent'[b] = parent[b]
BY SupervisorAssumption DEF ServiceTypeOK, NextBorn, Birth

\* A record that names a process still names it when another is started.
LEMMA NamesBorn ==
  ASSUME ServiceTypeOK, NEW i \in Pid, NEW who \in Project \cup {None}, NextBorn(i, who),
         NEW r \in Record, Names(r)
  PROVE  Names(r)' /\ (~Verified(r) => ~Verified(r)')
BY BornStep DEF ServiceTypeOK, Names, Record, Birth, Verified

\* And when one ends.
LEMMA NamesEnd ==
  ASSUME ServiceTypeOK, NEW i \in Pid, proc' = [proc EXCEPT ![i] = 0], UNCHANGED <<born, parent>>,
         NEW r \in Record
  PROVE  (Names(r) => Names(r)') /\ (~Verified(r) => ~Verified(r)')
BY SupervisorAssumption DEF ServiceTypeOK, Names, Record, Birth, Verified

\* Records go on naming the processes they name.
LEMMA RecordStep ==
  ASSUME ServiceTypeOK, PlaceInv, RecordInv, [Next]_vars
  PROVE  RecordInv'
<1> USE SupervisorAssumption DEF Goes, Leaves
<1>0. /\ record # None => record \in Record
      /\ \A c \in Caller : own[c] # None => own[c] \in Record
  BY DEF ServiceTypeOK
<1>1. ASSUME UNCHANGED <<os, record, own>>
      PROVE  RecordInv'
  BY <1>1 DEF RecordInv, Names, os
<1>2. ASSUME NEW c \in Caller, NEW action \in {"start", "stop", "restart"}, Begin(c, action)
      PROVE  RecordInv'
  BY <1>2 DEF Begin, RecordInv, Names, os, ServiceTypeOK
<1>3. ASSUME NEW c \in Caller, Signal(c)
      PROVE  RecordInv'
  <2>1. CASE UNCHANGED proc
    BY <1>1, <1>3, <2>1 DEF Signal, os
  <2>2. CASE proc' = [proc EXCEPT ![own[c].pid] = 0]
    <3>1. own[c] \in Record /\ own[c].pid \in Pid /\ UNCHANGED <<born, parent, record, own>>
      BY <1>0, <1>3 DEF Signal, ServiceTypeOK, Record
    <3> QED
      BY <1>0, <2>2, <3>1, NamesEnd DEF RecordInv
  <2> QED
    BY <1>3, <2>1, <2>2 DEF Signal
<1>4. ASSUME NEW c \in Caller, NEW i \in Pid, Launch(c, i)
      PROVE  RecordInv'
  <2> DEFINE who == IF kind[c] = "start" THEN Home[c] ELSE own[c].project
             new == [pid |-> i, birth |-> born + 1, project |-> who]
  <2>1. who \in Project
    BY <1>0, <1>4 DEF Launch, PlaceInv, Placed, Record, ServiceTypeOK
  <2>2. NextBorn(i, who) /\ own' = [own EXCEPT ![c] = new] /\ UNCHANGED record
    BY <1>4 DEF Launch
  <2>3. own'[c] = new /\ \A d \in Caller \ {c} : own'[d] = own[d]
    BY <2>2 DEF ServiceTypeOK
  <2>4. Names(own[c])'
    <3> HIDE DEF who
    <3> QED
      BY <2>1, <2>2, <2>3, BornStep DEF Names, ServiceTypeOK, Birth
  <2> HIDE DEF who, new
  <2>5. ASSUME record # None
        PROVE  Names(record)'
    BY <1>0, <2>1, <2>2, <2>5, NamesBorn DEF RecordInv
  <2>6. ASSUME NEW d \in Caller, own'[d] # None
        PROVE  Names(own[d])'
    <3>1. CASE d = c
      BY <2>4, <3>1
    <3>2. CASE d # c
      <4>1. PICK r \in Record : r = own[d] /\ r = own'[d] /\ Names(r)
        BY <1>0, <2>3, <2>6, <3>2 DEF RecordInv
      <4>2. Names(r)'
        BY <2>1, <2>2, <4>1, NamesBorn
      <4> QED
        BY <4>1, <4>2 DEF Names
    <3> QED
      BY <3>1, <3>2
  <2> QED
    BY <2>2, <2>5, <2>6 DEF RecordInv, Names
<1>5. ASSUME NEW c \in Caller, Save(c)
      PROVE  RecordInv'
  BY <1>5 DEF Save, RecordInv, Names, os
<1>6. ASSUME NEW i \in Pid, Exit(i)
      PROVE  RecordInv'
  <2>1. proc' = [proc EXCEPT ![i] = 0] /\ UNCHANGED <<born, parent, record, own>>
    BY <1>6 DEF Exit, caller
  <2> QED
    BY <1>0, <2>1, NamesEnd DEF RecordInv
<1>7. ASSUME NEW i \in Pid, Foreign(i)
      PROVE  RecordInv'
  <2>1. NextBorn(i, None) /\ UNCHANGED <<record, own>>
    BY <1>7 DEF Foreign, caller
  <2> QED
    BY <1>0, <2>1, NamesBorn DEF RecordInv
<1>8. CASE UNCHANGED vars \/ Expire
  BY <1>1, <1>8 DEF vars, caller, Expire
<1>9. ASSUME NEW c \in Caller,
             \/ Create(c) \/ Found(c) \/ Inspect(c) \/ Unlink(c) \/ Refused(c) \/ Write(c)
             \/ Check(c) \/ Wait(c) \/ LaunchFails(c) \/ SaveFails(c) \/ Crash(c)
      PROVE  RecordInv'
  BY <1>1, <1>9 DEF Create, Found, Inspect, Unlink, Refused, Write, Check, Wait, LaunchFails,
                    SaveFails, Crash
<1> QED
  BY <1>2, <1>3, <1>4, <1>5, <1>6, <1>7, <1>8, <1>9 DEF Next, Acts

-----------------------------------------------------------------------------
(* What a caller knows.                                                    *)

\* A process that is not the recorded one never becomes it.
LEMMA OtherStaysOther ==
  ASSUME ServiceTypeOK, [Next]_vars, NEW r \in Record, r.birth <= born, ~Verified(r)
  PROVE  ~Verified(r)'
<1> USE SupervisorAssumption
<1>1. ASSUME UNCHANGED proc
      PROVE  ~Verified(r)'
  BY <1>1 DEF Verified
<1>2. ASSUME NEW i \in Pid, proc' = [proc EXCEPT ![i] = 0]
      PROVE  ~Verified(r)'
  BY <1>2 DEF Verified, ServiceTypeOK, Record, Birth
<1>3. ASSUME NEW i \in Pid, NEW who, NextBorn(i, who)
      PROVE  ~Verified(r)'
  BY <1>3 DEF NextBorn, Verified, ServiceTypeOK, Record, Birth
<1>4. ASSUME NEW c \in Caller, Signal(c)
      PROVE  ~Verified(r)'
  <2>1. own[c].pid \in Pid
    BY <1>4 DEF Signal, ServiceTypeOK, Record
  <2> QED
    BY <1>1, <1>2, <1>4, <2>1 DEF Signal
<1>5. ASSUME NEW c \in Caller, NEW i \in Pid, Launch(c, i)
      PROVE  ~Verified(r)'
  BY <1>3, <1>5 DEF Launch
<1>6. ASSUME NEW i \in Pid, Exit(i) \/ Foreign(i)
      PROVE  ~Verified(r)'
  BY <1>2, <1>3, <1>6 DEF Exit, Foreign
<1>7. CASE UNCHANGED vars \/ Expire
  BY <1>1, <1>7 DEF vars, os, Expire
<1>8. ASSUME NEW c \in Caller,
             \/ Create(c) \/ Found(c) \/ Inspect(c) \/ Unlink(c) \/ Refused(c) \/ Write(c)
             \/ Check(c) \/ Wait(c) \/ LaunchFails(c) \/ Save(c) \/ SaveFails(c) \/ Crash(c)
             \/ \E action \in {"start", "stop", "restart"} : Begin(c, action)
      PROVE  ~Verified(r)'
  BY <1>1, <1>8 DEF Create, Found, Inspect, Unlink, Refused, Write, Check, Wait, LaunchFails, Save,
                    SaveFails, Crash, Begin, os
<1> QED
  BY <1>4, <1>5, <1>6, <1>7, <1>8 DEF Next, Acts

\* A caller that a step leaves alone keeps what it knows.
LEMMA PlacedStays ==
  ASSUME ServiceTypeOK, PlaceInv, RecordInv, [Next]_vars, NEW c \in Caller,
         at'[c] = at[c], kind'[c] = kind[c], own'[c] = own[c], told'[c] = told[c]
  PROVE  Placed(c)'
<1>1. Placed(c)
  BY DEF PlaceInv, Placed
<1>2. ASSUME told[c]
      PROVE  ~Verified(own[c])'
  <2>1. PICK r \in Record : r = own[c] /\ r = own'[c] /\ ~Verified(r) /\ r.birth <= born
    BY <1>1, <1>2 DEF Placed, ServiceTypeOK, RecordInv, Names
  <2>2. ~Verified(r)'
    BY <2>1, OtherStaysOther
  <2> QED
    BY <2>1, <2>2 DEF Verified
<1> QED
  BY <1>1, <1>2 DEF Placed, Ours

\* What callers know stays true.
LEMMA PlaceStep ==
  ASSUME ServiceTypeOK, PlaceInv, RecordInv, [Next]_vars
  PROVE  PlaceInv'
<1> USE SupervisorAssumption DEF Goes, Leaves
<1>0. ASSUME \A d \in Caller : Placed(d)'
      PROVE  PlaceInv'
  BY <1>0 DEF PlaceInv
<1>1. ASSUME UNCHANGED caller
      PROVE  PlaceInv'
  BY <1>0, <1>1, PlacedStays DEF caller
<1>2. ASSUME NEW c \in Caller, Placed(c)',
             \A d \in Caller \ {c} :
               at'[d] = at[d] /\ kind'[d] = kind[d] /\ own'[d] = own[d] /\ told'[d] = told[d]
      PROVE  PlaceInv'
  BY <1>0, <1>2, PlacedStays
<1>3. ASSUME NEW c \in Caller, NEW action \in {"start", "stop", "restart"}, Begin(c, action)
      PROVE  PlaceInv'
  <2>1. Placed(c)'
    BY <1>3 DEF Begin, Admits, Placed, Ours, ServiceTypeOK
  <2> QED
    BY <1>2, <1>3, <2>1 DEF Begin, ServiceTypeOK
<1>4. ASSUME NEW c \in Caller,
             \/ Create(c) \/ Found(c) \/ Inspect(c) \/ Unlink(c) \/ Refused(c) \/ Write(c)
             \/ Signal(c) \/ LaunchFails(c) \/ Save(c) \/ SaveFails(c) \/ Crash(c)
      PROVE  PlaceInv'
  <2>1. /\ UNCHANGED <<kind, own, told>>
        /\ \E place \in {"idle", "read", "again", "unlink", "writing", "check", "wait", "launch"} :
             /\ at' = [at EXCEPT ![c] = place]
             /\ place = "check" \/ place = "wait" => kind[c] # "start"
             /\ at[c] # "idle"
    BY <1>4 DEF Create, Found, Inspect, Unlink, Refused, Write, Signal, LaunchFails, Save, SaveFails,
                Crash, PlaceInv, Placed
  <2>2. at[c] # "idle" /\ at'[c] \notin {"kill", "save"} /\ ~told[c]
        /\ (at'[c] \in {"check", "wait"} => kind[c] # "start")
    BY <2>1 DEF ServiceTypeOK, PlaceInv, Placed
  <2>3. Placed(c)'
    BY <2>1, <2>2 DEF Placed, PlaceInv, Ours
  <2> QED
    BY <1>2, <2>1, <2>3 DEF ServiceTypeOK
<1>5. ASSUME NEW c \in Caller, Check(c) \/ Wait(c)
      PROVE  PlaceInv'
  <2>1. /\ at[c] \in {"check", "wait"} /\ kind[c] # "start" /\ UNCHANGED <<proc, kind, own>>
        /\ own[c] \in Record /\ Ours(c, own[c]) /\ ~told[c] /\ own[c] # None
    BY <1>5 DEF Check, Wait, os, PlaceInv, Placed, ServiceTypeOK
  <2>2. \/ at' = [at EXCEPT ![c] = "idle"] /\ UNCHANGED told
        \/ at' = [at EXCEPT ![c] = "kill"] /\ UNCHANGED told
        \/ at' = [at EXCEPT ![c] = "launch"] /\ UNCHANGED told
        \/ /\ at' = [at EXCEPT ![c] = "idle"] /\ told' = [told EXCEPT ![c] = TRUE]
           /\ ~Alive(own[c])
    BY <1>5 DEF Check, Wait, Stopped
  <2>3. ~Alive(own[c]) => ~Verified(own[c])'
    BY <2>1 DEF Alive, Verified, Record, Birth
  <2>4. Placed(c)'
    BY <2>1, <2>2, <2>3 DEF Placed, Ours, ServiceTypeOK
  <2> QED
    BY <1>2, <2>1, <2>2, <2>4 DEF ServiceTypeOK
<1>6. ASSUME NEW c \in Caller, NEW i \in Pid, Launch(c, i)
      PROVE  PlaceInv'
  <2> DEFINE who == IF kind[c] = "start" THEN Home[c] ELSE own[c].project
             new == [pid |-> i, birth |-> born + 1, project |-> who]
  <2>1. /\ at[c] = "launch" /\ at' = [at EXCEPT ![c] = "save"] /\ UNCHANGED <<kind, told>>
        /\ own' = [own EXCEPT ![c] = new] /\ who \in Project /\ born + 1 \in Birth
        /\ kind[c] # "start" => who = Home[c]
    BY <1>6 DEF Launch, NextBorn, PlaceInv, Placed, Ours, ServiceTypeOK, Record, Birth
  <2>2. new \in Record /\ new # None /\ new.project = who
    <3> HIDE DEF who
    <3> QED
      BY <2>1 DEF Record
  <2> HIDE DEF who, new
  <2>3. Placed(c)'
    BY <2>1, <2>2 DEF Placed, Ours, ServiceTypeOK, PlaceInv
  <2> QED
    BY <1>2, <2>1, <2>3 DEF ServiceTypeOK
<1>7. ASSUME NEW i \in Pid, Exit(i) \/ Foreign(i)
      PROVE  PlaceInv'
  BY <1>1, <1>7 DEF Exit, Foreign
<1>8. CASE UNCHANGED vars \/ Expire
  BY <1>1, <1>8 DEF vars, Expire
<1> QED
  BY <1>3, <1>4, <1>5, <1>6, <1>7, <1>8 DEF Next, Acts

\* Between the check and the signal nothing else comes by the id.
LEMMA KillStep ==
  ASSUME ServiceTypeOK, PlaceInv, KillInv, [Next]_vars
  PROVE  KillInv'
<1> USE SupervisorAssumption DEF Goes, Leaves
<1>0. \A c \in Caller : at[c] \in {"kill", "check"} => own[c] \in Record
  BY DEF ServiceTypeOK
<1>1. ASSUME UNCHANGED <<proc, own>>, \A d \in Caller : at'[d] = "kill" => at[d] = "kill"
      PROVE  KillInv'
  BY <1>1 DEF KillInv
<1>2. ASSUME NEW i \in Pid, proc' = [proc EXCEPT ![i] = 0], UNCHANGED own,
             \A d \in Caller : at'[d] = "kill" => at[d] = "kill"
      PROVE  KillInv'
  BY <1>0, <1>2 DEF KillInv, ServiceTypeOK, Record
<1>3. ASSUME NEW i \in Pid, NEW who, NextBorn(i, who),
             \A d \in Caller : at'[d] = "kill" => at[d] = "kill" /\ own'[d] = own[d]
      PROVE  KillInv'
  BY <1>0, <1>3 DEF KillInv, NextBorn, ServiceTypeOK, Record
<1>4. ASSUME NEW c \in Caller, NEW action \in {"start", "stop", "restart"}, Begin(c, action)
      PROVE  KillInv'
  BY <1>4 DEF Begin, KillInv, ServiceTypeOK, os
<1>5. ASSUME NEW c \in Caller,
             \/ Create(c) \/ Found(c) \/ Inspect(c) \/ Unlink(c) \/ Refused(c) \/ Write(c)
             \/ LaunchFails(c) \/ Save(c) \/ SaveFails(c) \/ Crash(c)
      PROVE  KillInv'
  <2>1. /\ UNCHANGED <<proc, own>>
        /\ \E place \in {"idle", "read", "again", "unlink", "writing", "check", "launch"} :
             at' = [at EXCEPT ![c] = place]
    BY <1>5 DEF Create, Found, Inspect, Unlink, Refused, Write, LaunchFails, Save, SaveFails, Crash, os
  <2> QED
    BY <1>1, <2>1 DEF ServiceTypeOK
<1>6. ASSUME NEW c \in Caller, Check(c)
      PROVE  KillInv'
  <2>1. CASE at' = [at EXCEPT ![c] = "kill"] /\ Verified(own[c]) /\ UNCHANGED <<proc, own>>
    BY <2>1 DEF KillInv, Verified, ServiceTypeOK
  <2>2. CASE /\ UNCHANGED <<proc, own>>
             /\ at' = [at EXCEPT ![c] = "idle"] \/ at' = [at EXCEPT ![c] = "launch"]
    BY <1>1, <2>2 DEF ServiceTypeOK
  <2> QED
    BY <1>6, <2>1, <2>2 DEF Check, Stopped, os
<1>7. ASSUME NEW c \in Caller, Wait(c)
      PROVE  KillInv'
  <2>1. /\ UNCHANGED <<proc, own>>
        /\ at' = [at EXCEPT ![c] = "idle"] \/ at' = [at EXCEPT ![c] = "launch"]
    BY <1>7 DEF Wait, Stopped, os
  <2> QED
    BY <1>1, <2>1 DEF ServiceTypeOK
<1>8. ASSUME NEW c \in Caller, Signal(c)
      PROVE  KillInv'
  <2>1. own[c].pid \in Pid /\ UNCHANGED own /\ at' = [at EXCEPT ![c] = "wait"]
    BY <1>0, <1>8 DEF Signal, Record
  <2>2. \A d \in Caller : at'[d] = "kill" => at[d] = "kill"
    BY <2>1 DEF ServiceTypeOK
  <2> QED
    BY <1>1, <1>2, <1>8, <2>1, <2>2 DEF Signal
<1>9. ASSUME NEW c \in Caller, NEW i \in Pid, Launch(c, i)
      PROVE  KillInv'
  <2>1. \A d \in Caller : at'[d] = "kill" => at[d] = "kill" /\ own'[d] = own[d]
    BY <1>9 DEF Launch, ServiceTypeOK
  <2> QED
    BY <1>3, <1>9, <2>1 DEF Launch
<1>10. ASSUME NEW i \in Pid, Exit(i) \/ Foreign(i)
       PROVE  KillInv'
  BY <1>2, <1>3, <1>10 DEF Exit, Foreign, caller
<1>11. CASE UNCHANGED vars \/ Expire
  BY <1>1, <1>11 DEF vars, os, caller, Expire
<1> QED
  BY <1>4, <1>5, <1>6, <1>7, <1>8, <1>9, <1>10, <1>11 DEF Next, Acts

-----------------------------------------------------------------------------
(* The theorems.                                                           *)

LEMMA ServiceInvInit == Init => ServiceInv
<1>1. Init => ServiceTypeOK
  <2> SUFFICES ASSUME Init
               PROVE  ServiceTypeOK
    OBVIOUS
  <2>1. born \in 0..MaxBorn /\ proc \in [Pid -> 0..born] /\ parent \in [Birth -> Project \cup {None}]
    BY SupervisorAssumption DEF Init
  <2>2. /\ record \in Record \cup {None} /\ lease \in Lease \cup {None}
        /\ own \in [Caller -> Record \cup {None}]
    BY DEF Init
  <2>3. told \in [Caller -> BOOLEAN] /\ overlap \in BOOLEAN /\ lost \in BOOLEAN
    BY DEF Init
  <2> QED
    BY <2>1, <2>2, <2>3 DEF Init, ServiceTypeOK
<1>2. Init => PlaceInv
  BY DEF Init, PlaceInv, Placed
<1>3. Init => RecordInv /\ KillInv
  BY DEF Init, RecordInv, KillInv
<1> QED
  BY <1>1, <1>2, <1>3 DEF ServiceInv

LEMMA ServiceInvStep == ServiceInv /\ [Next]_vars => ServiceInv'
BY TypeStep, PlaceStep, RecordStep, KillStep DEF ServiceInv

LEMMA ServiceInvariant == Spec => []ServiceInv
BY ServiceInvInit, ServiceInvStep, PTL DEF Spec

\* The types hold in every reachable state, for every set of callers,
\* projects and process ids.
THEOREM ServiceTyping == Spec => []ServiceTypeOK
<1>1. ServiceInv => ServiceTypeOK
  BY DEF ServiceInv
<1> QED
  BY <1>1, ServiceInvariant, PTL

\* A stop that reports success has seen its process go, whatever the other
\* callers, the leases and the process ids have done in between.
THEOREM StopsAreReal == Spec => []StoppedIsGone
<1>1. ServiceInv => StoppedIsGone
  BY DEF ServiceInv, PlaceInv, Placed, StoppedIsGone
<1> QED
  BY <1>1, ServiceInvariant, PTL

\* A signal ends only a process that the caller's own project started: a
\* record says whose its process is, and a verified id is not used again
\* before the signal.
THEOREM NoStrangerDies == Spec => OnlyItsOwnDies
<1> DEFINE Sound == \A c \in Caller, i \in Pid :
                      Signal(c) /\ proc'[i] # proc[i] => parent[proc[i]] \in {Home[c]}
<1>1. ASSUME ServiceInv, NEW c \in Caller, NEW i \in Pid, Signal(c), proc'[i] # proc[i]
      PROVE  parent[proc[i]] = Home[c]
  <2>1. /\ own[c] \in Record /\ Names(own[c]) /\ Ours(c, own[c])
        /\ proc[own[c].pid] \in {0, own[c].birth}
    BY <1>1, SupervisorAssumption
       DEF Signal, ServiceInv, ServiceTypeOK, PlaceInv, Placed, RecordInv, KillInv
  <2>2. i = own[c].pid /\ proc[i] # 0
    BY <1>1, <2>1 DEF Signal, ServiceInv, ServiceTypeOK, Record
  <2> QED
    BY <2>1, <2>2 DEF Names, Ours
<1>2. ServiceInv => [Sound]_vars
  BY <1>1
<1> QED
  BY <1>2, ServiceInvariant, PTL DEF OnlyItsOwnDies

-----------------------------------------------------------------------------
(* Callers one after another.                                              *)

\* When no two actions have overlapped and nobody has left a process it had
\* not recorded: one caller acts, on the record as it is; what it is about to
\* start over is gone; and every process of the service is the recorded one, or
\* the one whose record is about to be written.
Alone == \A c, d \in Caller : at[c] # "idle" /\ at[d] # "idle" => c = d

Acting(c) ==
  at[c] \notin {"idle", "save"} =>
    /\ own[c] = record
    /\ kind[c] = "start" \/ at[c] = "launch" => record = None \/ ~Verified(record)

Known(b) ==
  \/ \E c \in Caller : at[c] = "save" /\ own[c].birth = b
  \/ (\A c \in Caller : at[c] # "save") /\ record # None /\ record.birth = b

LoneInv ==
  ~overlap /\ ~lost => Alone /\ (\A c \in Caller : Acting(c)) /\ (\A b \in ServiceProcesses : Known(b))

\* A process of the service runs under some id.
LEMMA ServiceProcess ==
  ASSUME NEW b
  PROVE  b \in ServiceProcesses <=> \E i \in Pid : proc[i] = b /\ b # 0 /\ parent[b] # None
BY DEF ServiceProcesses, Running

\* A step that starts nothing leaves no new process of the service.
LEMMA NoNewProcess ==
  ASSUME ServiceTypeOK, UNCHANGED parent, \A i \in Pid : proc'[i] \in {0, proc[i]}
  PROVE  \A b \in ServiceProcesses' : b \in ServiceProcesses
BY DEF ServiceProcesses, Running

LEMMA LoneStep ==
  ASSUME ServiceInv, ServiceTypeOK', LoneInv, [Next]_vars
  PROVE  LoneInv'
<1> USE SupervisorAssumption DEF Goes, Leaves
<1> SUFFICES ASSUME ~overlap', ~lost'
             PROVE  /\ Alone' /\ (\A c \in Caller : Acting(c)')
                    /\ (\A b \in ServiceProcesses' : Known(b)')
  BY DEF LoneInv
<1>1. ~overlap /\ ~lost
  <2>1. ASSUME NEW c \in Caller, NEW action \in {"start", "stop", "restart"}, Begin(c, action)
        PROVE  ~overlap /\ ~lost
    BY <2>1 DEF Begin
  <2>2. ASSUME NEW c \in Caller, Crash(c)
        PROVE  ~overlap /\ ~lost
    BY <2>2 DEF Crash
  <2>3. CASE UNCHANGED ghosts
    BY <2>3 DEF ghosts
  <2> QED
    BY <2>1, <2>2, <2>3
       DEF Next, Acts, vars, ghosts, Create, Found, Inspect, Unlink, Refused, Write, Check, Signal, Wait,
           Launch, LaunchFails, Save, SaveFails, Exit, Foreign, Expire
<1>2. Alone /\ (\A c \in Caller : Acting(c)) /\ (\A b \in ServiceProcesses : Known(b))
  BY <1>1 DEF LoneInv
<1>3. /\ ServiceTypeOK /\ PlaceInv /\ RecordInv
      /\ record # None => record \in Record /\ Names(record) /\ record.birth <= born
  BY DEF ServiceInv, ServiceTypeOK, RecordInv, Names
<1>4. ASSUME NEW c \in Caller, NEW action \in {"start", "stop", "restart"}, Begin(c, action)
      PROVE  Alone' /\ (\A d \in Caller : Acting(d)') /\ (\A b \in ServiceProcesses' : Known(b)')
  <2>1. \A d \in Caller \ {c} : at[d] = "idle" /\ at'[d] = "idle"
    BY <1>3, <1>4 DEF Begin, ServiceTypeOK
  <2>2. /\ at[c] = "idle" /\ at'[c] = "acquire" /\ own'[c] = record /\ kind'[c] = action
        /\ UNCHANGED <<proc, parent, record>>
    BY <1>3, <1>4 DEF Begin, ServiceTypeOK, os
  <2>3. action = "start" => record = None \/ ~Verified(record)'
    BY <1>3, <1>4, <2>2 DEF Begin, Admits, Alive, Verified, Record, Birth
  <2>4. Alone' /\ (\A d \in Caller : Acting(d)')
    BY <2>1, <2>2, <2>3 DEF Alone, Acting
  <2>5. \A b \in ServiceProcesses' : b \in ServiceProcesses
    BY <2>2 DEF ServiceProcesses, Running
  <2>6. \A b : Known(b) => Known(b)'
    BY <2>1, <2>2 DEF Known
  <2> QED
    BY <1>2, <2>4, <2>5, <2>6
<1>5. ASSUME NEW c \in Caller, NEW place, place # "save", at[c] \notin {"idle", "save"},
             at' = [at EXCEPT ![c] = place], UNCHANGED <<parent, record, kind, own>>,
             place = "launch" => kind[c] = "start" \/ ~Verified(own[c])',
             \A i \in Pid : proc'[i] \in {0, proc[i]}
      PROVE  Alone' /\ (\A d \in Caller : Acting(d)') /\ (\A b \in ServiceProcesses' : Known(b)')
  <2>1. \A d \in Caller \ {c} : at[d] = "idle" /\ at'[d] = "idle"
    BY <1>2, <1>3, <1>5 DEF Alone, ServiceTypeOK
  <2>2. at'[c] = place
    BY <1>3, <1>5 DEF ServiceTypeOK
  <2>3. own[c] = record /\ (kind[c] = "start" => record = None \/ ~Verified(record))
    BY <1>2, <1>5 DEF Acting
  <2>4. record = None \/ ~Verified(record) => record = None \/ ~Verified(record)'
    BY <1>3, <1>5, OtherStaysOther DEF Verified
  <2>5. Alone' /\ (\A d \in Caller : Acting(d)')
    BY <1>5, <2>1, <2>2, <2>3, <2>4 DEF Alone, Acting, Verified
  <2>6. \A b \in ServiceProcesses' : b \in ServiceProcesses
    BY <1>3, <1>5, NoNewProcess
  <2>7. \A b : Known(b) => Known(b)'
    BY <1>5, <2>1, <2>2 DEF Known
  <2> QED
    BY <1>2, <2>5, <2>6, <2>7
<1>6. ASSUME NEW c \in Caller,
             \/ Create(c) \/ Found(c) \/ Inspect(c) \/ Unlink(c) \/ Refused(c) \/ Write(c)
             \/ LaunchFails(c) \/ Crash(c)
      PROVE  Alone' /\ (\A d \in Caller : Acting(d)') /\ (\A b \in ServiceProcesses' : Known(b)')
  <2>1. /\ at[c] \notin {"idle", "save"} /\ UNCHANGED <<proc, parent, record, kind, own>>
        /\ \E place \in {"idle", "read", "again", "unlink", "writing", "check", "launch"} :
             /\ at' = [at EXCEPT ![c] = place]
             /\ place = "launch" => kind[c] = "start"
    BY <1>6 DEF Create, Found, Inspect, Unlink, Refused, Write, LaunchFails, Crash, os
  <2> QED
    BY <1>5, <2>1
<1>7. ASSUME NEW c \in Caller, Check(c) \/ Wait(c)
      PROVE  Alone' /\ (\A d \in Caller : Acting(d)') /\ (\A b \in ServiceProcesses' : Known(b)')
  <2>1. /\ at[c] \notin {"idle", "save"} /\ UNCHANGED <<proc, parent, record, kind, own>>
        /\ own[c] \in Record
    BY <1>3, <1>7 DEF Check, Wait, os, ServiceTypeOK
  <2>2. \E place \in {"idle", "kill", "launch"} :
          /\ at' = [at EXCEPT ![c] = place]
          /\ place = "launch" => ~Alive(own[c])
    BY <1>7 DEF Check, Wait, Stopped
  <2>3. ~Alive(own[c]) => ~Verified(own[c])'
    BY <2>1 DEF Alive, Verified, Record, Birth
  <2> QED
    BY <1>5, <2>1, <2>2, <2>3
<1>8. ASSUME NEW c \in Caller, Signal(c)
      PROVE  Alone' /\ (\A d \in Caller : Acting(d)') /\ (\A b \in ServiceProcesses' : Known(b)')
  <2>1. /\ at[c] = "kill" /\ at' = [at EXCEPT ![c] = "wait"] /\ UNCHANGED <<parent, record, kind, own>>
        /\ \A i \in Pid : proc'[i] \in {0, proc[i]}
    BY <1>3, <1>8 DEF Signal, ServiceTypeOK
  <2> QED
    BY <1>5, <2>1
<1>9. ASSUME NEW c \in Caller, NEW i \in Pid, Launch(c, i)
      PROVE  Alone' /\ (\A d \in Caller : Acting(d)') /\ (\A b \in ServiceProcesses' : Known(b)')
  <2> DEFINE who == IF kind[c] = "start" THEN Home[c] ELSE own[c].project
             new == [pid |-> i, birth |-> born + 1, project |-> who]
  <2>1. /\ at[c] = "launch" /\ at' = [at EXCEPT ![c] = "save"] /\ NextBorn(i, who) /\ who \in Project
        /\ own' = [own EXCEPT ![c] = new] /\ new.birth = born + 1
    BY <1>3, <1>9 DEF Launch, PlaceInv, Placed, ServiceTypeOK, Record
  <2> HIDE DEF who, new
  <2>2. /\ \A d \in Caller \ {c} : at[d] = "idle" /\ at'[d] = "idle"
        /\ at'[c] = "save" /\ own'[c].birth = born + 1
    BY <1>2, <1>3, <2>1 DEF Alone, ServiceTypeOK
  <2>3. record = None \/ ~Verified(record)
    BY <1>2, <2>1 DEF Acting
  <2>4. ServiceProcesses = {}
    <3>1. SUFFICES ASSUME NEW j \in Pid, proc[j] # 0, parent[proc[j]] # None
                   PROVE  FALSE
      BY ServiceProcess DEF ServiceProcesses, Running
    <3>2. Known(proc[j])
      BY <1>2, <3>1 DEF ServiceProcesses, Running
    <3>3. record # None /\ record.birth = proc[j]
      BY <2>1, <2>2, <3>2 DEF Known
    <3> QED
      BY <1>3, <2>3, <3>3 DEF Names, Verified
  <2>5. /\ proc'[i] = born + 1 /\ \A j \in Pid \ {i} : proc'[j] = proc[j]
        /\ \A j \in Pid : proc[j] <= born
        /\ \A b \in Birth : b <= born => parent'[b] = parent[b]
    BY <1>3, <2>1, BornStep
  <2>6. ASSUME NEW b \in ServiceProcesses'
        PROVE  b = born + 1
    <3>1. PICK j \in Pid : proc'[j] = b /\ b # 0 /\ parent'[b] # None
      BY <2>6 DEF ServiceProcesses, Running
    <3>2. CASE j # i
      <4>1. proc[j] = b /\ b \in Birth /\ b <= born
        BY <1>3, <2>5, <3>1, <3>2 DEF ServiceTypeOK, Birth
      <4>2. b \in ServiceProcesses
        BY <2>5, <3>1, <4>1 DEF ServiceProcesses, Running
      <4> QED
        BY <2>4, <4>2
    <3> QED
      BY <2>5, <3>1, <3>2
  <2>7. Alone' /\ (\A d \in Caller : Acting(d)')
    BY <2>2 DEF Alone, Acting
  <2> QED
    BY <2>2, <2>6, <2>7 DEF Known
<1>10. ASSUME NEW c \in Caller, Save(c) \/ SaveFails(c)
       PROVE  Alone' /\ (\A d \in Caller : Acting(d)') /\ (\A b \in ServiceProcesses' : Known(b)')
  <2>1. /\ at[c] = "save" /\ at' = [at EXCEPT ![c] = "idle"] /\ record' = own[c]
        /\ UNCHANGED <<proc, parent, own>> /\ own[c] # None
    BY <1>3, <1>10 DEF Save, SaveFails, os, PlaceInv, Placed
  <2>2. \A d \in Caller : at'[d] = "idle" /\ (at[d] # "idle" => d = c)
    BY <1>2, <1>3, <2>1 DEF Alone, ServiceTypeOK
  <2>3. \A b \in ServiceProcesses' : b \in ServiceProcesses
    BY <2>1 DEF ServiceProcesses, Running
  <2>4. \A b : Known(b) => Known(b)'
    BY <2>1, <2>2 DEF Known
  <2> QED
    BY <1>2, <2>2, <2>3, <2>4 DEF Alone, Acting
<1>11. ASSUME NEW i \in Pid, Exit(i)
       PROVE  Alone' /\ (\A d \in Caller : Acting(d)') /\ (\A b \in ServiceProcesses' : Known(b)')
  <2>1. /\ \A j \in Pid : proc'[j] \in {0, proc[j]}
        /\ UNCHANGED <<parent, record, at, kind, own>>
    BY <1>3, <1>11 DEF Exit, caller, ServiceTypeOK
  <2>2. \A b \in ServiceProcesses' : b \in ServiceProcesses
    BY <1>3, <2>1, NoNewProcess
  <2>3. record = None \/ ~Verified(record) => record = None \/ ~Verified(record)'
    BY <1>3, <2>1, OtherStaysOther DEF Verified
  <2> QED
    BY <1>2, <2>1, <2>2, <2>3 DEF Alone, Acting, Known
<1>12. ASSUME NEW i \in Pid, Foreign(i)
       PROVE  Alone' /\ (\A d \in Caller : Acting(d)') /\ (\A b \in ServiceProcesses' : Known(b)')
  <2>1. NextBorn(i, None) /\ UNCHANGED <<record, at, kind, own>>
    BY <1>12 DEF Foreign, caller
  <2>2. /\ proc'[i] = born + 1 /\ parent'[born + 1] = None /\ \A j \in Pid \ {i} : proc'[j] = proc[j]
        /\ \A j \in Pid : proc[j] <= born
        /\ \A b \in Birth : b <= born => parent'[b] = parent[b]
    BY <1>3, <2>1, BornStep
  <2>3. ASSUME NEW b \in ServiceProcesses'
        PROVE  b \in ServiceProcesses
    <3>1. PICK j \in Pid : proc'[j] = b /\ b # 0 /\ parent'[b] # None
      BY <2>3 DEF ServiceProcesses, Running
    <3>2. proc[j] = b /\ b \in Birth /\ b <= born
      BY <1>3, <2>2, <3>1 DEF ServiceTypeOK, Birth
    <3> QED
      BY <2>2, <3>1, <3>2 DEF ServiceProcesses, Running
  <2>4. record = None \/ ~Verified(record) => record = None \/ ~Verified(record)'
    BY <1>3, <2>1, OtherStaysOther DEF Verified
  <2> QED
    BY <1>2, <2>1, <2>3, <2>4 DEF Alone, Acting, Known
<1>13. CASE UNCHANGED vars \/ Expire
  <2>1. UNCHANGED <<proc, parent, record, at, kind, own>>
    BY <1>13 DEF vars, os, caller, Expire
  <2> QED
    BY <1>2, <2>1 DEF Alone, Acting, Known, Verified, ServiceProcesses, Running
<1> QED
  BY <1>4, <1>6, <1>7, <1>8, <1>9, <1>10, <1>11, <1>12, <1>13 DEF Next, Acts

\* As long as no two actions overlap and nobody leaves a process it had not
\* recorded, no process of the service runs that the record does not name.
THEOREM NothingUnrecorded == Spec => []NothingRunsUnrecorded
<1>1. Init => LoneInv
  <2> SUFFICES ASSUME Init
               PROVE  LoneInv
    OBVIOUS
  <2>1. ServiceProcesses = {}
    BY DEF Init, ServiceProcesses, Running
  <2> QED
    BY <2>1 DEF Init, LoneInv, Alone, Acting
<1>2. ServiceInv /\ ServiceInv' /\ LoneInv /\ [Next]_vars => LoneInv'
  BY LoneStep DEF ServiceInv
<1>3. LoneInv => NothingRunsUnrecorded
  BY DEF LoneInv, Known, NothingRunsUnrecorded
<1> QED
  BY <1>1, <1>2, <1>3, ServiceInvariant, PTL DEF Spec
============================================================================
