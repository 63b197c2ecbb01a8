------------------------ MODULE ArenaLifetimeProofs ------------------------
(***************************************************************************)
(* For any number of threads, ids, registrations and leases: the registry  *)
(* and its shortcuts agree, a lease is on the registration asked for and   *)
(* keeps its memory, a removal takes away one registration, and Join       *)
(* returns after the worker's teardown.                                    *)
(***************************************************************************)
EXTENDS ArenaLifetime, FiniteSetTheorems, TLAPS

Wants == Generations \cup {None}

(* The leases on a registration: who holds one, and what it was asked for by. *)
HeldOn(g) == {x \in Threads \X Wants : [want |-> x[2], gen |-> g] \in held[x[1]]}

(* Tokens are issued in order, so the next is new, and memory exists for those issued. *)
Numbered ==
    /\ \E n \in 0..MaxToken : Issued = 1..n
    /\ \A g \in Generations : idOf[g] = None <=> storage[g] = "none"

(* An id leads to the generation that was registered under it. *)
EntriesNamed == \A i \in Ids : byId[i] # None => idOf[byId[i]] = i

(* active_leases is the number of leases held. *)
LeasesCounted == \A g \in Generations : leases[g] = Cardinality(HeldOn(g))

(* A lease is on a registration that was made; what is freed has none left. *)
LeasesIssued ==
    /\ \A t \in Threads : \A l \in held[t] : l.gen \in Issued
    /\ \A g \in Generations : storage[g] = "freed" => ~Registered(g) /\ leases[g] = 0

(* The write lock is held from the change of the map to that of the bitset. *)
WriterInv ==
    /\ \A t \in Threads : writer = t <=> pc[t] \in {"publish", "unpublish"}
    /\ \A t \in Threads : pc[t] = "publish" =>
         /\ \E g \in Issued : job[t].gens = {g} /\ job[t].id = idOf[g] /\ byId[idOf[g]] = g
         /\ bits = {i \in Fast : byId[i] # None} \ {job[t].id}
    /\ \A t \in Threads : pc[t] = "unpublish" =>
         IF job[t].id = None
           THEN \A i \in Ids : byId[i] = None
           ELSE byId[job[t].id] = None /\ bits \ {job[t].id} = {i \in Fast : byId[i] # None}

(* What a thread inside an operation works on.  Whoever tears down storage of its own
   has, from unpublish on, an entry that is gone for good. *)
Removing(t) == pc[t] \in {"remove", "unpublish", "check", "drain"}
JobInv ==
    \A t \in Threads :
        /\ pc[t] # "publish" /\ ~Removing(t) => job[t].gens = {}
        /\ pc[t] \in {"remove", "lease"} => job[t].id \in Ids
        /\ pc[t] = "remove" => job[t].gens = {} \/ \E g \in Generations : job[t].gens = {g}
        /\ Removing(t) /\ job[t].owner =>
             \E g \in Issued : /\ job[t].gens = {g} /\ job[t].id = idOf[g]
                               /\ pc[t] # "remove" => ~Registered(g)
        /\ pc[t] = "lease" => \A l \in held[t] : l.want # None

(* An executor has a registration, until it is gone; a worker is done without one. *)
OwnerInv ==
    \A t \in Threads :
        /\ exec[t].gen # None => exec[t].gen \in Issued
        /\ exec[t].gen = None => ~exec[t].box /\ ~exec[t].registration
        /\ pc[t] \in {"capture", "registration"} => exec[t].gen # None
        /\ guards[t] \subseteq Issued
        /\ pc[t] = "done" => exec[t] = NoExecutor
        /\ record[t].phase \in {"started", "joining"} => record[t].worker \in Workers

IInv ==
    /\ TypeOK /\ Numbered /\ EntriesNamed /\ IndexesAgree /\ FastBitsExact
    /\ LeaseMatchesIdentity /\ LeasesCounted /\ LeasesIssued
    /\ WriterInv /\ JobInv /\ OwnerInv

-----------------------------------------------------------------------------
(* Counting *)

(* The one generation an operation is about. *)
LEMMA OnlyOne == \A g : (CHOOSE x \in {g} : TRUE) = g
  OBVIOUS

(* Registrations, and so the leases on one, are finitely many. *)
LEMMA HeldFinite ==
    ASSUME NEW g
    PROVE  IsFiniteSet(HeldOn(g)) /\ Cardinality(HeldOn(g)) \in Nat
<1>1. IsFiniteSet(Generations)
  BY ArenaConstants, FS_Interval DEF Generations
<1>2. IsFiniteSet(Wants)
  BY <1>1, FS_AddElement DEF Wants
<1>3. IsFiniteSet(Threads \X Wants)
  BY <1>2, ArenaConstants, FS_Product
<1>4. HeldOn(g) \in SUBSET (Threads \X Wants)
  BY DEF HeldOn
<1> QED BY <1>3, <1>4, FS_Subset, FS_CardinalityType

(* The token and generation counters give a number that no registration has. *)
LEMMA NextToken ==
    ASSUME TypeOK, Numbered
    PROVE  /\ Cardinality(Issued) \in Nat
           /\ Issued = 1..Cardinality(Issued)
           /\ Cardinality(Issued) + 1 \notin Issued
<1>1. PICK n \in 0..MaxToken : Issued = 1..n
  BY DEF Numbered
<1>2. n \in Nat /\ Cardinality(1..n) = n
  BY ArenaConstants, FS_Interval
<1> QED BY <1>1, <1>2

-----------------------------------------------------------------------------
(* Types *)

(* The invariant holds before anything is registered. *)
LEMMA InitIInv == Init => IInv
<1> SUFFICES ASSUME Init PROVE IInv
  OBVIOUS
<1> USE ArenaConstants
<1>1. TypeOK
  BY DEF Init, TypeOK, Places, NoExecutor, NoJob, NoRecord
<1>2. Numbered
  <2>1. Issued = 1..0
    BY DEF Issued, Init
  <2> QED BY SMTT(30), <2>1 DEF Numbered, Init
<1>3. EntriesNamed /\ IndexesAgree /\ FastBitsExact /\ LeaseMatchesIdentity
  BY DEF Init, EntriesNamed, IndexesAgree, Registered, FastBitsExact, LeaseMatchesIdentity
<1>4. LeasesCounted
  <2>1. \A g \in Generations : HeldOn(g) = {}
    BY DEF Init, HeldOn
  <2> QED BY Zenon, <2>1, FS_EmptySet DEF LeasesCounted, Init
<1>5. LeasesIssued
  BY DEF LeasesIssued, Init
<1>6. WriterInv /\ JobInv /\ OwnerInv
  BY DEF Init, WriterInv, JobInv, OwnerInv, Removing, NoExecutor, NoJob, NoRecord
<1> QED BY <1>1, <1>2, <1>3, <1>4, <1>5, <1>6 DEF IInv

Jobs == [gens : SUBSET Generations, id : Ids \cup {None}, owner : BOOLEAN]
Executors == [gen : Generations \cup {None}, registration : BOOLEAN, box : BOOLEAN]
Records == [worker : Workers \cup {None}, phase : {"none", "new", "started", "joining"}]
Memory == {"none", "live", "freed", "retained"}
Leases == [want : Wants, gen : Generations]

(* The values that operations put into the fields of a thread are of their types. *)
LEMMA FieldTypes ==
    /\ NoJob \in Jobs /\ NoExecutor \in Executors /\ NoRecord \in Records
    /\ \A j \in Jobs : /\ j.gens \in SUBSET Generations /\ j.id \in Ids \cup {None}
                       /\ \A S \in SUBSET Generations : [j EXCEPT !.gens = S] \in Jobs
    /\ \A S \in SUBSET Generations, i \in Ids \cup {None}, b \in BOOLEAN :
         [gens |-> S, id |-> i, owner |-> b] \in Jobs
    /\ \A e \in Executors : /\ e.gen \in Generations \cup {None}
                            /\ [e EXCEPT !.registration = TRUE] \in Executors
                            /\ [e EXCEPT !.box = FALSE, !.registration = FALSE] \in Executors
    /\ \A g \in Generations : [gen |-> g, registration |-> FALSE, box |-> TRUE] \in Executors
    /\ \A r \in Records : [r EXCEPT !.phase = "new"] \in Records /\ [r EXCEPT !.phase = "joining"] \in Records
    /\ \A w \in Workers : [worker |-> w, phase |-> "started"] \in Records
    /\ \A w \in Wants, g \in Generations : [want |-> w, gen |-> g] \in Leases
    /\ \A l \in Leases : l.gen \in Generations
  BY Zenon DEF NoJob, NoExecutor, NoRecord, Jobs, Executors, Records, Leases

(* The type invariant, with those types named. *)
Typed ==
    /\ byId \in [Ids -> Generations \cup {None}] /\ byToken \in [Generations -> Ids \cup {None}]
    /\ idOf \in [Generations -> Ids \cup {None}] /\ leases \in [Generations -> Nat]
    /\ bits \subseteq Fast /\ writer \in Threads \cup {None} /\ nextId \in 1..(MaxThreadId + 1)
    /\ storage \in [Generations -> Memory] /\ exec \in [Threads -> Executors]
    /\ guards \in [Threads -> SUBSET Generations] /\ held \in [Threads -> SUBSET Leases]
    /\ pc \in [Threads -> Places] /\ job \in [Threads -> Jobs] /\ record \in [Threads -> Records]

(* The two forms of the type invariant say the same. *)
LEMMA TypedIsTypeOK == TypeOK <=> Typed
  BY DEF TypeOK, Typed, Jobs, Executors, Records, Memory, Leases, Wants

(* What each step of a thread does, for the cases of the proofs below. *)
Steps(t) ==
    \/ Continue(t) \/ DrainUnwinds(t)
    \/ NewExecutor(t) \/ NewPanics(t) \/ DropExecutor(t) \/ ExtractArena(t) \/ ResetRegistry(t)
    \/ NewThread(t) \/ BeginJoin(t)
    \/ \E id \in Ids : HostRegisters(t, id) \/ AskById(t, id) \/ UnregisterById(t, id)
    \/ \E g \in Generations :
         LeaseByIdentity(t, g) \/ LeaseByToken(t, g) \/ DropGuard(t, g) \/ UnregisterIdentity(t, g)
    \/ \E l \in held[t] : DropLease(t, l)
    \/ \E w \in Workers : StartThread(t, w)

(* A lease that is dropped was counted. *)
LEMMA HeldIsCounted ==
    ASSUME IInv, NEW t \in Threads, NEW l \in held[t]
    PROVE  l.gen \in Generations /\ leases[l.gen] \in Nat \ {0}
<1>1. l \in Leases /\ l.want \in Wants /\ l.gen \in Generations /\ l = [want |-> l.want, gen |-> l.gen]
  BY DEF IInv, TypeOK, Wants, Leases
<1>2. <<t, l.want>> \in HeldOn(l.gen)
  BY <1>1 DEF HeldOn
<1>3. Cardinality(HeldOn(l.gen)) # 0
  BY <1>2, HeldFinite, FS_EmptySet
<1> QED BY <1>1, <1>3, HeldFinite DEF IInv, LeasesCounted

(* Each operation leaves values of the right types. *)
LEMMA TypeStep ==
    ASSUME IInv, NEW t \in Threads, Steps(t)
    PROVE  Typed'
<1>0. Typed
  BY TypedIsTypeOK DEF IInv
<1>a. job \in [Threads -> Jobs] /\ job[t] \in Jobs /\ job[t].gens \in SUBSET Generations /\ job[t].id \in Ids \cup {None}
  <2>1. job[t] \in Jobs
    BY <1>0 DEF Typed
  <2> QED BY Zenon, <1>0, <2>1, FieldTypes DEF Typed
<1>b. exec \in [Threads -> Executors] /\ exec[t] \in Executors /\ exec[t].gen \in Generations \cup {None}
  <2>1. exec[t] \in Executors
    BY <1>0 DEF Typed
  <2> QED BY Zenon, <1>0, <2>1, FieldTypes DEF Typed
<1>c. pc \in [Threads -> Places] /\ Home(t) \in Places
  BY <1>0 DEF Typed, Home, Places
<1>d. record \in [Threads -> Records] /\ record[t] \in Records
  BY <1>0 DEF Typed
<1>e. storage \in [Generations -> Memory]
  BY <1>0 DEF Typed
<1>f. \A S \in SUBSET Generations, i \in Ids \cup {None}, b \in BOOLEAN :
        [job EXCEPT ![t] = [gens |-> S, id |-> i, owner |-> b]] \in [Threads -> Jobs]
  BY Zenon, <1>a, FieldTypes
<1>g. [job EXCEPT ![t] = NoJob] \in [Threads -> Jobs]
  BY Zenon, <1>a, FieldTypes
<1>h. \A S \in SUBSET Generations : [job EXCEPT ![t].gens = S] \in [Threads -> Jobs]
  <2> SUFFICES ASSUME NEW S \in SUBSET Generations PROVE [job EXCEPT ![t].gens = S] \in [Threads -> Jobs]
    OBVIOUS
  <2>1. [job[t] EXCEPT !.gens = S] \in Jobs
    BY Zenon, <1>a, FieldTypes
  <2> QED BY <1>a, <2>1
<1>i. [exec EXCEPT ![t] = NoExecutor] \in [Threads -> Executors]
  BY Zenon, <1>b, FieldTypes
<1>2. ASSUME NEW id \in Ids, Register(t, id)
      PROVE  /\ byId' \in [Ids -> Generations \cup {None}] /\ byToken' \in [Generations -> Ids \cup {None}]
             /\ idOf' \in [Generations -> Ids \cup {None}] /\ writer' \in Threads
             /\ job' \in [Threads -> Jobs] /\ storage' \in [Generations -> Memory]
             /\ pc' \in [Threads -> Places]
             /\ job'[t].gens = {Cardinality(Issued) + 1} /\ Cardinality(Issued) + 1 \in Generations
  <2> DEFINE g == Cardinality(Issued) + 1
  <2>1. g \in Generations
    BY <1>2 DEF Register
  <2>2. job' = [job EXCEPT ![t] = [gens |-> {g}, id |-> id, owner |-> TRUE]]
    BY <1>2 DEF Register
  <2>3. job' \in [Threads -> Jobs] /\ job'[t].gens = {g}
    BY Zenon, <1>a, <1>f, <2>1, <2>2
  <2>4. /\ byId' = [byId EXCEPT ![id] = g] /\ byToken' = [byToken EXCEPT ![g] = id]
        /\ idOf' = [idOf EXCEPT ![g] = id] /\ writer' = t
        /\ storage' = [storage EXCEPT ![g] = "live"] /\ pc' = [pc EXCEPT ![t] = "publish"]
    BY <1>2 DEF Register, Goto
  <2> HIDE DEF g
  <2>5. /\ byId' \in [Ids -> Generations \cup {None}] /\ byToken' \in [Generations -> Ids \cup {None}]
        /\ idOf' \in [Generations -> Ids \cup {None}] /\ writer' \in Threads
    BY <1>0, <2>1, <2>4 DEF Typed
  <2>6. storage' \in [Generations -> Memory] /\ pc' \in [Threads -> Places]
    BY Zenon, <1>c, <1>e, <2>4 DEF Memory, Places
  <2> QED BY <2>1, <2>3, <2>5, <2>6 DEF g
<1>3. CASE NewExecutor(t)
  <2>1. nextId \in Ids /\ Register(t, nextId) /\ nextId \in 1..MaxThreadId /\ nextId' = nextId + 1
    BY <1>3 DEF NewExecutor, Ids, Managed
  <2>2. nextId' \in 1..(MaxThreadId + 1)
    BY <2>1, ArenaConstants
  <2>3. exec' = [exec EXCEPT ![t] = [gen |-> Cardinality(Issued) + 1, registration |-> FALSE, box |-> TRUE]]
    BY Zenon, <1>2, <1>3, <2>1, OnlyOne DEF NewExecutor
  <2>4. exec' \in [Threads -> Executors]
    BY Zenon, <1>b, <1>2, <2>1, <2>3, FieldTypes
  <2> QED BY Zenon, <1>0, <1>2, <1>3, <2>1, <2>2, <2>4 DEF NewExecutor, Typed
<1>4. ASSUME NEW id \in Ids, HostRegisters(t, id) PROVE Typed'
  BY <1>0, <1>2, <1>4 DEF HostRegisters, Typed
<1>5. CASE Publish(t)
  <2>1. PICK g \in Generations : job[t].gens = {g}
    BY <1>5 DEF Publish, IInv, WriterInv, Issued
  <2>2. (CHOOSE x \in job[t].gens : TRUE) = g
    BY <2>1, OnlyOne
  <2>3. guards' = guards \/ guards' = [guards EXCEPT ![t] = @ \cup {g}]
    BY Zenon, <1>5, <2>2 DEF Publish
  <2>4. guards' \in [Threads -> SUBSET Generations]
    BY <1>0, <2>3 DEF Typed
  <2>5. pc' \in [Threads -> Places]
    BY <1>c, <1>5 DEF Publish, Goto, Places
  <2>6. job' \in [Threads -> Jobs]
    BY Zenon, <1>h, <1>5 DEF Publish
  <2> QED BY <1>0, <1>5, <2>4, <2>5, <2>6 DEF Publish, Typed
<1>6. CASE NewPanics(t)
  <2>1. nextId \in 1..(MaxThreadId + 1) /\ nextId' = IF nextId \in 1..MaxThreadId THEN nextId + 1 ELSE nextId
    BY <1>0, <1>6 DEF NewPanics, Managed, Typed
  <2>2. nextId' \in 1..(MaxThreadId + 1)
    BY <2>1, ArenaConstants
  <2>3. pc' \in [Threads -> Places]
    BY <1>c, <1>6 DEF NewPanics, Goto
  <2> QED BY <1>0, <1>6, <2>2, <2>3 DEF NewPanics, Typed, registry
<1>7. ASSUME Abandon(t)
      PROVE  storage' \in [Generations -> Memory] /\ exec' \in [Threads -> Executors] /\ pc' \in [Threads -> Places]
  BY Zenon, <1>c, <1>e, <1>i, <1>7 DEF Abandon, Memory, Goto
<1>8. CASE CaptureIdentity(t)
  <2>1. storage' \in [Generations -> Memory] /\ exec' \in [Threads -> Executors] /\ pc' \in [Threads -> Places]
    BY <1>b, <1>c, <1>e, <1>7, <1>8 DEF CaptureIdentity, Places, Goto
  <2> QED BY <1>0, <1>8, <2>1 DEF CaptureIdentity, Typed, registry
<1>9. CASE CaptureRegistration(t)
  <2>1. storage' \in [Generations -> Memory] /\ exec' \in [Threads -> Executors] /\ pc' \in [Threads -> Places]
    <3>1. CASE Registered(exec[t].gen)
      <4>1. [exec[t] EXCEPT !.registration = TRUE] \in Executors
        BY Zenon, <1>b, FieldTypes
      <4>2. exec' = [exec EXCEPT ![t].registration = TRUE] /\ Goto(t, "idle") /\ UNCHANGED storage
        BY <1>9, <3>1 DEF CaptureRegistration
      <4> QED BY <1>b, <1>c, <1>e, <4>1, <4>2 DEF Goto, Places
    <3> QED BY <1>7, <1>9, <3>1 DEF CaptureRegistration
  <2> QED BY Zenon, <1>0, <1>g, <1>9, <2>1 DEF CaptureRegistration, Typed, registry
<1>10. CASE DropExecutor(t)
  <2>1. exec[t].gen \in Generations /\ idOf[exec[t].gen] \in Ids \cup {None}
    BY <1>0, <1>b, <1>10 DEF DropExecutor, Typed
  <2> DEFINE j == [gens |-> {exec[t].gen}, id |-> idOf[exec[t].gen], owner |-> TRUE]
  <2>a. job' = job \/ job' = [job EXCEPT ![t] = j]
    BY <1>10 DEF DropExecutor
  <2>b. {exec[t].gen} \in SUBSET Generations /\ TRUE \in BOOLEAN
    BY <2>1
  <2>c. j \in Jobs
    BY Zenon, <2>1, <2>b, FieldTypes
  <2> HIDE DEF j
  <2>2. job' \in [Threads -> Jobs]
    BY <1>a, <2>a, <2>c
  <2>3. exec' \in [Threads -> Executors]
    BY <1>b, <1>i, <1>10 DEF DropExecutor
  <2>4. pc' \in [Threads -> Places]
    BY Zenon, <1>c, <1>10 DEF DropExecutor, Places, Goto
  <2>5. record' \in [Threads -> Records]
    BY Zenon, <1>d, <1>10, FieldTypes DEF DropExecutor
  <2> QED BY <1>0, <1>10, <2>2, <2>3, <2>4, <2>5 DEF DropExecutor, Typed, registry
<1>11. CASE ExtractArena(t)
  <2>1. exec[t].gen \in Generations
    BY <1>b, <1>11 DEF ExtractArena, IInv, OwnerInv
  <2>2. [exec[t] EXCEPT !.box = FALSE, !.registration = FALSE] \in Executors
    BY Zenon, <1>b, FieldTypes
  <2>3. exec' \in [Threads -> Executors]
    BY <1>b, <1>11, <2>2 DEF ExtractArena
  <2>4. guards' \in [Threads -> SUBSET Generations]
    BY <1>0, <1>11, <2>1 DEF ExtractArena, Typed
  <2> QED BY <1>0, <1>11, <2>3, <2>4 DEF ExtractArena, Typed, registry
<1>12. ASSUME NEW w \in Wants, NEW g \in Generations, Lease(t, w, g)
       PROVE  leases' \in [Generations -> Nat] /\ held' \in [Threads -> SUBSET Leases]
  <2>1. [want |-> w, gen |-> g] \in Leases
    BY Zenon, FieldTypes
  <2> QED BY <1>0, <1>12, <2>1 DEF Lease, Typed
<1>13. CASE LeaseById(t)
  <2>1. byId[job[t].id] \in Generations \cup {None} /\ None \in Wants
    BY Zenon, <1>0, <1>13 DEF LeaseById, IInv, JobInv, Wants, Typed
  <2>2. leases' \in [Generations -> Nat] /\ held' \in [Threads -> SUBSET Leases]
    BY <1>0, <1>12, <1>13, <2>1 DEF LeaseById, Typed
  <2>3. pc' \in [Threads -> Places]
    BY Zenon, <1>c, <1>13 DEF LeaseById, Goto, Places
  <2> QED BY Zenon, <1>0, <1>g, <1>13, <2>2, <2>3 DEF LeaseById, Typed, registry
<1>14. ASSUME NEW g \in Generations, LeaseByIdentity(t, g) \/ LeaseByToken(t, g) PROVE Typed'
  <2>1. leases' \in [Generations -> Nat] /\ held' \in [Threads -> SUBSET Leases]
    <3>1. CASE LeaseByIdentity(t, g)
      BY Zenon, <1>12, <1>14, <3>1 DEF LeaseByIdentity, Wants
    <3>2. CASE LeaseByToken(t, g)
      <4>1. byToken[g] \in Ids /\ byId[byToken[g]] \in Generations
        BY <1>0, <3>2 DEF LeaseByToken, Typed
      <4> QED BY <1>12, <3>2, <4>1 DEF LeaseByToken, Wants
    <3> QED BY <1>14, <3>1, <3>2
  <2> QED BY <1>0, <1>14, <2>1 DEF LeaseByIdentity, LeaseByToken, Typed, registry
<1>15. ASSUME NEW l \in held[t], DropLease(t, l) PROVE Typed'
  <2>1. l.gen \in Generations /\ leases[l.gen] \in Nat \ {0}
    BY HeldIsCounted
  <2>2. leases[l.gen] - 1 \in Nat
    BY <2>1
  <2>3. leases' \in [Generations -> Nat] /\ held' \in [Threads -> SUBSET Leases]
    BY <1>0, <1>15, <2>1, <2>2 DEF DropLease, Typed
  <2> QED BY <1>0, <1>15, <2>3 DEF DropLease, Typed, registry
<1>16. ASSUME NEW id \in Ids, AskById(t, id) \/ UnregisterById(t, id) PROVE Typed'
  <2>1. job' = [job EXCEPT ![t] = [gens |-> {}, id |-> id, owner |-> FALSE]]
    BY Zenon, <1>16 DEF AskById, UnregisterById
  <2>2. job' \in [Threads -> Jobs]
    BY Zenon, <1>f, <2>1
  <2>3. pc' \in [Threads -> Places]
    BY Zenon, <1>c, <1>16 DEF AskById, UnregisterById, Places, Goto
  <2> QED BY Zenon, <1>0, <1>16, <2>2, <2>3 DEF AskById, UnregisterById, Typed, registry
<1>17. ASSUME NEW g \in Generations, DropGuard(t, g) \/ UnregisterIdentity(t, g) PROVE Typed'
  <2>1. PICK b \in BOOLEAN : job' = [job EXCEPT ![t] = [gens |-> {g}, id |-> idOf[g], owner |-> b]]
    BY Zenon, <1>17 DEF DropGuard, UnregisterIdentity
  <2>2. job' \in [Threads -> Jobs]
    BY Zenon, <1>0, <1>f, <2>1 DEF Typed
  <2>3. pc' \in [Threads -> Places] /\ guards' \in [Threads -> SUBSET Generations]
    BY <1>0, <1>17 DEF DropGuard, UnregisterIdentity, Places, Goto, Typed
  <2> QED BY Zenon, <1>0, <1>17, <2>2, <2>3 DEF DropGuard, UnregisterIdentity, Typed, registry
<1>18. ASSUME NEW gens, Unlist(gens)
       PROVE  byId' \in [Ids -> Generations \cup {None}] /\ byToken' \in [Generations -> Ids \cup {None}]
  BY <1>0, <1>18 DEF Unlist, Typed
<1>19. CASE RemoveEntry(t)
  <2> DEFINE g == byId[job[t].id]
  <2>1. g \in Generations \cup {None}
    BY <1>0, <1>19 DEF RemoveEntry, IInv, JobInv, Typed
  <2>2. \/ job' = [job EXCEPT ![t] = job[t]]
        \/ job' = [job EXCEPT ![t] = NoJob]
        \/ g # None /\ job' = [job EXCEPT ![t].gens = {g}]
    BY <1>19 DEF RemoveEntry
  <2> HIDE DEF g
  <2>3. job' \in [Threads -> Jobs]
    BY <1>a, <1>g, <1>h, <2>1, <2>2
  <2>4. pc' \in [Threads -> Places]
    BY <1>c, <1>19 DEF RemoveEntry, Places, Goto
  <2> QED BY <1>0, <1>18, <1>19, <2>3, <2>4 DEF RemoveEntry, Typed
<1>20. CASE ResetRegistry(t)
  <2>1. job' \in [Threads -> Jobs]
    BY Zenon, <1>f, <1>20 DEF ResetRegistry
  <2>2. pc' \in [Threads -> Places]
    BY Zenon, <1>c, <1>20 DEF ResetRegistry, Places, Goto
  <2> QED BY Zenon, <1>0, <1>18, <1>20, <2>1, <2>2 DEF ResetRegistry, Typed
<1>21. CASE Unpublish(t)
  BY <1>0, <1>21 DEF Unpublish, Places, Goto, Typed
<1>22. ASSUME NEW outcome \in {"freed", "retained"}, EndRemoval(t, outcome)
       PROVE  /\ storage' \in [Generations -> Memory] /\ exec' \in [Threads -> Executors]
              /\ pc' \in [Threads -> Places] /\ job' \in [Threads -> Jobs]
  <2>1. storage' \in [Generations -> Memory]
    BY Zenon, <1>e, <1>22 DEF EndRemoval, Memory
  <2>2. exec' \in [Threads -> Executors] /\ job' \in [Threads -> Jobs]
    BY <1>b, <1>g, <1>i, <1>22 DEF EndRemoval
  <2>3. pc' \in [Threads -> Places]
    BY <1>c, <1>22 DEF EndRemoval, Places, Goto
  <2> QED BY <2>1, <2>2, <2>3
<1>23. CASE CheckOwnLease(t) \/ Drain(t) \/ DrainUnwinds(t)
  <2>1. /\ storage' \in [Generations -> Memory] /\ exec' \in [Threads -> Executors]
        /\ pc' \in [Threads -> Places] /\ job' \in [Threads -> Jobs]
    BY Zenon, <1>a, <1>b, <1>c, <1>e, <1>22, <1>23 DEF CheckOwnLease, Drain, DrainUnwinds, Places, Goto
  <2> QED BY Zenon, <1>0, <1>23, <2>1 DEF CheckOwnLease, Drain, DrainUnwinds, Typed, registry
<1>24. CASE FinishJoin(t) \/ NewThread(t) \/ BeginJoin(t)
  <2>1. /\ [record[t] EXCEPT !.phase = "new"] \in Records /\ [record[t] EXCEPT !.phase = "joining"] \in Records
        /\ NoRecord \in Records
    BY Zenon, <1>d, FieldTypes
  <2>2. record' \in [Threads -> Records]
    BY <1>d, <1>24, <2>1 DEF FinishJoin, NewThread, BeginJoin
  <2> QED BY <1>0, <1>24, <2>2 DEF FinishJoin, NewThread, BeginJoin, Typed, registry
<1>25. ASSUME NEW w \in Workers, StartThread(t, w) PROVE Typed'
  <2>1. record' \in [Threads -> Records]
    BY Zenon, <1>d, <1>25, FieldTypes DEF StartThread
  <2>2. pc' \in [Threads -> Places]
    BY Zenon, <1>c, <1>25 DEF StartThread, Goto, Places
  <2> QED BY Zenon, <1>0, <1>25, <2>1, <2>2 DEF StartThread, Typed, registry
<1> QED
  BY <1>3, <1>4, <1>5, <1>6, <1>8, <1>9, <1>10, <1>11, <1>13, <1>14, <1>15, <1>16, <1>17, <1>19,
     <1>20, <1>21, <1>23, <1>24, <1>25 DEF Steps, Continue

-----------------------------------------------------------------------------
(* What a step may do to the registry, to memory and to the leases *)

(* Memory that is kept, retained for good, or freed: that of a registration which is
   gone and has no lease. *)
MemoryEffect ==
    \A g \in Generations :
        \/ storage'[g] = storage[g]
        \/ g \in Issued /\ storage'[g] = "retained"
        \/ g \in Issued /\ storage'[g] = "freed" /\ ~Registered(g) /\ leases[g] = 0

(* A lease is taken on what is registered, and once for what it is asked for by. *)
Leasing(t) ==
    \E w \in Wants, g \in Generations :
        /\ Lease(t, w, g) /\ Registered(g) /\ w \in {None, g}
        /\ \A l \in held[t] : l.want # w

Registering(t) == (\E id \in Ids : Register(t, id)) /\ UNCHANGED <<leases, held, bits>>
Unlisting(t) ==
    /\ \E gens \in SUBSET Generations : Unlist(gens)
    /\ writer = None /\ writer' = t
    /\ UNCHANGED <<idOf, leases, held, storage, bits>>
Ending == UNCHANGED <<byId, byToken, idOf, leases, held>> /\ MemoryEffect
Holding(t) == UNCHANGED <<registry, storage>> /\ (Leasing(t) \/ \E l \in held[t] : DropLease(t, l))

(* The end of a removal frees only what is out of the registry and out of use. *)
LEMMA EndEffect ==
    ASSUME IInv, NEW t \in Threads, Removing(t), pc[t] # "remove",
           NEW outcome \in {"retained", "freed"}, EndRemoval(t, outcome),
           outcome = "freed" => \A g \in job[t].gens : leases[g] = 0
    PROVE  MemoryEffect
<1> SUFFICES ASSUME NEW g \in Generations, storage'[g] # storage[g]
             PROVE  g \in Issued /\ storage'[g] = outcome /\ ~Registered(g) /\ g \in job[t].gens
  BY DEF MemoryEffect
<1>1. job[t].owner /\ g \in job[t].gens /\ storage'[g] = outcome
  BY DEF EndRemoval
<1>2. PICK h \in Issued : job[t].gens = {h} /\ ~Registered(h)
  BY Zenon, <1>1 DEF IInv, JobInv
<1> QED BY Zenon, <1>1, <1>2

(* An executor's arena that is abandoned was registered. *)
LEMMA AbandonEffect ==
    ASSUME IInv, NEW t \in Threads, pc[t] \in {"capture", "registration"}, Abandon(t)
    PROVE  MemoryEffect
<1>1. exec[t].gen \in Issued /\ exec[t].gen \in Generations
  BY DEF IInv, OwnerInv, Issued
<1>2. storage \in [Generations -> Memory]
  BY TypedIsTypeOK DEF IInv, Typed
<1> QED BY <1>1, <1>2 DEF Abandon, MemoryEffect

(* Each step registers, unlists, ends a removal, or takes or drops one lease. *)
LEMMA Effects ==
    ASSUME IInv, NEW t \in Threads, Steps(t)
    PROVE  Registering(t) \/ Unlisting(t) \/ Ending \/ Holding(t)
<1>1. ASSUME UNCHANGED <<byId, byToken, idOf, leases, held, storage>> PROVE Ending
  BY <1>1 DEF Ending, MemoryEffect
<1>2. CASE NewExecutor(t)
  BY <1>2 DEF NewExecutor, Registering, Ids
<1>3. CASE \E id \in Ids : HostRegisters(t, id)
  BY <1>3 DEF HostRegisters, Registering
<1>4. CASE ResetRegistry(t)
  BY Zenon, <1>4 DEF ResetRegistry, Unlisting
<1>5. CASE RemoveEntry(t)
  <2>1. CASE UNCHANGED <<byId, byToken>>
    BY <1>1, <1>5, <2>1 DEF RemoveEntry
  <2>2. CASE ~UNCHANGED <<byId, byToken>>
    <3> DEFINE g == byId[job[t].id]
    <3>1. g \in Generations
      BY <1>5, <2>2 DEF RemoveEntry, IInv, JobInv, TypeOK
    <3>2. Unlist({g}) /\ writer = None /\ writer' = t /\ UNCHANGED <<idOf, leases, held, storage, bits>>
      BY <1>5, <2>2 DEF RemoveEntry
    <3> QED BY <3>1, <3>2 DEF Unlisting
  <2> QED BY <2>1, <2>2
<1>6. CASE CaptureIdentity(t) \/ CaptureRegistration(t)
  <2>1. pc[t] \in {"capture", "registration"} /\ UNCHANGED <<byId, byToken, idOf, leases, held>>
    BY <1>6 DEF CaptureIdentity, CaptureRegistration, registry
  <2>2. UNCHANGED storage \/ Abandon(t)
    BY <1>6 DEF CaptureIdentity, CaptureRegistration
  <2> QED BY <1>1, <2>1, <2>2, AbandonEffect DEF Ending
<1>7. CASE CheckOwnLease(t) \/ Drain(t) \/ DrainUnwinds(t)
  <2>1. Removing(t) /\ pc[t] # "remove" /\ UNCHANGED <<byId, byToken, idOf, leases, held>>
    BY <1>7 DEF CheckOwnLease, Drain, DrainUnwinds, registry, Removing
  <2>2. \/ UNCHANGED storage
        \/ EndRemoval(t, "retained")
        \/ EndRemoval(t, "freed") /\ \A g \in job[t].gens : leases[g] = 0
    BY <1>7 DEF CheckOwnLease, Drain, DrainUnwinds
  <2>3. CASE UNCHANGED storage
    BY <1>1, <2>1, <2>3
  <2>4. CASE EndRemoval(t, "retained")
    BY <2>1, <2>4, EndEffect DEF Ending
  <2>5. CASE EndRemoval(t, "freed") /\ \A g \in job[t].gens : leases[g] = 0
    BY <2>1, <2>5, EndEffect DEF Ending
  <2> QED BY <2>2, <2>3, <2>4, <2>5
<1>8. CASE LeaseById(t)
  <2> DEFINE g == byId[job[t].id]
  <2>1. job[t].id \in Ids /\ g \in Generations \cup {None} /\ UNCHANGED <<registry, storage>>
    BY Zenon, <1>8 DEF LeaseById, IInv, JobInv, TypeOK
  <2>2. CASE g = None
    BY Zenon, <1>1, <1>8, <2>2 DEF LeaseById, registry
  <2>3. CASE g # None
    <3>1. g \in Generations /\ Registered(g)
      BY Zenon, <2>1, <2>3, ArenaConstants DEF IInv, EntriesNamed, Registered
    <3>2. Lease(t, None, g) /\ \A l \in held[t] : l.want # None
      BY Zenon, <1>8, <2>3 DEF LeaseById, IInv, JobInv
    <3> QED BY Zenon, <2>1, <3>1, <3>2 DEF Holding, Leasing, Wants
  <2> QED BY <2>2, <2>3
<1>9. ASSUME NEW g \in Generations, LeaseByIdentity(t, g) \/ LeaseByToken(t, g) PROVE Holding(t)
  <2>1. Registered(g) /\ Lease(t, g, g)
    <3>1. CASE LeaseByIdentity(t, g)
      BY <3>1 DEF LeaseByIdentity, Registered, Issued
    <3>2. CASE LeaseByToken(t, g)
      BY <3>2 DEF LeaseByToken, Registered, IInv, IndexesAgree
    <3> QED BY <1>9, <3>1, <3>2
  <2>2. UNCHANGED <<registry, storage>> /\ \A l \in held[t] : l.want # g
    BY Zenon, <1>9 DEF LeaseByIdentity, LeaseByToken, MayLease
  <2> QED BY <2>1, <2>2 DEF Holding, Leasing, Wants
<1>10. CASE \E l \in held[t] : DropLease(t, l)
  BY Zenon, <1>10 DEF DropLease, Holding
<1>11. ASSUME \/ Publish(t) \/ NewPanics(t) \/ Unpublish(t) \/ FinishJoin(t) \/ DropExecutor(t)
              \/ ExtractArena(t) \/ NewThread(t) \/ BeginJoin(t)
       PROVE  Ending
  BY Zenon, <1>1, <1>11
     DEF Publish, NewPanics, Unpublish, FinishJoin, DropExecutor, ExtractArena, NewThread, BeginJoin, registry
<1>12. ASSUME NEW id \in Ids, AskById(t, id) \/ UnregisterById(t, id) PROVE Ending
  BY Zenon, <1>1, <1>12 DEF AskById, UnregisterById, registry
<1>13. ASSUME NEW g \in Generations, DropGuard(t, g) \/ UnregisterIdentity(t, g) PROVE Ending
  BY Zenon, <1>1, <1>13 DEF DropGuard, UnregisterIdentity, registry
<1>14. ASSUME NEW w \in Workers, StartThread(t, w) PROVE Ending
  BY <1>1, <1>14 DEF StartThread, registry
<1> QED
  BY Zenon, <1>2, <1>3, <1>4, <1>5, <1>6, <1>7, <1>8, <1>9, <1>10, <1>11, <1>12, <1>13, <1>14 DEF Steps, Continue

(* A registration under id gives its token to a new generation g. *)
Registers(t, id, g) ==
    /\ g \notin Issued /\ Issued' = Issued \cup {g} /\ Issued' = 1..g
    /\ \A i \in Ids : byId'[i] = IF i = id THEN g ELSE byId[i]
    /\ \A h \in Generations : byToken'[h] = IF h = g THEN id ELSE byToken[h]
    /\ \A h \in Generations : idOf'[h] = IF h = g THEN id ELSE idOf[h]
    /\ \A h \in Generations : storage'[h] = IF h = g THEN "live" ELSE storage[h]
    /\ job' = [job EXCEPT ![t] = [gens |-> {g}, id |-> id, owner |-> TRUE]]

(* What a registration does to the registry: one more entry, under a new number. *)
LEMMA RegisterFacts ==
    ASSUME IInv, NEW t \in Threads, NEW id \in Ids, Register(t, id)
    PROVE  \E g \in Generations : Registers(t, id, g)
<1> DEFINE g == Cardinality(Issued) + 1
<1>1. /\ Cardinality(Issued) \in Nat /\ Issued = 1..Cardinality(Issued) /\ g \notin Issued
  BY NextToken DEF IInv
<1>2. g \in Generations /\ 1..g = Issued \cup {g}
  BY <1>1 DEF Register
<1>3. /\ byId' = [byId EXCEPT ![id] = g] /\ byToken' = [byToken EXCEPT ![g] = id]
      /\ idOf' = [idOf EXCEPT ![g] = id] /\ storage' = [storage EXCEPT ![g] = "live"]
      /\ job' = [job EXCEPT ![t] = [gens |-> {g}, id |-> id, owner |-> TRUE]]
  BY DEF Register
<1>4. Typed
  BY TypedIsTypeOK DEF IInv
<1> HIDE DEF g
<1>5. /\ \A i \in Ids : byId'[i] = IF i = id THEN g ELSE byId[i]
      /\ \A h \in Generations : byToken'[h] = IF h = g THEN id ELSE byToken[h]
      /\ \A h \in Generations : idOf'[h] = IF h = g THEN id ELSE idOf[h]
      /\ \A h \in Generations : storage'[h] = IF h = g THEN "live" ELSE storage[h]
  BY Zenon, <1>2, <1>3, <1>4 DEF Typed
<1>6. Issued' = Issued \cup {g}
  BY <1>2, <1>5, ArenaConstants DEF Issued
<1> QED BY Zenon, <1>1, <1>2, <1>3, <1>5, <1>6 DEF Registers

(* A registration keeps its id, and once out of the registry it stays out. *)
LEMMA GoneForGood ==
    ASSUME IInv, NEW t \in Threads, Steps(t), NEW g \in Issued
    PROVE  g \in Issued' /\ idOf'[g] = idOf[g] /\ (Registered(g)' => Registered(g))
<1>1. g \in Generations /\ idOf[g] # None /\ idOf[g] \in Ids
  BY DEF IInv, TypeOK, Issued
<1>2. CASE Registering(t)
  <2>1. PICK id \in Ids : Register(t, id)
    BY <1>2 DEF Registering
  <2>2. PICK h \in Generations : Registers(t, id, h)
    BY Zenon, <2>1, RegisterFacts
  <2> QED BY ZenonT(60), <1>1, <2>2 DEF Registered, Registers
<1>3. CASE Unlisting(t)
  BY <1>1, <1>3, ArenaConstants DEF Unlisting, Unlist, Registered, Issued
<1>4. CASE UNCHANGED <<byId, byToken, idOf>>
  BY <1>4 DEF Registered, Issued
<1> QED BY Zenon, <1>2, <1>3, <1>4, Effects DEF Ending, Holding, registry

(* The two indexes of the registry change together. *)
LEMMA RegistryStep ==
    ASSUME IInv, NEW t \in Threads, Steps(t)
    PROVE  Numbered' /\ EntriesNamed' /\ IndexesAgree'
<1>1. CASE Registering(t)
  <2>1. PICK id \in Ids : Register(t, id)
    BY <1>1 DEF Registering
  <2>2. PICK g \in Generations : Registers(t, id, g)
    BY Zenon, <2>1, RegisterFacts
  <2>3. byId[id] = None /\ id # None /\ g # None
    BY <2>1, ArenaConstants DEF Register
  <2>4. Numbered'
    <3>1. g \in 0..MaxToken
      BY ArenaConstants DEF Generations
    <3> QED BY <2>2, <2>3, <3>1 DEF Numbered, IInv, Registers
  <2>5. \A i \in Ids : byId[i] # None => byId[i] \in Generations /\ byId[i] # g
    BY <2>2, ArenaConstants DEF IInv, EntriesNamed, TypeOK, Issued, Registers
  <2>6. EntriesNamed'
    BY <2>2, <2>5 DEF IInv, EntriesNamed, Registers
  <2>7. \A h \in Generations : Registered(h)' <=> (h = g \/ Registered(h))
    <3> SUFFICES ASSUME NEW h \in Generations PROVE Registered(h)' <=> (h = g \/ Registered(h))
      OBVIOUS
    <3>1. CASE h = g
      BY <2>2, <2>3, <3>1 DEF Registered, Registers
    <3>2. CASE h # g
      <4>1. idOf'[h] = idOf[h] /\ idOf[h] \in Ids \cup {None} /\ h # None
        BY Zenon, <2>2, <3>2, ArenaConstants DEF IInv, TypeOK, Registers
      <4> QED BY <2>2, <2>3, <3>2, <4>1 DEF Registered, Registers
    <3> QED BY <3>1, <3>2
  <2>8. IndexesAgree'
    BY ZenonT(60), <2>2, <2>7 DEF IInv, IndexesAgree, Issued, Registered, Registers
  <2> QED BY <2>4, <2>6, <2>8
<1>2. CASE Unlisting(t)
  <2>1. PICK gens \in SUBSET Generations : Unlist(gens)
    BY <1>2 DEF Unlisting
  <2>2. /\ \A i \in Ids : byId'[i] = IF byId[i] \in gens THEN None ELSE byId[i]
        /\ \A g \in Generations : byToken'[g] = IF g \in gens THEN None ELSE byToken[g]
        /\ UNCHANGED <<idOf, storage>>
    BY <1>2, <2>1 DEF Unlist, Unlisting
  <2>3. Numbered' /\ EntriesNamed'
    BY <2>2 DEF IInv, Numbered, EntriesNamed, Issued
  <2>4. \A g \in Generations : Registered(g)' <=> (Registered(g) /\ g \notin gens)
    BY <2>2, ArenaConstants DEF Registered, IInv, TypeOK
  <2>5. IndexesAgree'
    BY Zenon, <2>2, <2>4 DEF IInv, IndexesAgree
  <2> QED BY <2>3, <2>5
<1>3. CASE Ending
  BY Zenon, <1>3 DEF Ending, MemoryEffect, IInv, Numbered, EntriesNamed, IndexesAgree, Issued, Registered
<1>4. CASE Holding(t)
  BY Zenon, <1>4 DEF Holding, registry, IInv, Numbered, EntriesNamed, IndexesAgree, Issued, Registered
<1> QED BY <1>1, <1>2, <1>3, <1>4, Effects

(* Taking a lease counts one more on its registration and on no other. *)
LEMMA LeaseCounted ==
    ASSUME IInv, NEW t \in Threads, Leasing(t)
    PROVE  LeasesCounted'
<1>1. PICK w \in Wants, g \in Generations : Lease(t, w, g) /\ \A l \in held[t] : l.want # w
  BY DEF Leasing
<1>2. Typed
  BY TypedIsTypeOK DEF IInv
<1>3. /\ \A h \in Generations : leases'[h] = IF h = g THEN leases[h] + 1 ELSE leases[h]
      /\ \A u \in Threads : held'[u] = IF u = t THEN held[u] \cup {[want |-> w, gen |-> g]} ELSE held[u]
  BY Zenon, <1>1, <1>2 DEF Lease, Typed
<1>a. \A u \in Threads, v \in Wants, h \in Generations :
        [want |-> v, gen |-> h] \in held'[u] <=>
          ([want |-> v, gen |-> h] \in held[u] \/ (u = t /\ v = w /\ h = g))
  <2>1. \A v, h : [want |-> v, gen |-> h] = [want |-> w, gen |-> g] <=> v = w /\ h = g
    OBVIOUS
  <2> SUFFICES ASSUME NEW u \in Threads, NEW v \in Wants, NEW h \in Generations
               PROVE  [want |-> v, gen |-> h] \in held'[u] <=>
                        ([want |-> v, gen |-> h] \in held[u] \/ (u = t /\ v = w /\ h = g))
    BY Zenon
  <2>2. CASE u = t
    <3>1. held'[u] = held[u] \cup {[want |-> w, gen |-> g]}
      BY Zenon, <1>3, <2>2
    <3> QED BY Zenon, <2>1, <2>2, <3>1
  <2>3. CASE u # t
    BY Zenon, <1>3, <2>3
  <2> QED BY Zenon, <2>2, <2>3
<1>4. HeldOn(g)' = HeldOn(g) \cup {<<t, w>>}
  <2>1. \A x \in Threads \X Wants : x[1] \in Threads /\ x[2] \in Wants /\ (x = <<t, w>> <=> x[1] = t /\ x[2] = w)
    OBVIOUS
  <2>2. \A x \in Threads \X Wants : x \in HeldOn(g)' <=> x \in HeldOn(g) \/ x = <<t, w>>
    BY Zenon, <1>a, <2>1 DEF HeldOn
  <2> QED BY Zenon, <2>2 DEF HeldOn
<1>5. <<t, w>> \notin HeldOn(g)
  BY <1>1 DEF HeldOn
<1>6. \A h \in Generations \ {g} : HeldOn(h)' = HeldOn(h)
  <2> SUFFICES ASSUME NEW h \in Generations \ {g} PROVE HeldOn(h)' = HeldOn(h)
    OBVIOUS
  <2>1. \A x \in Threads \X Wants : x[1] \in Threads /\ x[2] \in Wants
    OBVIOUS
  <2>2. \A x \in Threads \X Wants : x \in HeldOn(h)' <=> x \in HeldOn(h)
    BY Zenon, <1>a, <2>1 DEF HeldOn
  <2> QED BY Zenon, <2>2 DEF HeldOn
<1>7. Cardinality(HeldOn(g)') = Cardinality(HeldOn(g)) + 1
  BY Zenon, <1>4, <1>5, HeldFinite, FS_AddElement
<1> QED BY Zenon, <1>3, <1>6, <1>7 DEF IInv, LeasesCounted

(* Dropping one counts one less. *)
LEMMA DropCounted ==
    ASSUME IInv, NEW t \in Threads, NEW l \in held[t], DropLease(t, l)
    PROVE  LeasesCounted'
<1> DEFINE w == l.want
           g == l.gen
<1>1. Typed
  BY TypedIsTypeOK DEF IInv
<1>2. w \in Wants /\ g \in Generations /\ l = [want |-> w, gen |-> g]
  BY <1>1 DEF Typed, Leases
<1>3. /\ \A h \in Generations : leases'[h] = IF h = g THEN leases[h] - 1 ELSE leases[h]
      /\ \A u \in Threads : held'[u] = IF u = t THEN held[u] \ {[want |-> w, gen |-> g]} ELSE held[u]
  BY Zenon, <1>1, <1>2 DEF DropLease, Typed
<1>4. <<t, w>> \in HeldOn(g)
  BY <1>2 DEF HeldOn
<1> HIDE DEF w, g
<1>a. \A u \in Threads, v \in Wants, h \in Generations :
        [want |-> v, gen |-> h] \in held'[u] <=>
          ([want |-> v, gen |-> h] \in held[u] /\ ~(u = t /\ v = w /\ h = g))
  BY Zenon, <1>3
<1>5. HeldOn(g)' = HeldOn(g) \ {<<t, w>>}
  <2>1. \A x \in Threads \X Wants : x[1] \in Threads /\ x[2] \in Wants /\ (x = <<t, w>> <=> x[1] = t /\ x[2] = w)
    OBVIOUS
  <2>2. \A x \in Threads \X Wants : x \in HeldOn(g)' <=> x \in HeldOn(g) /\ x # <<t, w>>
    BY Zenon, <1>2, <1>a, <2>1 DEF HeldOn
  <2> QED BY Zenon, <2>2 DEF HeldOn
<1>6. \A h \in Generations \ {g} : HeldOn(h)' = HeldOn(h)
  <2> SUFFICES ASSUME NEW h \in Generations \ {g} PROVE HeldOn(h)' = HeldOn(h)
    BY Zenon
  <2>1. \A x \in Threads \X Wants : x[1] \in Threads /\ x[2] \in Wants
    BY Zenon
  <2>2. \A x \in Threads \X Wants : x \in HeldOn(h)' <=> x \in HeldOn(h)
    BY Zenon, <1>a, <2>1 DEF HeldOn
  <2> QED BY Zenon, <2>2 DEF HeldOn
<1>7. Cardinality(HeldOn(g)') = Cardinality(HeldOn(g)) - 1
  BY ZenonT(60), <1>4, <1>5, HeldFinite, FS_RemoveElement
<1> QED BY Zenon, <1>2, <1>3, <1>6, <1>7 DEF IInv, LeasesCounted

(* Leases stay on what was asked for, counted, and off what is freed. *)
LEMMA LeaseStep ==
    ASSUME IInv, NEW t \in Threads, Steps(t)
    PROVE  LeaseMatchesIdentity' /\ LeasesCounted' /\ LeasesIssued'
<1>1. Typed
  BY TypedIsTypeOK DEF IInv
<1>2. \A g \in Issued : g \in Issued' /\ (Registered(g)' => Registered(g))
  BY GoneForGood
<1>3. \A g \in Generations : storage[g] = "freed" => g \in Issued
  BY DEF IInv, Numbered, Issued
<1>4. CASE Holding(t)
  <2>1. UNCHANGED <<idOf, byId, storage>>
    BY <1>4 DEF Holding, registry
  <2>2. CASE Leasing(t)
    <3>1. PICK w \in Wants, g \in Generations : Lease(t, w, g) /\ Registered(g) /\ w \in {None, g}
      BY <2>2 DEF Leasing
    <3>2. /\ \A h \in Generations : leases'[h] = IF h = g THEN leases[h] + 1 ELSE leases[h]
          /\ \A u \in Threads : \A l \in held'[u] : l \in held[u] \/ l = [want |-> w, gen |-> g]
      BY Zenon, <1>1, <3>1 DEF Lease, Typed
    <3>3. g \in Issued /\ storage[g] # "freed"
      BY Zenon, <3>1 DEF Registered, Issued, IInv, LeasesIssued
    <3>4. LeaseMatchesIdentity'
      BY <3>1, <3>2 DEF IInv, LeaseMatchesIdentity
    <3>5. LeasesIssued'
      <4>1. Issued' = Issued /\ \A h \in Generations : Registered(h)' <=> Registered(h)
        BY Zenon, <2>1 DEF Issued, Registered
      <4>2. \A u \in Threads : \A l \in held'[u] : l.gen \in Issued'
        <5> SUFFICES ASSUME NEW u \in Threads, NEW l \in held'[u] PROVE l.gen \in Issued
          BY Zenon, <4>1
        <5>1. CASE l \in held[u]
          BY Zenon, <5>1 DEF IInv, LeasesIssued
        <5>2. CASE l = [want |-> w, gen |-> g]
          BY Zenon, <3>3, <5>2
        <5> QED BY Zenon, <3>2, <5>1, <5>2
      <4>3. \A h \in Generations : storage'[h] = "freed" => ~Registered(h)' /\ leases'[h] = 0
        BY Zenon, <2>1, <3>2, <3>3, <4>1 DEF IInv, LeasesIssued
      <4> QED BY Zenon, <4>2, <4>3 DEF LeasesIssued
    <3> QED BY <2>2, <3>4, <3>5, LeaseCounted
  <2>3. ASSUME NEW l \in held[t], DropLease(t, l)
        PROVE  LeaseMatchesIdentity' /\ LeasesCounted' /\ LeasesIssued'
    <3>1. l.gen \in Generations /\ leases[l.gen] # 0
      BY Zenon, HeldIsCounted
    <3>2. /\ \A h \in Generations \ {l.gen} : leases'[h] = leases[h]
          /\ \A u \in Threads : \A k \in held'[u] : k \in held[u]
      BY Zenon, <1>1, <2>3, <3>1 DEF DropLease, Typed
    <3>3. LeaseMatchesIdentity'
      BY Zenon, <3>2 DEF IInv, LeaseMatchesIdentity
    <3>4. LeasesIssued'
      BY Zenon, <2>1, <3>1, <3>2 DEF IInv, LeasesIssued, Issued, Registered
    <3> QED BY Zenon, <2>3, <3>3, <3>4, DropCounted
  <2> QED BY <1>4, <2>2, <2>3 DEF Holding
<1>5. CASE ~Holding(t)
  <2>1. UNCHANGED <<leases, held>>
    BY <1>5, Effects DEF Registering, Unlisting, Ending
  <2>2. LeaseMatchesIdentity'
    BY Zenon, <2>1 DEF IInv, LeaseMatchesIdentity
  <2>3. LeasesCounted'
    BY Zenon, <2>1 DEF IInv, LeasesCounted, HeldOn
  <2>4. \A g \in Generations : storage'[g] = "freed" => g \in Issued /\ ~Registered(g) /\ leases[g] = 0
    <3>1. CASE Registering(t)
      <4>1. PICK id \in Ids : Register(t, id)
        BY <3>1 DEF Registering
      <4>2. \E g \in Generations : \A h \in Generations : storage'[h] = IF h = g THEN "live" ELSE storage[h]
        BY ZenonT(60), <4>1, RegisterFacts DEF Registers
      <4> QED BY Zenon, <1>3, <4>2 DEF IInv, LeasesIssued
    <3>2. CASE Unlisting(t)
      BY Zenon, <1>3, <3>2 DEF Unlisting, IInv, LeasesIssued
    <3>3. CASE Ending
      BY Zenon, <1>3, <3>3 DEF Ending, MemoryEffect, IInv, LeasesIssued
    <3> QED BY Zenon, <1>5, <3>1, <3>2, <3>3, Effects
  <2>5. LeasesIssued'
    BY Zenon, <1>2, <2>1, <2>4 DEF IInv, LeasesIssued
  <2> QED BY <2>2, <2>3, <2>5
<1> QED BY <1>4, <1>5

(* A step leaves what other threads are doing alone, but may start a worker. *)
LEMMA OthersKept ==
    ASSUME IInv, NEW t \in Threads, Steps(t), NEW u \in Threads, u # t
    PROVE  /\ job'[u] = job[u] /\ exec'[u] = exec[u] /\ guards'[u] = guards[u]
           /\ held'[u] = held[u] /\ record'[u] = record[u]
           /\ pc'[u] = pc[u] \/ (pc[u] = "unspawned" /\ pc'[u] = "idle")
<1>1. Typed
  BY TypedIsTypeOK DEF IInv
<1> USE <1>1 DEF Typed, Goto
<1>2. CASE NewExecutor(t) \/ \E id \in Ids : HostRegisters(t, id)
  BY ZenonT(60), <1>2 DEF NewExecutor, HostRegisters, Register
<1>3. CASE Publish(t) \/ NewPanics(t) \/ Unpublish(t)
  BY <1>3 DEF Publish, NewPanics, Unpublish
<1>4. CASE CaptureIdentity(t) \/ CaptureRegistration(t)
  BY <1>4 DEF CaptureIdentity, CaptureRegistration, Abandon
<1>5. CASE DropExecutor(t) \/ ExtractArena(t)
  BY <1>5 DEF DropExecutor, ExtractArena
<1>6. CASE LeaseById(t) \/ \E l \in held[t] : DropLease(t, l)
  BY ZenonT(60), <1>6 DEF LeaseById, Lease, DropLease
<1>7. ASSUME NEW g \in Generations, LeaseByIdentity(t, g) \/ LeaseByToken(t, g)
      PROVE  /\ job'[u] = job[u] /\ exec'[u] = exec[u] /\ guards'[u] = guards[u]
             /\ held'[u] = held[u] /\ record'[u] = record[u] /\ pc'[u] = pc[u]
  BY Zenon, <1>7 DEF LeaseByIdentity, LeaseByToken, Lease
<1>8. CASE \E id \in Ids : AskById(t, id) \/ UnregisterById(t, id)
  BY Zenon, <1>8 DEF AskById, UnregisterById
<1>9. CASE \E g \in Generations : DropGuard(t, g) \/ UnregisterIdentity(t, g)
  BY Zenon, <1>9 DEF DropGuard, UnregisterIdentity
<1>10. CASE RemoveEntry(t) \/ ResetRegistry(t)
  BY <1>10 DEF RemoveEntry, ResetRegistry
<1>11. CASE CheckOwnLease(t) \/ Drain(t) \/ DrainUnwinds(t)
  BY ZenonT(60), <1>11 DEF CheckOwnLease, Drain, DrainUnwinds, EndRemoval
<1>12. CASE FinishJoin(t) \/ NewThread(t) \/ BeginJoin(t)
  BY <1>12 DEF FinishJoin, NewThread, BeginJoin
<1>13. ASSUME NEW w \in Workers, StartThread(t, w)
       PROVE  /\ job'[u] = job[u] /\ exec'[u] = exec[u] /\ guards'[u] = guards[u]
              /\ held'[u] = held[u] /\ record'[u] = record[u]
              /\ pc'[u] = pc[u] \/ (pc[u] = "unspawned" /\ pc'[u] = "idle")
  BY Zenon, <1>13 DEF StartThread
<1> QED
  BY Zenon, <1>2, <1>3, <1>4, <1>5, <1>6, <1>7, <1>8, <1>9, <1>10, <1>11, <1>12, <1>13 DEF Steps, Continue

(* The steps that neither open nor close a write section. *)
Outside(t) ==
    /\ UNCHANGED <<byId, bits, writer>>
    /\ \/ pc'[t] = pc[t] /\ job'[t] = job[t]
       \/ {pc[t], pc'[t]} \cap {"publish", "unpublish"} = {}

(* Write sections are those of registration and of removal. *)
LEMMA WriterSteps ==
    ASSUME IInv, NEW t \in Threads, Steps(t)
    PROVE  \/ Registering(t) /\ writer = None /\ writer' = t /\ pc'[t] = "publish"
           \/ Publish(t) \/ Unpublish(t) \/ ResetRegistry(t)
           \/ RemoveEntry(t) /\ writer' = t
           \/ Outside(t)
<1>1. Typed
  BY TypedIsTypeOK DEF IInv
<1> USE <1>1 DEF Typed, Goto, registry, Outside, Free
<1>2. CASE NewExecutor(t) \/ \E id \in Ids : HostRegisters(t, id)
  BY ZenonT(60), <1>2 DEF NewExecutor, HostRegisters, Register, Registering, Ids
<1>3. CASE NewPanics(t)
  BY Zenon, <1>3 DEF NewPanics, Home
<1>4. CASE CaptureIdentity(t) \/ CaptureRegistration(t)
  BY <1>4 DEF CaptureIdentity, CaptureRegistration, Abandon, Home
<1>5. CASE DropExecutor(t) \/ ExtractArena(t)
  BY <1>5 DEF DropExecutor, ExtractArena, Home
<1>6. CASE LeaseById(t) \/ \E l \in held[t] : DropLease(t, l)
  BY Zenon, <1>6 DEF LeaseById, DropLease
<1>7. CASE \E g \in Generations : LeaseByIdentity(t, g) \/ LeaseByToken(t, g)
  BY Zenon, <1>7 DEF LeaseByIdentity, LeaseByToken, MayLease
<1>8. CASE \E id \in Ids : AskById(t, id) \/ UnregisterById(t, id)
  BY Zenon, <1>8 DEF AskById, UnregisterById, MayLease
<1>9. CASE \E g \in Generations : DropGuard(t, g) \/ UnregisterIdentity(t, g)
  BY Zenon, <1>9 DEF DropGuard, UnregisterIdentity
<1>10. CASE RemoveEntry(t)
  BY <1>10 DEF RemoveEntry
<1>11. CASE CheckOwnLease(t) \/ Drain(t) \/ DrainUnwinds(t)
  BY Zenon, <1>11 DEF CheckOwnLease, Drain, DrainUnwinds, EndRemoval, Home
<1>12. CASE FinishJoin(t) \/ NewThread(t) \/ BeginJoin(t)
  BY <1>12 DEF FinishJoin, NewThread, BeginJoin
<1>13. CASE \E w \in Workers : StartThread(t, w)
  BY Zenon, <1>13 DEF StartThread, Runs
<1> QED
  BY Zenon, <1>2, <1>3, <1>4, <1>5, <1>6, <1>7, <1>8, <1>9, <1>10, <1>11, <1>12, <1>13 DEF Steps, Continue

(* The bitset is exact outside the write sections, and known inside them. *)
LEMMA WriterStep ==
    ASSUME IInv, NEW t \in Threads, Steps(t)
    PROVE  FastBitsExact' /\ WriterInv'
<1> DEFINE Exact == {i \in Fast : byId[i] # None}
           Section == {"publish", "unpublish"}
<1>1. Typed
  BY TypedIsTypeOK DEF IInv
<1>2. ASSUME NEW u \in Threads, u # t
      PROVE  job'[u] = job[u] /\ (pc'[u] \in Section => pc'[u] = pc[u]) /\ (pc[u] \in Section => pc'[u] = pc[u])
  BY Zenon, <1>2, OthersKept
<1>3. \A g \in Issued : g \in Issued' /\ idOf'[g] = idOf[g]
  BY Zenon, GoneForGood
<1>4. \A u \in Threads : writer = u <=> pc[u] \in Section
  BY Zenon DEF IInv, WriterInv
<1>5. None \notin Threads /\ None \notin Ids
  BY ArenaConstants
<1>6. writer = None => bits = Exact /\ \A u \in Threads : pc[u] \notin Section
  BY Zenon, <1>4, <1>5 DEF IInv, FastBitsExact
<1>7. ASSUME writer = None, writer' = t, pc'[t] \in Section
      PROVE  FastBitsExact' /\ \A u \in Threads : /\ writer' = u <=> pc'[u] \in Section
                                                  /\ u # t => pc'[u] \notin Section
  BY Zenon, <1>2, <1>5, <1>6, <1>7 DEF FastBitsExact
<1>8. CASE Registering(t) /\ writer = None /\ writer' = t /\ pc'[t] = "publish"
  <2>1. PICK id \in Ids : Register(t, id)
    BY <1>8 DEF Registering
  <2>2. PICK g \in Generations : Registers(t, id, g)
    BY Zenon, <2>1, RegisterFacts
  <2>3. g \in Issued' /\ job'[t].gens = {g} /\ job'[t].id = id /\ idOf'[g] = id /\ byId'[id] = g
    BY Zenon, <1>1, <2>2 DEF Typed, Registers
  <2>4. bits' = {i \in Fast : byId'[i] # None} \ {id}
    <3>1. bits' = Exact /\ byId[id] = None
      BY Zenon, <1>6, <1>8, <2>1 DEF Registering, Register
    <3> QED BY Zenon, <2>2, <3>1, ArenaConstants DEF Registers
  <2> QED BY Zenon, <1>7, <1>8, <2>3, <2>4 DEF WriterInv
<1>9. CASE Publish(t)
  <2>1. PICK g \in Issued : job[t].id = idOf[g] /\ byId[idOf[g]] = g /\ bits = Exact \ {job[t].id}
    BY <1>9 DEF Publish, IInv, WriterInv
  <2>2. byId[job[t].id] # None
    BY Zenon, <2>1, ArenaConstants DEF Issued
  <2>3. /\ bits' = bits \cup ({job[t].id} \cap Fast) /\ writer' = None /\ UNCHANGED byId
        /\ pc'[t] \notin Section /\ writer = t
    BY <1>1, <1>4, <1>9 DEF Publish, Goto, Typed
  <2>4. bits' = Exact
    BY <2>1, <2>2, <2>3
  <2>5. \A u \in Threads : pc'[u] \notin Section
    BY Zenon, <1>2, <1>4, <2>3
  <2> QED BY Zenon, <1>5, <2>3, <2>4, <2>5 DEF FastBitsExact, WriterInv
<1>10. CASE Unpublish(t)
  <2>1. /\ bits' = (IF job[t].id = None THEN {} ELSE bits \ {job[t].id}) /\ writer' = None /\ UNCHANGED byId
        /\ pc'[t] \notin Section /\ writer = t /\ pc[t] = "unpublish"
    BY Zenon, <1>1, <1>4, <1>10 DEF Unpublish, Goto, Typed
  <2>2. bits' = Exact
    <3>1. CASE job[t].id = None
      BY Zenon, <2>1, <3>1, ArenaConstants DEF IInv, WriterInv
    <3>2. CASE job[t].id # None
      BY Zenon, <2>1, <3>2 DEF IInv, WriterInv
    <3> QED BY <3>1, <3>2
  <2>3. \A u \in Threads : pc'[u] \notin Section
    BY Zenon, <1>2, <1>4, <2>1
  <2> QED BY Zenon, <1>5, <2>1, <2>2, <2>3 DEF FastBitsExact, WriterInv
<1>11. CASE ResetRegistry(t)
  <2>1. /\ writer = None /\ writer' = t /\ pc'[t] = "unpublish" /\ job'[t].id = None
        /\ Unlist({g \in Generations : Registered(g)})
    BY Zenon, <1>1, <1>11 DEF ResetRegistry, Goto, Typed
  <2>2. \A i \in Ids : byId'[i] = None
    <3>1. \A i \in Ids : byId[i] # None => byId[i] \in Generations /\ Registered(byId[i])
      BY Zenon, <1>1, <1>5 DEF Typed, Registered, IInv, EntriesNamed
    <3> QED BY Zenon, <2>1, <3>1 DEF Unlist
  <2> QED BY Zenon, <1>7, <2>1, <2>2 DEF WriterInv
<1>12. CASE RemoveEntry(t) /\ writer' = t
  <2> DEFINE id == job[t].id
             g == byId[job[t].id]
  <2>1. /\ writer = None /\ pc[t] = "remove" /\ UNCHANGED bits /\ id \in Ids
    BY <1>12 DEF RemoveEntry, IInv, JobInv
  <2>2. Unlist({g}) /\ g # None /\ job' = [job EXCEPT ![t].gens = {g}] /\ pc'[t] = "unpublish"
    BY <1>1, <1>5, <1>12, <2>1 DEF RemoveEntry, Goto, Typed
  <2>3. job'[t].id = id
    BY <1>1, <2>2 DEF Typed, Jobs
  <2>4. \A i \in Ids : byId'[i] = IF i = id THEN None ELSE byId[i]
    <3>1. \A i \in Ids : byId[i] = g => i = id
      BY <2>1, <2>2 DEF IInv, EntriesNamed
    <3> QED BY <2>1, <2>2, <3>1 DEF Unlist
  <2> HIDE DEF id
  <2>5. bits' \ {id} = {i \in Fast : byId'[i] # None} /\ byId'[id] = None
    BY Zenon, <1>6, <2>1, <2>4, ArenaConstants
  <2> QED BY <1>5, <1>7, <1>12, <2>1, <2>2, <2>3, <2>5 DEF WriterInv
<1>13. CASE Outside(t)
  <2>1. /\ UNCHANGED <<byId, bits, writer>>
        /\ \A u \in Threads : /\ pc[u] \in Section <=> pc'[u] \in Section
                              /\ pc'[u] \in Section => pc'[u] = pc[u] /\ job'[u] = job[u]
    BY Zenon, <1>2, <1>13 DEF Outside
  <2>2. FastBitsExact'
    BY <2>1 DEF IInv, FastBitsExact
  <2>3. WriterInv'
    <3>1. ASSUME NEW u \in Threads, pc'[u] = "publish"
          PROVE  /\ \E g \in Issued' : job'[u].gens = {g} /\ job'[u].id = idOf'[g] /\ byId'[idOf'[g]] = g
                 /\ bits' = {i \in Fast : byId'[i] # None} \ {job'[u].id}
      <4>1. pc[u] = "publish" /\ job'[u] = job[u]
        BY <2>1, <3>1
      <4>2. PICK g \in Issued : job[u].gens = {g} /\ job[u].id = idOf[g] /\ byId[idOf[g]] = g
        BY Zenon, <4>1 DEF IInv, WriterInv
      <4>3. bits = {i \in Fast : byId[i] # None} \ {job[u].id}
        BY Zenon, <4>1 DEF IInv, WriterInv
      <4> QED BY Zenon, <1>3, <2>1, <4>1, <4>2, <4>3
    <3>2. ASSUME NEW u \in Threads, pc'[u] = "unpublish"
          PROVE  IF job'[u].id = None
                   THEN \A i \in Ids : byId'[i] = None
                   ELSE byId'[job'[u].id] = None /\ bits' \ {job'[u].id} = {i \in Fast : byId'[i] # None}
      BY ZenonT(60), <2>1, <3>2 DEF IInv, WriterInv
    <3> QED BY Zenon, <1>4, <2>1, <3>1, <3>2 DEF WriterInv
  <2> QED BY <2>2, <2>3
<1> QED BY <1>8, <1>9, <1>10, <1>11, <1>12, <1>13, WriterSteps

(* What JobInv says of one thread. *)
JobOK(t) ==
    /\ pc[t] # "publish" /\ ~Removing(t) => job[t].gens = {}
    /\ pc[t] \in {"remove", "lease"} => job[t].id \in Ids
    /\ pc[t] = "remove" => job[t].gens = {} \/ \E g \in Generations : job[t].gens = {g}
    /\ Removing(t) /\ job[t].owner =>
         \E g \in Issued : /\ job[t].gens = {g} /\ job[t].id = idOf[g]
                           /\ pc[t] # "remove" => ~Registered(g)
    /\ pc[t] = "lease" => \A l \in held[t] : l.want # None

(* An operation in progress is not disturbed by the steps of other threads. *)
LEMMA JobOther ==
    ASSUME IInv, NEW t \in Threads, Steps(t), NEW u \in Threads,
           job'[u] = job[u], held'[u] = held[u],
           pc'[u] = pc[u] \/ (pc[u] = "unspawned" /\ pc'[u] = "idle")
    PROVE  JobOK(u)'
<1>1. JobOK(u)
  BY Zenon DEF IInv, JobInv, JobOK
<1>2. CASE pc[u] = "unspawned" /\ pc'[u] = "idle"
  BY Zenon, <1>1, <1>2 DEF JobOK, Removing
<1>3. CASE pc'[u] = pc[u]
  <2>1. Removing(u)' = Removing(u)
    BY <1>3 DEF Removing
  <2>2. ASSUME Removing(u), job[u].owner
        PROVE  \E g \in Issued' : /\ job'[u].gens = {g} /\ job'[u].id = idOf'[g]
                                  /\ pc'[u] # "remove" => ~Registered(g)'
    <3>1. PICK g \in Issued : job[u].gens = {g} /\ job[u].id = idOf[g] /\ (pc[u] # "remove" => ~Registered(g))
      BY Zenon, <1>1, <2>2 DEF JobOK
    <3>2. g \in Issued' /\ idOf'[g] = idOf[g] /\ (Registered(g)' => Registered(g))
      BY Zenon, GoneForGood
    <3> QED BY Zenon, <1>3, <3>1, <3>2
  <2> QED BY Zenon, <1>1, <1>3, <2>1, <2>2 DEF JobOK
<1> QED BY <1>2, <1>3

(* The removal of an entry, for its owner and for others. *)
LEMMA JobRemove ==
    ASSUME IInv, NEW t \in Threads, Steps(t), RemoveEntry(t)
    PROVE  JobOK(t)'
<1> DEFINE j == job[t]
           g == byId[j.id]
           gone == g = None \/ (g \notin j.gens /\ j.gens # {})
<1>1. Typed /\ JobOK(t) /\ pc[t] = "remove"
  BY TypedIsTypeOK DEF IInv, JobInv, JobOK, RemoveEntry
<1>2. j.id \in Ids /\ g \in Generations \cup {None}
  BY Zenon, <1>1 DEF JobOK, Typed
<1>3. CASE gone
  <2>1. job'[t] = (IF j.owner THEN j ELSE NoJob) /\ pc'[t] = (IF j.owner THEN "check" ELSE "idle")
    BY <1>1, <1>3 DEF RemoveEntry, Goto, Typed
  <2>2. CASE j.owner
    <3>1. PICK h \in Issued : j.gens = {h} /\ j.id = idOf[h]
      BY Zenon, <1>1, <2>2 DEF JobOK, Removing
    <3>2. ~Registered(h)
      BY Zenon, <1>3, <3>1, ArenaConstants DEF Registered, Issued
    <3>3. h \in Issued' /\ idOf'[h] = idOf[h] /\ ~Registered(h)'
      BY <3>2, GoneForGood
    <3> QED BY Zenon, <2>1, <2>2, <3>1, <3>3 DEF JobOK, Removing
  <2>3. CASE ~j.owner
    BY <2>1, <2>3 DEF JobOK, Removing, NoJob
  <2> QED BY <2>2, <2>3
<1>4. CASE ~gone
  <2>1. PICK h \in Generations : h = g
    BY <1>2, <1>4
  <2>2. /\ job'[t] = [j EXCEPT !.gens = {h}] /\ pc'[t] = "unpublish" /\ Unlist({h}) /\ UNCHANGED idOf
    BY <1>1, <1>4, <2>1 DEF RemoveEntry, Goto, Typed
  <2>3. job'[t].gens = {h} /\ job'[t].id = j.id /\ job'[t].owner = j.owner
    BY <1>1, <2>2 DEF Jobs, Typed
  <2>4. idOf[h] = j.id /\ h \in Issued
    BY Zenon, <1>2, <1>4, <2>1, ArenaConstants DEF IInv, EntriesNamed, Issued
  <2>5. ~Registered(h)'
    BY <1>2, <2>1, <2>2, <2>4, ArenaConstants DEF Unlist, Registered, Issued
  <2>6. h \in Issued' /\ idOf'[h] = j.id
    BY Zenon, <2>4, GoneForGood
  <2>7. \E x \in Issued' : job'[t].gens = {x} /\ job'[t].id = idOf'[x] /\ ~Registered(x)'
    BY <2>3, <2>5, <2>6
  <2> QED BY <2>2, <2>7 DEF JobOK, Removing
<1> QED BY Zenon, <1>3, <1>4

(* Every step keeps what operations in progress rely on. *)
LEMMA JobStep ==
    ASSUME IInv, NEW t \in Threads, Steps(t)
    PROVE  JobInv'
<1>1. Typed /\ JobOK(t) /\ OwnerInv /\ WriterInv
  BY Zenon, TypedIsTypeOK DEF IInv, JobInv, JobOK
<1>2. ASSUME NEW u \in Threads, u # t PROVE JobOK(u)'
  BY Zenon, <1>2, OthersKept, JobOther
<1>3. ASSUME job'[t].gens = {}, pc'[t] \notin {"publish", "lease", "remove", "unpublish", "check", "drain"}
      PROVE  JobOK(t)'
  BY Zenon, <1>3 DEF JobOK, Removing
<1>4. \A j \in Jobs : j.gens \in SUBSET Generations
  BY Zenon, FieldTypes
<1>5. Free(t) => job[t].gens = {} /\ pc[t] = "idle"
  BY Zenon, <1>1 DEF Free, JobOK, Removing
<1>6. JobOK(t)'
  <2>1. CASE NewExecutor(t) \/ \E id \in Ids : HostRegisters(t, id)
    <3>1. pc'[t] = "publish"
      BY Zenon, <1>1, <2>1 DEF NewExecutor, HostRegisters, Register, Goto, Typed
    <3> QED BY Zenon, <3>1 DEF JobOK, Removing
  <2>2. CASE Publish(t)
    <3>1. job'[t].gens = {} /\ pc'[t] \in {"capture", "idle"}
      BY <1>1, <2>2 DEF Publish, Goto, Typed, Jobs
    <3> QED BY Zenon, <1>3, <3>1
  <2>3. CASE NewPanics(t)
    BY Zenon, <1>1, <1>3, <1>5, <2>3 DEF NewPanics, Goto, Home, Typed
  <2>4. CASE CaptureIdentity(t)
    <3>1. job[t].gens = {}
      BY Zenon, <1>1, <2>4 DEF CaptureIdentity, JobOK, Removing
    <3>2. job' = job /\ pc'[t] \in {"registration", "idle", "done"}
      BY Zenon, <1>1, <2>4 DEF CaptureIdentity, Abandon, Goto, Home, Typed
    <3> QED BY <1>3, <3>1, <3>2
  <2>5. CASE CaptureRegistration(t) \/ LeaseById(t)
    <3>1. job'[t] = NoJob /\ pc'[t] \in {"idle", "done"}
      BY <1>1, <2>5 DEF CaptureRegistration, LeaseById, Abandon, Goto, Home, Typed
    <3> QED BY <1>3, <3>1 DEF NoJob
  <2>6. ASSUME NEW g \in Issued, NEW b \in BOOLEAN, pc'[t] = "remove",
               job'[t] = [gens |-> {g}, id |-> idOf[g], owner |-> b]
        PROVE  JobOK(t)'
    <3>1. g \in Generations /\ idOf[g] \in Ids /\ g \in Issued' /\ idOf'[g] = idOf[g]
      BY Zenon, <1>1, GoneForGood DEF Issued, Typed
    <3>2. job'[t].gens = {g} /\ job'[t].id = idOf'[g]
      BY <2>6, <3>1
    <3> QED BY Zenon, <2>6, <3>1, <3>2 DEF JobOK, Removing
  <2>7. CASE DropExecutor(t)
    <3>1. exec[t].gen \in Issued
      BY Zenon, <1>1, <2>7 DEF DropExecutor, OwnerInv
    <3>2. CASE exec[t].box
      <4>1. job'[t] = [gens |-> {exec[t].gen}, id |-> idOf[exec[t].gen], owner |-> TRUE] /\ pc'[t] = "remove"
        BY Zenon, <1>1, <2>7, <3>2 DEF DropExecutor, Goto, Typed
      <4> QED BY Zenon, <2>6, <3>1, <4>1
    <3>3. CASE ~exec[t].box
      <4>1. job' = job /\ pc'[t] \in {"idle", "done"} /\ Free(t)
        BY Zenon, <1>1, <2>7, <3>3 DEF DropExecutor, Goto, Home, Typed
      <4> QED BY <1>3, <1>5, <4>1
    <3> QED BY <3>2, <3>3
  <2>8. ASSUME NEW g \in Generations, DropGuard(t, g) PROVE JobOK(t)'
    <3>1. g \in Issued /\ job'[t] = [gens |-> {g}, id |-> idOf[g], owner |-> TRUE] /\ pc'[t] = "remove"
      BY Zenon, <1>1, <2>8 DEF DropGuard, OwnerInv, Goto, Typed
    <3> QED BY Zenon, <2>6, <3>1
  <2>9. ASSUME NEW g \in Generations, UnregisterIdentity(t, g) PROVE JobOK(t)'
    <3>1. g \in Issued /\ job'[t] = [gens |-> {g}, id |-> idOf[g], owner |-> FALSE] /\ pc'[t] = "remove"
      BY Zenon, <1>1, <2>9 DEF UnregisterIdentity, Goto, Typed
    <3> QED BY Zenon, <2>6, <3>1
  <2>10. ASSUME NEW id \in Ids, AskById(t, id) \/ UnregisterById(t, id) PROVE JobOK(t)'
    <3>1. job'[t] = [gens |-> {}, id |-> id, owner |-> FALSE] /\ held' = held
      BY Zenon, <1>1, <2>10 DEF AskById, UnregisterById, Typed
    <3>2. pc'[t] = "remove" \/ (pc'[t] = "lease" /\ \A l \in held[t] : l.want # None)
      BY Zenon, <1>1, <2>10 DEF AskById, UnregisterById, MayLease, Goto, Typed
    <3>3. job'[t].gens = {} /\ job'[t].id \in Ids /\ ~job'[t].owner
      BY <3>1
    <3> QED BY Zenon, <3>1, <3>2, <3>3 DEF JobOK, Removing
  <2>11. CASE RemoveEntry(t)
    BY <2>11, JobRemove
  <2>12. CASE ResetRegistry(t)
    <3>1. job'[t].owner = FALSE /\ pc'[t] = "unpublish"
      BY Zenon, <1>1, <2>12 DEF ResetRegistry, Goto, Typed
    <3> QED BY Zenon, <3>1 DEF JobOK, Removing
  <2>13. ASSUME job' = job, Removing(t), pc'[t] \in {"check", "drain"}, pc[t] \in {"unpublish", "check"}
         PROVE  JobOK(t)'
    <3>1. ASSUME job[t].owner
          PROVE  \E g \in Issued' : job[t].gens = {g} /\ job[t].id = idOf'[g] /\ ~Registered(g)'
      <4>1. PICK g \in Issued : job[t].gens = {g} /\ job[t].id = idOf[g] /\ ~Registered(g)
        BY Zenon, <1>1, <2>13, <3>1 DEF JobOK
      <4>2. g \in Issued' /\ idOf'[g] = idOf[g] /\ (Registered(g)' => Registered(g))
        BY Zenon, GoneForGood
      <4> QED BY Zenon, <4>1, <4>2
    <3> QED BY Zenon, <2>13, <3>1 DEF JobOK, Removing
  <2>14. CASE Unpublish(t)
    BY Zenon, <1>1, <2>13, <2>14 DEF Unpublish, Goto, Typed, Removing
  <2>15. CASE CheckOwnLease(t) \/ Drain(t) \/ DrainUnwinds(t)
    <3>1. \/ job'[t] = NoJob /\ pc'[t] \in {"idle", "done"}
          \/ job' = job /\ pc[t] = "check" /\ pc'[t] = "drain"
      BY Zenon, <1>1, <2>15 DEF CheckOwnLease, Drain, DrainUnwinds, EndRemoval, Goto, Home, Typed
    <3> QED BY <1>3, <2>13, <3>1 DEF NoJob, Removing
  <2>16. ASSUME job' = job, held'[t] = held[t], pc'[t] = pc[t] PROVE JobOK(t)'
    BY Zenon, <2>16, JobOther
  <2>17. CASE FinishJoin(t) \/ NewThread(t) \/ BeginJoin(t) \/ ExtractArena(t)
    BY <2>16, <2>17 DEF FinishJoin, NewThread, BeginJoin, ExtractArena
  <2>18. ASSUME NEW w \in Workers, StartThread(t, w) PROVE JobOK(t)'
    BY Zenon, <1>1, <1>3, <1>5, <2>18 DEF StartThread, Runs, Goto, Typed
  <2>19. ASSUME Free(t), UNCHANGED <<pc, job>> PROVE JobOK(t)'
    BY Zenon, <1>3, <1>5, <2>19
  <2>20. CASE \E l \in held[t] : DropLease(t, l)
    BY <2>19, <2>20 DEF DropLease
  <2>21. CASE \E g \in Generations : LeaseByIdentity(t, g) \/ LeaseByToken(t, g)
    BY Zenon, <2>19, <2>21 DEF LeaseByIdentity, LeaseByToken, MayLease
  <2> QED
    BY ZenonT(60), <2>1, <2>2, <2>3, <2>4, <2>5, <2>7, <2>8, <2>9, <2>10, <2>11, <2>12, <2>14, <2>15, <2>17, <2>18,
       <2>20, <2>21 DEF Steps, Continue
<1> QED BY Zenon, <1>2, <1>6 DEF JobInv, JobOK

(* What OwnerInv says of one thread. *)
OwnerOK(t) ==
    /\ exec[t].gen # None => exec[t].gen \in Issued
    /\ exec[t].gen = None => ~exec[t].box /\ ~exec[t].registration
    /\ pc[t] \in {"capture", "registration"} => exec[t].gen # None
    /\ guards[t] \subseteq Issued
    /\ pc[t] = "done" => exec[t] = NoExecutor
    /\ record[t].phase \in {"started", "joining"} => record[t].worker \in Workers

(* Executors, guards and thread records belong to what was registered and started. *)
LEMMA OwnerStep ==
    ASSUME IInv, NEW t \in Threads, Steps(t)
    PROVE  OwnerInv'
<1>1. Typed /\ (\A u \in Threads : OwnerOK(u)) /\ WriterInv
  BY Zenon, TypedIsTypeOK DEF IInv, OwnerInv, OwnerOK
<1>2. Issued \subseteq Issued' /\ Issued \subseteq Generations /\ None \notin Issued
  <2>1. \A g \in Issued : g \in Issued'
    BY Zenon, GoneForGood
  <2>2. Issued \subseteq Generations
    BY DEF Issued
  <2> QED BY <2>1, <2>2, ArenaConstants
<1>3. ASSUME NEW u \in Threads, exec'[u] = exec[u], guards'[u] = guards[u],
             record'[u] \in {record[u], NoRecord},
             pc'[u] = pc[u] \/ pc'[u] \notin {"capture", "registration", "done"}
      PROVE  OwnerOK(u)'
  <2>1. OwnerOK(u)
    BY Zenon, <1>1
  <2>2. /\ exec'[u].gen # None => exec'[u].gen \in Issued'
        /\ exec'[u].gen = None => ~exec'[u].box /\ ~exec'[u].registration
        /\ pc'[u] \in {"capture", "registration"} => exec'[u].gen # None
        /\ guards'[u] \subseteq Issued'
        /\ pc'[u] = "done" => exec'[u] = NoExecutor
    BY Zenon, <1>2, <1>3, <2>1 DEF OwnerOK
  <2>3. record'[u].phase \in {"started", "joining"} => record'[u].worker \in Workers
    <3>1. NoRecord.phase \notin {"started", "joining"}
      BY DEF NoRecord
    <3> QED BY Zenon, <1>3, <2>1, <3>1 DEF OwnerOK
  <2> QED BY Zenon, <2>2, <2>3 DEF OwnerOK
<1>4. ASSUME NEW u \in Threads, u # t PROVE OwnerOK(u)'
  BY Zenon, <1>3, <1>4, OthersKept
<1>5. ASSUME exec'[t] = NoExecutor, guards'[t] = guards[t], record'[t] \in {record[t], NoRecord},
             pc'[t] \in {"idle", "done"}
      PROVE  OwnerOK(t)'
  <2>1. OwnerOK(t)
    BY Zenon, <1>1
  <2>2. exec'[t].gen = None /\ ~exec'[t].box /\ ~exec'[t].registration
    BY <1>5 DEF NoExecutor
  <2>3. record'[t].phase \in {"started", "joining"} => record'[t].worker \in Workers
    <3>1. NoRecord.phase \notin {"started", "joining"}
      BY DEF NoRecord
    <3> QED BY Zenon, <1>5, <2>1, <3>1 DEF OwnerOK
  <2> QED BY Zenon, <1>2, <1>5, <2>1, <2>2, <2>3 DEF OwnerOK
<1>a. exec[t] \in Executors /\ record[t] \in Records /\ job[t] \in Jobs
  BY Zenon, <1>1 DEF Typed
<1>b. Free(t) => pc[t] = "idle"
  BY DEF Free
<1>6. OwnerOK(t)'
  <2>1. CASE NewExecutor(t)
    <3>1. PICK id \in Ids : Register(t, id)
      BY <2>1 DEF NewExecutor, Ids
    <3>2. PICK g \in Generations : Registers(t, id, g)
      BY Zenon, <3>1, RegisterFacts
    <3>3. job'[t].gens = {g}
      BY Zenon, <1>1, <3>2 DEF Typed, Registers
    <3>4. exec'[t] = [gen |-> g, registration |-> FALSE, box |-> TRUE] /\ guards' = guards /\ record' = record
      BY Zenon, <1>1, <2>1, <3>3, OnlyOne DEF NewExecutor, Typed
    <3>5. pc'[t] = "publish" /\ g # None
      BY Zenon, <1>1, <3>1, ArenaConstants DEF Register, Goto, Typed
    <3>6. OwnerOK(t) /\ Issued' = Issued \cup {g} /\ exec'[t].gen = g
      BY <1>1, <3>2, <3>4 DEF Registers
    <3> QED BY Zenon, <1>2, <3>4, <3>5, <3>6 DEF OwnerOK
  <2>2. CASE Publish(t)
    <3>1. PICK g \in Issued : job[t].gens = {g}
      BY <1>1, <2>2 DEF WriterInv, Publish
    <3>2. \/ exec[t].gen = g /\ pc'[t] = "capture" /\ guards' = guards
          \/ pc'[t] = "idle" /\ guards'[t] = guards[t] \cup {g}
      BY <1>1, <2>2, <3>1, OnlyOne DEF Publish, Goto, Typed
    <3>3. exec' = exec /\ record' = record
      BY <2>2 DEF Publish
    <3> QED BY Zenon, <1>1, <1>2, <3>1, <3>2, <3>3 DEF OwnerOK
  <2>3. CASE CaptureIdentity(t)
    <3>1. /\ guards' = guards /\ record' = record /\ exec[t].gen # None
          /\ \/ exec'[t] = NoExecutor /\ pc'[t] \in {"idle", "done"}
             \/ exec' = exec /\ pc'[t] = "registration"
      BY Zenon, <1>1, <2>3 DEF CaptureIdentity, Abandon, Goto, Home, Typed, OwnerOK
    <3> QED BY Zenon, <1>1, <1>2, <1>5, <3>1 DEF OwnerOK
  <2>4. CASE CaptureRegistration(t)
    <3>1. /\ guards' = guards /\ record' = record /\ exec[t].gen # None
          /\ \/ exec'[t] = NoExecutor /\ pc'[t] \in {"idle", "done"}
             \/ exec'[t] = [exec[t] EXCEPT !.registration = TRUE] /\ pc'[t] = "idle"
      BY Zenon, <1>1, <2>4 DEF CaptureRegistration, Abandon, Goto, Home, Typed, OwnerOK
    <3>2. exec'[t] = [exec[t] EXCEPT !.registration = TRUE] => exec'[t].gen = exec[t].gen
      BY <1>a DEF Executors
    <3> QED BY <1>1, <1>2, <1>5, <3>1, <3>2 DEF OwnerOK
  <2>5. CASE DropExecutor(t)
    <3>1. /\ guards' = guards /\ record'[t] = NoRecord
          /\ \/ exec'[t] = NoExecutor /\ pc'[t] \in {"idle", "done"}
             \/ exec' = exec /\ pc'[t] = "remove"
      BY Zenon, <1>1, <2>5 DEF DropExecutor, Goto, Home, Typed
    <3> QED BY Zenon, <1>3, <1>5, <3>1
  <2>6. CASE ExtractArena(t)
    <3>1. exec[t].box /\ exec[t].gen \in Issued
      BY <1>1, <2>6 DEF ExtractArena, OwnerOK
    <3>2. /\ exec'[t] = [exec[t] EXCEPT !.box = FALSE, !.registration = FALSE]
          /\ guards'[t] = guards[t] \cup {exec[t].gen} /\ pc' = pc /\ record' = record /\ pc[t] = "idle"
      BY <1>1, <1>b, <2>6 DEF ExtractArena, Typed
    <3>3. exec'[t].gen = exec[t].gen
      BY <1>a, <3>2 DEF Executors
    <3> QED BY <1>1, <1>2, <3>1, <3>2, <3>3 DEF OwnerOK
  <2>7. ASSUME NEW g \in Generations, DropGuard(t, g) PROVE OwnerOK(t)'
    <3>1. exec' = exec /\ record' = record /\ guards'[t] \subseteq guards[t] /\ pc'[t] = "remove"
      BY Zenon, <1>1, <2>7 DEF DropGuard, Goto, Typed
    <3> QED BY Zenon, <1>1, <1>2, <3>1 DEF OwnerOK
  <2>8. CASE CheckOwnLease(t) \/ Drain(t) \/ DrainUnwinds(t)
    <3>1. /\ guards' = guards /\ record' = record
          /\ \/ exec'[t] = NoExecutor /\ pc'[t] \in {"idle", "done"}
             \/ exec' = exec /\ pc'[t] \in {"idle", "drain"}
      BY ZenonT(60), <1>1, <2>8 DEF CheckOwnLease, Drain, DrainUnwinds, EndRemoval, Goto, Home, Typed
    <3> QED BY Zenon, <1>3, <1>5, <3>1
  <2>9. CASE NewPanics(t)
    <3>1. exec'[t] = NoExecutor /\ guards' = guards /\ record' = record /\ pc'[t] \in {"idle", "done"}
      BY Zenon, <1>1, <2>9 DEF NewPanics, Goto, Home, Typed
    <3> QED BY Zenon, <1>5, <3>1
  <2>10. CASE \E id \in Ids : HostRegisters(t, id)
    <3>1. exec' = exec /\ guards' = guards /\ record' = record /\ pc'[t] = "publish"
      BY Zenon, <1>1, <2>10 DEF HostRegisters, Register, Goto, Typed
    <3> QED BY Zenon, <1>3, <3>1
  <2>11. CASE \/ LeaseById(t) \/ RemoveEntry(t) \/ Unpublish(t) \/ ResetRegistry(t)
              \/ \E id \in Ids : AskById(t, id) \/ UnregisterById(t, id)
              \/ \E g \in Generations : UnregisterIdentity(t, g)
    <3>1. exec' = exec /\ guards' = guards /\ record' = record
      BY Zenon, <2>11 DEF LeaseById, RemoveEntry, Unpublish, ResetRegistry, AskById, UnregisterById, UnregisterIdentity
    <3>2. pc'[t] \in {"idle", "check", "unpublish", "drain", "lease", "remove"}
      BY Zenon, <1>1, <2>11 DEF LeaseById, RemoveEntry, Unpublish, ResetRegistry, AskById, UnregisterById,
                         UnregisterIdentity, Goto, Typed
    <3> QED BY Zenon, <1>3, <3>1, <3>2
  <2>12. CASE \/ \E g \in Generations : LeaseByIdentity(t, g) \/ LeaseByToken(t, g)
              \/ \E l \in held[t] : DropLease(t, l)
    BY Zenon, <1>3, <2>12 DEF LeaseByIdentity, LeaseByToken, DropLease
  <2>13. CASE FinishJoin(t)
    <3>1. exec' = exec /\ guards' = guards /\ record'[t] = NoRecord /\ pc' = pc
      BY Zenon, <1>1, <2>13 DEF FinishJoin, Typed
    <3> QED BY Zenon, <1>3, <3>1
  <2>14. CASE NewThread(t) \/ BeginJoin(t)
    <3>1. exec' = exec /\ guards' = guards /\ pc' = pc
      BY <2>14 DEF NewThread, BeginJoin
    <3>2. \/ record'[t].phase = "new"
          \/ record[t].phase = "started" /\ record'[t].worker = record[t].worker
      BY <1>1, <1>a, <2>14 DEF NewThread, BeginJoin, Typed, Records
    <3> QED BY Zenon, <1>1, <1>2, <3>1, <3>2 DEF OwnerOK
  <2>15. ASSUME NEW w \in Workers, StartThread(t, w) PROVE OwnerOK(t)'
    <3>1. /\ exec' = exec /\ guards' = guards /\ record'[t] = [worker |-> w, phase |-> "started"]
          /\ pc[t] = "idle" /\ pc'[t] = "idle"
      BY Zenon, <1>1, <1>b, <2>15 DEF StartThread, Runs, Goto, Typed
    <3>2. record'[t].phase = "started" /\ record'[t].worker = w
      BY <3>1
    <3> QED BY Zenon, <1>1, <1>2, <3>1, <3>2 DEF OwnerOK
  <2> QED
    BY Zenon, <2>1, <2>2, <2>3, <2>4, <2>5, <2>6, <2>7, <2>8, <2>9, <2>10, <2>11, <2>12, <2>13, <2>14, <2>15
       DEF Steps, Continue
<1> QED BY Zenon, <1>4, <1>6 DEF OwnerInv, OwnerOK

-----------------------------------------------------------------------------
(* What holds of every behaviour *)

(* The inductive invariant is kept by every step. *)
LEMMA StepIInv == IInv /\ [Next]_vars => IInv'
<1>1. ASSUME IInv, NEW t \in Threads, Steps(t) PROVE IInv'
  <2>1. TypeOK'
    <3>1. Typed'
      BY <1>1, TypeStep
    <3> QED BY Zenon, <3>1 DEF TypeOK, Typed, Jobs, Executors, Records, Memory, Leases, Wants
  <2> QED BY <1>1, <2>1, RegistryStep, LeaseStep, WriterStep, JobStep, OwnerStep DEF IInv
<1>2. ASSUME IInv, UNCHANGED vars PROVE IInv'
  <2>1. UNCHANGED <<byId, byToken, idOf, leases, bits, writer, nextId, storage, exec, guards, held, pc, job, record>>
    BY <1>2 DEF vars, registry
  <2>2. (\A g \in Generations : Registered(g)' = Registered(g)) /\ Issued' = Issued
    BY <2>1 DEF Registered, Issued
  <2>3. TypeOK' /\ Numbered' /\ EntriesNamed' /\ IndexesAgree' /\ FastBitsExact' /\ LeaseMatchesIdentity'
    BY Zenon, <1>2, <2>1, <2>2 DEF IInv, TypeOK, Numbered, EntriesNamed, IndexesAgree, FastBitsExact, LeaseMatchesIdentity
  <2>4. LeasesCounted' /\ LeasesIssued'
    BY Zenon, <1>2, <2>1, <2>2 DEF IInv, LeasesCounted, LeasesIssued, HeldOn
  <2>5. WriterInv' /\ OwnerInv'
    BY ZenonT(60), <1>2, <2>1, <2>2 DEF IInv, WriterInv, OwnerInv
  <2>6. JobInv'
    BY Zenon, <1>2, <2>1 DEF IInv, JobInv, Removing, Registered, Issued
  <2> QED BY <2>3, <2>4, <2>5, <2>6 DEF IInv
<1> QED BY Zenon, <1>1, <1>2 DEF Next, Steps

(* ArenaRegistry's maps by id and by token agree and its bitset is exact outside a write
   section; a lease is on the registration it was asked for; and memory under a lease
   is not freed, nor can freed memory be leased. *)
THEOREM RegistryIsSound == Spec => []RegistrySound
<1>1. IInv => RegistrySound
  <2> SUFFICES ASSUME IInv PROVE RegistrySound
    OBVIOUS
  <2>1. LeasedIsNotFreed
    <3> SUFFICES ASSUME NEW t \in Threads, NEW l \in held[t] PROVE storage[l.gen] # "freed"
      BY Zenon DEF LeasedIsNotFreed
    <3> QED BY Zenon, HeldIsCounted DEF IInv, LeasesIssued
  <2>2. FreedIsUnlisted
    BY Zenon DEF IInv, FreedIsUnlisted, LeasesIssued, IndexesAgree
  <2> QED BY <2>1, <2>2 DEF IInv, RegistrySound, RegistryConsistent, LeasesSound
<1> QED BY <1>1, InitIInv, StepIInv, PTL DEF Spec

(* remove_registration with a generation takes away that one only, also after its id has
   been registered again; one by id takes away one. *)
LEMMA OnlyItsOwn ==
    ASSUME IInv, NEW t \in Threads, Steps(t), NEW g \in Generations, Registered(g), ~Registered(g)'
    PROVE  writer' = t /\ job[t].gens \in {{}, {g}}
<1>1. Typed /\ JobInv /\ g \in Issued
  BY Zenon, TypedIsTypeOK DEF IInv, Registered, Issued
<1>2. idOf'[g] = idOf[g] /\ idOf[g] # None /\ idOf[g] \in Ids /\ byId'[idOf[g]] # byId[idOf[g]]
  <2>1. idOf'[g] = idOf[g]
    BY Zenon, <1>1, GoneForGood
  <2> QED BY Zenon, <1>1, <2>1 DEF Registered, Typed
<1>3. byId[idOf[g]] = g
  BY DEF Registered
<1>4. CASE Registering(t)
  <2>1. PICK id \in Ids : byId[id] = None /\ byId' = [byId EXCEPT ![id] = Cardinality(Issued) + 1]
    BY Zenon, <1>4 DEF Registering, Register
  <2>2. idOf[g] = id
    BY Zenon, <1>1, <1>2, <2>1 DEF Typed
  <2> QED BY Zenon, <1>3, <2>1, <2>2, ArenaConstants
<1>5. CASE RemoveEntry(t) /\ writer' = t
  <2>1. pc[t] = "remove"
    BY <1>5 DEF RemoveEntry
  <2>2. job[t].id \in Ids /\ (job[t].gens = {} \/ \E h \in Generations : job[t].gens = {h})
    BY Zenon, <1>1, <2>1 DEF JobInv
  <2>3. Unlist({byId[job[t].id]}) /\ (byId[job[t].id] \in job[t].gens \/ job[t].gens = {})
    BY <1>2, <1>5 DEF RemoveEntry
  <2>4. byId[job[t].id] = g
    BY Zenon, <1>2, <1>3, <2>3 DEF Unlist
  <2> QED BY Zenon, <1>5, <2>2, <2>3, <2>4
<1>6. CASE ResetRegistry(t)
  <2>1. pc[t] = "idle" /\ writer' = t
    BY Zenon, <1>6 DEF ResetRegistry, Free
  <2> QED BY Zenon, <1>1, <2>1 DEF JobInv, Removing
<1>7. CASE Publish(t) \/ Unpublish(t) \/ Outside(t)
  BY <1>2, <1>7 DEF Publish, Unpublish, Outside
<1> QED BY Zenon, <1>4, <1>5, <1>6, <1>7, WriterSteps

(* Thread.Join ends after the worker's closure has, and that after its teardown. *)
LEMMA JoinsLate ==
    ASSUME IInv, NEW t \in Threads, Steps(t), NEW u \in Threads,
           record[u].phase = "joining", record'[u].phase = "none"
    PROVE  exec[record[u].worker] = NoExecutor /\ writer # record[u].worker
<1>1. Typed /\ OwnerInv /\ WriterInv
  BY TypedIsTypeOK DEF IInv
<1>2. record' # record /\ ~Free(u)
  BY DEF Free
<1>3. u = t
  <2>1. u # t => record'[u] = record[u]
    BY Zenon, OthersKept
  <2> QED BY <2>1
<1>4. FinishJoin(t)
  <2>1. ~(NewExecutor(t) \/ NewPanics(t) \/ DropExecutor(t) \/ ExtractArena(t) \/ ResetRegistry(t)
          \/ NewThread(t) \/ BeginJoin(t))
    BY <1>2, <1>3 DEF NewExecutor, NewPanics, DropExecutor, ExtractArena, ResetRegistry, NewThread, BeginJoin, Runs
  <2>2. ~(Publish(t) \/ CaptureIdentity(t) \/ CaptureRegistration(t) \/ LeaseById(t) \/ RemoveEntry(t)
          \/ Unpublish(t) \/ CheckOwnLease(t) \/ Drain(t) \/ DrainUnwinds(t))
    BY <1>2 DEF Publish, CaptureIdentity, CaptureRegistration, LeaseById, RemoveEntry, Unpublish,
                CheckOwnLease, Drain, DrainUnwinds
  <2>3. ~\E id \in Ids : HostRegisters(t, id) \/ AskById(t, id) \/ UnregisterById(t, id)
    BY Zenon, <1>2, <1>3 DEF HostRegisters, AskById, MayLease, UnregisterById
  <2>4. ~\E g \in Generations :
            LeaseByIdentity(t, g) \/ LeaseByToken(t, g) \/ DropGuard(t, g) \/ UnregisterIdentity(t, g)
    BY Zenon, <1>2, <1>3 DEF LeaseByIdentity, LeaseByToken, MayLease, DropGuard, UnregisterIdentity
  <2>5. ~(\E l \in held[t] : DropLease(t, l)) /\ ~\E w \in Workers : StartThread(t, w)
    BY Zenon, <1>2, <1>3 DEF DropLease, StartThread, Runs
  <2> QED BY Zenon, <2>1, <2>2, <2>3, <2>4, <2>5 DEF Steps, Continue
<1>5. record[u].worker \in Threads
  BY Zenon, <1>1, ArenaConstants DEF OwnerInv
<1>6. pc[record[u].worker] = "done"
  BY Zenon, <1>3, <1>4 DEF FinishJoin
<1> QED BY Zenon, <1>1, <1>5, <1>6 DEF OwnerInv, WriterInv

(* unregister_arena, with a generation or by id, takes away one registration, which is
   that one; and when Thread.Join returns the worker's teardown is over. *)
THEOREM TeardownsAreExact == Spec => TeardownIsExact
<1> DEFINE Exact == \A g \in Generations : Registered(g) /\ ~Registered(g)' =>
                      \E t \in Threads : writer' = t /\ job[t].gens \in {{}, {g}}
           Late == \A t \in Threads : record[t].phase = "joining" /\ record'[t].phase = "none" =>
                     exec[record[t].worker] = NoExecutor /\ writer # record[t].worker
<1>1. IInv /\ [Next]_vars => [Exact /\ Late]_vars
  <2> SUFFICES ASSUME IInv, NEW t \in Threads, Steps(t) PROVE Exact /\ Late
    BY Zenon DEF Next, Steps
  <2>1. Exact
    BY Zenon, OnlyItsOwn
  <2>2. Late
    BY Zenon, JoinsLate
  <2> QED BY Zenon, <2>1, <2>2
<1>2. Spec => [][Exact /\ Late]_vars
  BY <1>1, InitIInv, StepIInv, PTL DEF Spec
<1>3. [Exact /\ Late]_vars => [Exact]_vars /\ [Late]_vars
  BY Zenon
<1>4. Spec => [][Exact]_vars /\ [][Late]_vars
  BY <1>2, <1>3, PTL
<1> QED BY <1>4 DEF TeardownIsExact, RemovalIsExact, JoinAfterTeardown
=============================================================================
