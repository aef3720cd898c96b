---------------------------- MODULE PlatformProofs ----------------------------
(***************************************************************************)
(* Proofs about Platform, and about Enrolment, of which every process is   *)
(* one, for every number of faults and blocks.  A certificate is replaced  *)
(* only after all its reads have failed; and each fault costs one block or *)
(* announcement at most.                                                   *)
(***************************************************************************)
EXTENDS Platform, FiniteSetTheorems, TLAPS

-----------------------------------------------------------------------------
(* Enrolment.  Its types and CertificateKept are not inductive as they     *)
(* stand; what a process has missed when it comes to a step makes them so. *)

\* What the process has missed when it is about to replace a certificate.
MissedAll ==
    /\ pc = "caGet" /\ InWallet("caAdmin") => missed["caAdmin"] >= 1
    /\ pc \in {"caEnroll", "caPut"} /\ InWallet("caAdmin") => missed["caAdmin"] >= 2
    /\ pc \in {"orgEnroll", "orgPut"} /\ InWallet("orgAdmin") => missed["orgAdmin"] >= 1

\* How many reads may have failed when a step comes next.
MissedFew ==
    /\ pc = "start" => missed["caAdmin"] = 0
    /\ pc = "caGet" => missed["caAdmin"] <= 1
    /\ pc \in {"start", "caGet", "caEnroll", "caPut", "orgGet"} => missed["orgAdmin"] = 0
    /\ pc \in {"orgEnroll", "orgPut", "connect", "connectSecond"} => missed["orgAdmin"] <= 1

IInv == EnrolmentTypeOK /\ MissedAll /\ MissedFew

\* A new process has missed nothing.
LEMMA InitIInv == Init => IInv
  <1> SUFFICES ASSUME Init PROVE IInv
    OBVIOUS
  <1>1. EnrolmentTypeOK
    <2>1. pc = "start" /\ issued = 0 /\ faults = 0 /\ ca = FALSE /\ flags = FALSE
      BY DEF Init
    <2>2. wallet \in [Label -> 0 .. issued] /\ missed \in [Label -> 0 .. 2]
      BY <2>1 DEF Init, None
    <2>3. faults \in 0 .. MaxFaults
      BY <2>1, EnrolmentAssumption
    <2> QED  BY <2>1, <2>2, <2>3 DEF EnrolmentTypeOK
  <1>2. MissedAll /\ MissedFew
    BY DEF Init, MissedAll, MissedFew, Label
  <1> QED  BY <1>1, <1>2 DEF IInv

\* A read of the wallet that finds nothing: there is nothing, or one more has failed.
LEMMA FindsNoneCounts ==
  ASSUME IInv, NEW l \in Label, FindsNone(l), missed[l] <= 1
  PROVE  /\ missed' \in [Label -> 0 .. 2]
         /\ faults' \in 0 .. MaxFaults
         /\ InWallet(l) => missed'[l] = missed[l] + 1
         /\ ~InWallet(l) => missed'[l] = missed[l]
         /\ \A k \in Label \ {l} : missed'[k] = missed[k]
  <1>1. missed \in [Label -> 0 .. 2] /\ faults \in 0 .. MaxFaults
    BY DEF IInv, EnrolmentTypeOK
  <1>2. CASE ~InWallet(l)
    BY <1>1, <1>2 DEF FindsNone
  <1>3. CASE InWallet(l)
    <2>1. faults < MaxFaults /\ faults' = faults + 1
          /\ missed' = [missed EXCEPT ![l] = @ + 1]
      BY <1>3 DEF FindsNone, Fault
    <2> QED  BY <1>1, <1>3, <2>1, EnrolmentAssumption
  <1> QED  BY <1>2, <1>3

\* A read that fails is one more missed.
LEMMA ReadCaAdminKeeps == IInv /\ ReadCaAdmin => IInv'
  <1> SUFFICES ASSUME IInv, ReadCaAdmin PROVE IInv'
    OBVIOUS
  <1> USE DEF IInv, EnrolmentTypeOK, MissedAll, MissedFew, Label, None, InWallet
  <1>1. pc = "start" /\ UNCHANGED <<wallet, issued>>
    BY DEF ReadCaAdmin
  <1>2. CASE Finds("caAdmin") /\ flags' = TRUE /\ pc' = "orgGet" /\ UNCHANGED ca
    BY <1>1, <1>2 DEF Finds
  <1>3. CASE FindsNone("caAdmin") /\ ca' = TRUE /\ pc' = "caGet" /\ UNCHANGED flags
    BY <1>1, <1>3, FindsNoneCounts
  <1> QED  BY <1>2, <1>3 DEF ReadCaAdmin

\* The second read of the CA admin, before its enrolment,
LEMMA GetCaAdminKeeps == IInv /\ GetCaAdmin => IInv'
  <1> SUFFICES ASSUME IInv, GetCaAdmin PROVE IInv'
    OBVIOUS
  <1> USE DEF IInv, EnrolmentTypeOK, MissedAll, MissedFew, Label, None, InWallet
  <1>1. pc = "caGet" /\ UNCHANGED <<wallet, ca, flags, issued>>
    BY DEF GetCaAdmin
  <1>2. CASE Finds("caAdmin") /\ pc' = "failed"
    BY <1>1, <1>2 DEF Finds
  <1>3. CASE FindsNone("caAdmin") /\ pc' = "caEnroll"
    BY <1>1, <1>3, FindsNoneCounts
  <1> QED  BY <1>2, <1>3 DEF GetCaAdmin

\* and the one read of the other admin.
LEMMA GetOrgAdminKeeps == IInv /\ GetOrgAdmin => IInv'
  <1> SUFFICES ASSUME IInv, GetOrgAdmin PROVE IInv'
    OBVIOUS
  <1> USE DEF IInv, EnrolmentTypeOK, MissedAll, MissedFew, Label, None, InWallet
  <1>1. pc = "orgGet" /\ UNCHANGED <<wallet, ca, flags, issued>>
    BY DEF GetOrgAdmin
  <1>2. CASE Finds("orgAdmin") /\ pc' = "connect"
    BY <1>1, <1>2 DEF Finds
  <1>3. CASE FindsNone("orgAdmin") /\ pc' = "orgEnroll"
    <2>1. missed' \in [Label -> 0 .. 2] /\ faults' \in 0 .. MaxFaults
          /\ (InWallet("orgAdmin") => missed'["orgAdmin"] = 1)
          /\ (~InWallet("orgAdmin") => missed'["orgAdmin"] = 0)
      BY <1>1, <1>3, FindsNoneCounts
    <2>2. flags
      BY <1>1
    <2> QED  BY <1>1, <1>3, <2>1, <2>2
  <1> QED  BY <1>2, <1>3 DEF GetOrgAdmin

\* The authority issues a certificate nobody has yet.
LEMMA EnrollKeeps == IInv /\ (EnrollCaAdmin \/ EnrollOrgAdmin) => IInv'
  <1> SUFFICES ASSUME IInv, EnrollCaAdmin \/ EnrollOrgAdmin PROVE IInv'
    OBVIOUS
  <1> USE EnrolmentAssumption
      DEF IInv, EnrolmentTypeOK, MissedAll, MissedFew, Label, None, InWallet, Enroll, Fault
  <1>1. CASE EnrollCaAdmin
    BY <1>1 DEF EnrollCaAdmin
  <1>2. CASE EnrollOrgAdmin
    BY <1>2 DEF EnrollOrgAdmin
  <1> QED  BY <1>1, <1>2

\* The wallet holds what was issued.
LEMMA PutKeeps == IInv /\ (PutCaAdmin \/ PutOrgAdmin) => IInv'
  <1> SUFFICES ASSUME IInv, PutCaAdmin \/ PutOrgAdmin PROVE IInv'
    OBVIOUS
  <1> USE EnrolmentAssumption
      DEF IInv, EnrolmentTypeOK, MissedAll, MissedFew, Label, None, InWallet, Put, Fault
  <1>1. CASE PutCaAdmin
    BY <1>1 DEF PutCaAdmin
  <1>2. CASE PutOrgAdmin
    BY <1>2 DEF PutOrgAdmin
  <1> QED  BY <1>1, <1>2

\* Connections concern no certificate.
LEMMA ConnectKeeps == IInv /\ (ConnectGateway \/ ConnectNonDiscovery) => IInv'
  <1> SUFFICES ASSUME IInv, NEW from \in {"connect", "connectSecond"},
                      NEW to \in {"connectSecond", "up"}, Connect(from, to)
               PROVE  IInv'
    BY DEF ConnectGateway, ConnectNonDiscovery
  <1> USE EnrolmentAssumption
      DEF IInv, EnrolmentTypeOK, MissedAll, MissedFew, Label, None, InWallet
  <1>1. pc = from /\ UNCHANGED <<wallet, ca, flags, issued>>
    BY DEF Connect
  <1>2. CASE Finds("orgAdmin") /\ pc' = to
    BY <1>1, <1>2 DEF Finds
  <1>3. CASE FindsNone("orgAdmin") /\ pc' = "failed"
    BY <1>1, <1>3, FindsNoneCounts
  <1>4. CASE Fault /\ pc' = "failed" /\ UNCHANGED missed
    BY <1>1, <1>4 DEF Fault
  <1> QED  BY <1>2, <1>3, <1>4 DEF Connect

\* A restart forgets what was missed.
LEMMA NewProcessKeeps == IInv /\ Restart => IInv'
  <1> SUFFICES ASSUME IInv, Restart PROVE IInv'
    OBVIOUS
  <1>1. NewProcess /\ faults' \in 0 .. MaxFaults
    BY EnrolmentAssumption
    DEF IInv, EnrolmentTypeOK, Restart, Fault
  <1>2. EnrolmentTypeOK'
    <2>1. missed' \in [Label -> 0 .. 2]
      BY <1>1 DEF NewProcess
    <2> QED  BY <1>1, <2>1 DEF IInv, EnrolmentTypeOK, NewProcess
  <1>3. MissedAll' /\ MissedFew'
    BY <1>1 DEF NewProcess, MissedAll, MissedFew, Label
  <1> QED  BY <1>2, <1>3 DEF IInv

\* A fault of another part concerns no certificate either.
LEMMA FaultElsewhereKeeps == IInv /\ FaultElsewhere => IInv'
  BY EnrolmentAssumption
  DEF FaultElsewhere, Fault, IInv, EnrolmentTypeOK, MissedAll, MissedFew, InWallet

\* Every step keeps the invariant of the enrolment.
LEMMA StepIInv == IInv /\ [Next]_vars => IInv'
  <1> SUFFICES ASSUME IInv, [Next]_vars PROVE IInv'
    OBVIOUS
  <1>1. CASE Initialize
    BY <1>1, ReadCaAdminKeeps, GetCaAdminKeeps, GetOrgAdminKeeps, EnrollKeeps, PutKeeps,
       ConnectKeeps DEF Initialize
  <1>2. CASE Restart
    BY <1>2, NewProcessKeeps
  <1>3. CASE FaultElsewhere
    BY <1>3, FaultElsewhereKeeps
  <1>4. CASE UNCHANGED vars
    BY <1>4 DEF vars, IInv, EnrolmentTypeOK, MissedAll, MissedFew, InWallet
  <1> QED  BY <1>1, <1>2, <1>3, <1>4 DEF Next

\* The types of the enrolment, which say as well that the client of the authority is
\* there whenever the CA admin is enrolled and the flags whenever the other one is.
THEOREM EnrolmentTypesKept == Spec => []EnrolmentTypeOK
  <1>1. IInv => EnrolmentTypeOK
    BY DEF IInv
  <1> QED  BY InitIInv, StepIInv, <1>1, PTL DEF Spec

\* One step replaces a certificate only when all reads of it have failed.
LEMMA StepKeepsCertificate ==
  ASSUME IInv, [Next]_vars, NEW l \in Label, InWallet(l), wallet'[l] # wallet[l]
  PROVE  missed[l] >= Asked(l)
  <1> USE DEF IInv, EnrolmentTypeOK, MissedAll, Label, Asked
  <1>1. CASE PutCaAdmin
    BY <1>1 DEF PutCaAdmin, Put
  <1>2. CASE PutOrgAdmin
    BY <1>2 DEF PutOrgAdmin, Put
  <1>3. CASE UNCHANGED wallet
    BY <1>3
  <1>4. PutCaAdmin \/ PutOrgAdmin \/ UNCHANGED wallet
    BY DEF Next, Initialize, ReadCaAdmin, GetCaAdmin, EnrollCaAdmin, GetOrgAdmin,
       EnrollOrgAdmin, Enroll, ConnectGateway, ConnectNonDiscovery, Connect,
       Restart, NewProcess, FaultElsewhere, vars
  <1> QED  BY <1>1, <1>2, <1>3, <1>4

\* A certificate in the wallet is replaced by initialize only when every read of it in
\* that process has failed, with any number of faults, crashes and restarts.
THEOREM CertificateIsKept == Spec => CertificateKept
  <1>1. IInv /\ [Next]_vars =>
          [\A l \in Label :
              InWallet(l) /\ wallet'[l] # wallet[l] => missed[l] >= Asked(l)]_vars
    BY StepKeepsCertificate
  <1> QED  BY InitIInv, StepIInv, <1>1, PTL DEF Spec, CertificateKept


-----------------------------------------------------------------------------
(* Platform: its process goes through the steps of Enrolment.              *)

\* A step of the platform is one of the enrolment, or none.
LEMMA StepEnrols == [PlatformNext]_pvars => [Next]_vars
  <1> SUFFICES ASSUME [PlatformNext]_pvars PROVE [Next]_vars
    OBVIOUS
  <1>1. CASE InitGateway
    BY <1>1 DEF InitGateway, Next
  <1>2. CASE InitFails
    <2>1. CASE steps = 4 /\ pc = "failed" /\ UNCHANGED faults
      BY <1>2, <2>1 DEF InitFails, vars
    <2>2. CASE steps # 4 /\ FaultElsewhere
      BY <2>2 DEF Next
    <2> QED  BY <1>2, <2>1, <2>2 DEF InitFails
  <1>3. CASE Exit \/ Crash
    BY <1>3 DEF Exit, Crash, Again, Restart, Next
  <1>4. CASE Listen \/ InitStep \/ StartSync \/ StartHttp
    BY <1>4 DEF Listen, InitStep, StartSync, StartHttp, vars
  <1>5. CASE BlockArrives \/ Tick \/ Job \/ Disconnect
    BY <1>5 DEF BlockArrives, Tick, Job, JobBegins, JobReads, JobStores, JobLists, JobFlags,
                JobTells, Disconnect, vars
  <1>6. CASE JobFails
    BY <1>6 DEF JobFails, Next
  <1>7. CASE UNCHANGED pvars
    BY <1>7 DEF pvars, vars
  <1> QED  BY <1>1, <1>2, <1>3, <1>4, <1>5, <1>6, <1>7 DEF PlatformNext, App

\* Whatever step of initialize fails and wherever the process ends, the gateway's part
\* of it goes through the steps of Enrolment.
THEOREM PlatformEnrols == PlatformSpec => Spec
  <1>1. PlatformInit => Init
    BY DEF PlatformInit
  <1> QED  BY <1>1, StepEnrols, PTL DEF PlatformSpec, Spec

\* Over all restarts of the platform, a certificate in the wallet is replaced only when
\* every read of it by the process had failed.
THEOREM PlatformKeepsCertificates == PlatformSpec => CertificateKept
  BY PlatformEnrols, CertificateIsKept


-----------------------------------------------------------------------------
(* Platform: the inductive invariant behind its types and FewUntold.       *)

\* The parts are made in their order, and nothing runs or is taken down before all are.
MadeInOrder ==
    /\ steps >= Steps - 1 => hub
    /\ app \in {"init", "exiting"} => steps < Steps /\ closing = 0 /\ job = "none"

\* The block a job is to flag, the latest it has listed, is not flagged, and the one it is
\* to announce is flagged and announced to nobody.
JobFits ==
    /\ job \in {"flag", "tell"} => listed > 0
    /\ job = "flag" => listed \notin verified
    /\ job = "tell" => listed \in verified \ told

PInv == PlatformTypeOK /\ MadeInOrder /\ JobFits /\ FewUntold

\* The blocks that are listed and not announced are as many as their numbers say.
LEMMA UntoldFinite ==
  ASSUME NEW n \in Nat, NEW S
  PROVE  IsFiniteSet((1 .. n) \ S) /\ Cardinality((1 .. n) \ S) \in Nat
  <1>1. IsFiniteSet(1 .. n)
    BY FS_Interval
  <1>2. IsFiniteSet((1 .. n) \ S)
    BY <1>1, FS_Subset
  <1> QED  BY <1>2, FS_CardinalityType

\* The platform starts with no part made.
LEMMA PlatformInitPInv == PlatformInit => PInv
  <1> SUFFICES ASSUME PlatformInit PROVE PInv
    OBVIOUS
  <1>1. EnrolmentTypeOK
    BY InitIInv DEF PlatformInit, IInv
  <1>2. PlatformTypeOK
    <2>1. {hub, subs, requested} \subseteq BOOLEAN
      BY DEF PlatformInit
    <2>2. {upTo, height, listed} \subseteq 0 .. MaxBlock
      BY PlatformAssumption DEF PlatformInit
    <2> QED  BY <1>1, <2>1, <2>2 DEF PlatformInit, PlatformTypeOK, Steps
  <1>3. MadeInOrder /\ JobFits
    BY DEF PlatformInit, MadeInOrder, JobFits, Steps
  <1>4. FewUntold
    <2>1. (1 .. listed) \ told = {} /\ faults = 0 /\ job = "none"
      BY DEF PlatformInit, Init
    <2> QED  BY <2>1, FS_EmptySet DEF FewUntold
  <1> QED  BY <1>2, <1>3, <1>4 DEF PInv

\* Steps of the parts that are not the synchronizer's leave what is listed and told alone,
\* and those that end no process leave the job alone.
LEMMA MakingKeeps ==
  ASSUME PInv, EnrolmentTypeOK',
         InitGateway \/ Listen \/ InitStep \/ InitFails \/ StartSync \/ StartHttp
  PROVE  PInv'
  <1> USE PlatformAssumption, EnrolmentAssumption DEF PInv, Steps
  <1>1. UNCHANGED <<requested, job, upTo, height, listed, verified, told, closing>>
    BY DEF InitGateway, Listen, InitStep, InitFails, StartSync, StartHttp, sync
  <1>2. faults' \in Nat /\ faults \in Nat /\ faults' >= faults
    <2>1. faults \in 0 .. MaxFaults /\ faults' \in 0 .. MaxFaults
      BY DEF PlatformTypeOK, EnrolmentTypeOK
    <2>2. CASE InitGateway
      BY <2>1, <2>2
      DEF InitGateway, Initialize, ReadCaAdmin, GetCaAdmin, EnrollCaAdmin, PutCaAdmin,
          GetOrgAdmin, EnrollOrgAdmin, PutOrgAdmin, Enroll, Put, ConnectGateway,
          ConnectNonDiscovery, Connect, Finds, FindsNone, Fault
    <2>3. CASE InitFails
      BY <2>1, <2>3 DEF InitFails, FaultElsewhere, Fault
    <2>4. CASE Listen \/ InitStep \/ StartSync \/ StartHttp
      BY <2>1, <2>4 DEF Listen, InitStep, StartSync, StartHttp, vars
    <2> QED  BY <2>1, <2>2, <2>3, <2>4
  <1>3. PlatformTypeOK' /\ MadeInOrder'
    <2>1. CASE InitGateway
      BY <1>1, <2>1 DEF InitGateway, PlatformTypeOK, MadeInOrder, sync
    <2>2. CASE Listen
      BY <1>1, <2>2 DEF Listen, PlatformTypeOK, MadeInOrder, sync, vars
    <2>3. CASE InitStep
      BY <1>1, <2>3 DEF InitStep, PlatformTypeOK, MadeInOrder, sync, vars
    <2>4. CASE InitFails
      BY <1>1, <2>4 DEF InitFails, FaultElsewhere, PlatformTypeOK, MadeInOrder, sync
    <2>5. CASE StartSync
      BY <1>1, <2>5 DEF StartSync, PlatformTypeOK, MadeInOrder, vars
    <2>6. CASE StartHttp
      BY <1>1, <2>6 DEF StartHttp, PlatformTypeOK, MadeInOrder, sync, vars
    <2> QED  BY <2>1, <2>2, <2>3, <2>4, <2>5, <2>6
  <1>4. JobFits'
    BY <1>1 DEF JobFits
  <1>5. FewUntold'
    <2>1. listed \in Nat
      BY DEF PlatformTypeOK
    <2>2. Cardinality((1 .. listed) \ told) \in Nat
      BY <2>1, UntoldFinite
    <2> QED  BY <1>1, <1>2, <2>2 DEF FewUntold
  <1> QED  BY <1>3, <1>4, <1>5

\* A process that ends between the list and the announcement costs a block, and a fault.
LEMMA AgainKeeps ==
  ASSUME PInv, EnrolmentTypeOK', Exit \/ Crash
  PROVE  PInv'
  <1> USE PlatformAssumption, EnrolmentAssumption DEF PInv, Steps
  <1>1. Again /\ closing = 0
    BY DEF Exit, Crash, MadeInOrder
  <1>2. PlatformTypeOK' /\ MadeInOrder' /\ JobFits'
    <2>1. {hub', subs', requested'} \subseteq BOOLEAN
      BY <1>1 DEF Again
    <2>2. /\ {upTo', height', listed'} \subseteq 0 .. MaxBlock
          /\ told' \subseteq verified' /\ verified' \subseteq 1 .. listed'
          /\ upTo' <= height'
      BY <1>1 DEF Again, PlatformTypeOK
    <2>3. /\ app' = "init" /\ steps' = 0 /\ closing' = 0 /\ job' = "none" /\ subs' = FALSE
      BY <1>1 DEF Again
    <2> QED  BY <2>1, <2>2, <2>3 DEF PlatformTypeOK, MadeInOrder, JobFits
  <1>3. FewUntold'
    <2>1. listed \in Nat /\ faults \in Nat
      BY DEF PlatformTypeOK, EnrolmentTypeOK
    <2>2. Cardinality((1 .. listed) \ told) \in Nat
      BY <2>1, UntoldFinite
    <2>3. UNCHANGED <<listed, told>> /\ job' = "none"
      BY <1>1 DEF Again
    <2>4. CASE Exit
      <3>1. job = "none" /\ faults' = faults
        BY <2>4 DEF Exit, MadeInOrder
      <3> QED  BY <1>1, <2>1, <2>2, <2>3, <3>1 DEF FewUntold
    <2>5. CASE Crash
      <3>1. faults' = faults + 1
        BY <2>5 DEF Crash, Fault
      <3> QED  BY <1>1, <2>1, <2>2, <2>3, <3>1 DEF FewUntold
    <2> QED  BY <2>4, <2>5
  <1> QED  BY <1>2, <1>3

\* Blocks, timers, the start of a job and disconnect touch neither tables nor announcements.
LEMMA TimersKeep ==
  ASSUME PInv, EnrolmentTypeOK',
         BlockArrives \/ Tick \/ JobBegins \/ JobReads \/ Disconnect
  PROVE  PInv'
  <1> USE PlatformAssumption DEF PInv, Steps
  <1>1. UNCHANGED <<vars, app, steps, hub, listed, verified, told>>
    BY DEF BlockArrives, Tick, JobBegins, JobReads, Disconnect
  <1>2. faults' = faults
    BY <1>1 DEF vars
  <1>3. PlatformTypeOK' /\ MadeInOrder' /\ JobFits'
    <2>1. CASE BlockArrives
      BY <1>1, <2>1 DEF BlockArrives, PlatformTypeOK, MadeInOrder, JobFits, vars
    <2>2. CASE Tick
      BY <1>1, <2>2 DEF Tick, PlatformTypeOK, MadeInOrder, JobFits, vars
    <2>3. CASE JobBegins
      <3>1. {hub', subs', requested'} \subseteq BOOLEAN
        BY <1>1, <2>3 DEF JobBegins, PlatformTypeOK
      <3>2. job = "none" /\ job' = "read" /\ subs /\ UNCHANGED <<subs, upTo, height, closing>>
        BY <2>3 DEF JobBegins
      <3> QED  BY <1>1, <3>1, <3>2 DEF PlatformTypeOK, MadeInOrder, JobFits, vars
    <2>4. CASE JobReads
      BY <1>1, <2>4 DEF JobReads, PlatformTypeOK, MadeInOrder, JobFits, vars
    <2>5. CASE Disconnect
      BY <1>1, <2>5 DEF Disconnect, PlatformTypeOK, MadeInOrder, JobFits, vars
    <2> QED  BY <2>1, <2>2, <2>3, <2>4, <2>5
  <1>4. FewUntold'
    <2>1. closing' = 0 => closing = 0
      BY DEF BlockArrives, Tick, JobBegins, JobReads, Disconnect, PlatformTypeOK
    <2>2. job' = job \/ (job \notin {"flag", "tell"} /\ job' \notin {"flag", "tell"})
      BY DEF BlockArrives, Tick, JobBegins, JobReads, Disconnect
    <2> QED  BY <1>1, <1>2, <2>1, <2>2 DEF FewUntold
  <1> QED  BY <1>3, <1>4

\* The rows of a block count for nothing until it is listed.
LEMMA JobStoresKeeps ==
  ASSUME PInv, JobStores
  PROVE  PInv'
  <1> USE PlatformAssumption DEF PInv, Steps
  <1>1. /\ job = "store" /\ job' \in {"none", "list"} /\ UNCHANGED vars
        /\ UNCHANGED <<app, steps, hub, subs, requested, upTo, height, listed, verified, told,
                       closing>>
    BY DEF JobStores, around
  <1>2. faults' = faults /\ EnrolmentTypeOK' /\ pc' = pc
    BY <1>1 DEF vars, PlatformTypeOK, EnrolmentTypeOK, Label, None
  <1> QED  BY <1>1, <1>2 DEF PlatformTypeOK, MadeInOrder, JobFits, FewUntold

\* A block that has just been listed is not flagged, nor its commit announced; it is the one
\* that a fault may cost from here on.
LEMMA JobListsKeeps ==
  ASSUME PInv, JobLists
  PROVE  PInv'
  <1> USE PlatformAssumption DEF PInv, Steps
  <1>1. /\ job = "list" /\ UNCHANGED vars
        /\ UNCHANGED <<app, steps, hub, subs, requested, upTo, height, verified, told, closing>>
    BY DEF JobLists, around
  <1>2. faults' = faults /\ EnrolmentTypeOK' /\ pc' = pc
    BY <1>1 DEF vars, PlatformTypeOK, EnrolmentTypeOK, Label, None
  <1>3. /\ listed \in Nat /\ faults \in Nat
        /\ verified \subseteq 1 .. listed /\ told \subseteq 1 .. listed
    BY DEF PlatformTypeOK, EnrolmentTypeOK
  <1>4. CASE ConnectionClosed
    <2>1. job' = "none" /\ listed' = listed /\ closing = 5
      BY <1>4 DEF JobLists, ConnectionClosed
    <2> QED
      BY <1>1, <1>2, <2>1 DEF PlatformTypeOK, MadeInOrder, JobFits, FewUntold
  <1>5. CASE ~ConnectionClosed
    <2>1. job' = "flag" /\ listed' = listed + 1 /\ listed < upTo
      BY <1>1, <1>5 DEF JobLists, PlatformTypeOK
    <2>2. listed + 1 \notin verified /\ listed + 1 \notin told
      BY <1>3
    <2>3. PlatformTypeOK' /\ MadeInOrder' /\ JobFits'
      BY <1>1, <1>2, <1>3, <2>1, <2>2 DEF PlatformTypeOK, MadeInOrder, JobFits
    <2>4. (1 .. listed + 1) \ told = ((1 .. listed) \ told) \cup {listed + 1}
      BY <1>3
    <2>5. /\ Cardinality((1 .. listed + 1) \ told) = Cardinality((1 .. listed) \ told) + 1
          /\ Cardinality((1 .. listed) \ told) \in Nat
      <3>1. /\ IsFiniteSet((1 .. listed) \ told) /\ Cardinality((1 .. listed) \ told) \in Nat
            /\ listed + 1 \notin (1 .. listed) \ told
        BY <1>3, UntoldFinite
      <3>2. Cardinality(((1 .. listed) \ told) \cup {listed + 1})
              = Cardinality((1 .. listed) \ told) + 1
        BY <3>1, FS_AddElement
      <3> QED  BY <2>4, <3>1, <3>2
    <2>6. FewUntold'
      BY <1>1, <1>2, <1>3, <2>1, <2>5 DEF FewUntold
    <2> QED  BY <2>3, <2>6
  <1> QED  BY <1>4, <1>5

\* The flag saves the block; the announcement may still be lost.
LEMMA JobFlagsKeeps ==
  ASSUME PInv, JobFlags
  PROVE  PInv'
  <1> USE PlatformAssumption DEF PInv, Steps
  <1>1. /\ job = "flag" /\ UNCHANGED vars
        /\ UNCHANGED <<app, steps, hub, subs, requested, upTo, height, listed, told, closing>>
    BY DEF JobFlags, around
  <1>2. faults' = faults /\ EnrolmentTypeOK' /\ pc' = pc
    BY <1>1 DEF vars, PlatformTypeOK, EnrolmentTypeOK, Label, None
  <1>3. /\ listed \in 1 .. listed /\ verified \subseteq 1 .. listed /\ told \subseteq verified
        /\ listed \notin verified
    BY <1>1 DEF PlatformTypeOK, JobFits
  <1>4. CASE ConnectionClosed
    <2>1. job' = "none" /\ verified' = verified /\ closing = 5
      BY <1>4 DEF JobFlags, ConnectionClosed
    <2> QED
      BY <1>1, <1>2, <2>1 DEF PlatformTypeOK, MadeInOrder, JobFits, FewUntold
  <1>5. CASE ~ConnectionClosed
    <2>1. job' = "tell" /\ verified' = verified \cup {listed}
      BY <1>5 DEF JobFlags
    <2>2. /\ verified' \subseteq 1 .. listed /\ told \subseteq verified'
          /\ listed \in verified' \ told
      BY <1>3, <2>1
    <2>3. PlatformTypeOK' /\ MadeInOrder' /\ JobFits'
      BY <1>1, <1>2, <2>1, <2>2 DEF PlatformTypeOK, MadeInOrder, JobFits
    <2>4. FewUntold'
      BY <1>1, <1>2, <2>1 DEF FewUntold
    <2> QED  BY <2>3, <2>4
  <1> QED  BY <1>4, <1>5

\* While the message center is open, what is announced is told.
LEMMA JobTellsKeeps ==
  ASSUME PInv, JobTells
  PROVE  PInv'
  <1> USE PlatformAssumption DEF PInv, Steps
  <1>1. /\ job = "tell" /\ UNCHANGED vars
        /\ UNCHANGED <<app, steps, hub, subs, requested, upTo, height, listed, verified, closing>>
        /\ told' = told \cup {b \in {listed} : ~MessagesClosed}
        /\ job' = IF listed < upTo THEN "store" ELSE "none"
    BY DEF JobTells, NextOrEnd, around
  <1>2. faults' = faults /\ EnrolmentTypeOK' /\ pc' = pc
    BY <1>1 DEF vars, PlatformTypeOK, EnrolmentTypeOK, Label, None
  <1>3. /\ listed \in Nat /\ faults \in Nat /\ told \subseteq verified
        /\ verified \subseteq 1 .. listed /\ listed \in verified \ told
    BY <1>1 DEF PlatformTypeOK, EnrolmentTypeOK, JobFits
  <1>4. PlatformTypeOK' /\ MadeInOrder' /\ JobFits'
    <2>1. told' \subseteq verified
      <3>1. told' \subseteq told \cup {listed}
        BY <1>1
      <3> QED  BY <1>3, <3>1
    <2>2. job' \in {"store", "none"} /\ (job' = "store" => listed < upTo)
      BY <1>1
    <2> QED
      BY <1>1, <1>2, <1>3, <2>1, <2>2 DEF PlatformTypeOK, MadeInOrder, JobFits
  <1>5. FewUntold'
    <2> SUFFICES ASSUME closing = 0 PROVE Cardinality((1 .. listed) \ told') <= faults
      BY <1>1, <1>2 DEF FewUntold
    <2>1. (1 .. listed) \ told' = ((1 .. listed) \ told) \ {listed}
      BY <1>1 DEF MessagesClosed
    <2>2. /\ Cardinality((1 .. listed) \ told') = Cardinality((1 .. listed) \ told) - 1
          /\ Cardinality((1 .. listed) \ told) \in Nat
      <3>1. listed \in (1 .. listed) \ told
        BY <1>3
      <3>2. IsFiniteSet((1 .. listed) \ told) /\ Cardinality((1 .. listed) \ told) \in Nat
        BY <1>3, UntoldFinite
      <3>3. Cardinality(((1 .. listed) \ told) \ {listed}) = Cardinality((1 .. listed) \ told) - 1
        BY <3>1, <3>2, FS_RemoveElement
      <3> QED  BY <2>1, <3>2, <3>3
    <2>3. Cardinality((1 .. listed) \ told) <= faults + 1
      BY <1>1 DEF FewUntold
    <2> QED  BY <1>3, <2>2, <2>3
  <1> QED  BY <1>4, <1>5

\* A call that fails costs the block the job is at, and a fault.
LEMMA JobFailsKeeps ==
  ASSUME PInv, EnrolmentTypeOK', JobFails
  PROVE  PInv'
  <1> USE PlatformAssumption DEF PInv, Steps
  <1>1. /\ job' = "none" /\ faults' = faults + 1 /\ pc' = pc
        /\ UNCHANGED <<app, steps, hub, subs, requested, upTo, height, listed, verified, told,
                       closing>>
    BY DEF JobFails, FaultElsewhere, Fault, around
  <1>2. PlatformTypeOK' /\ MadeInOrder' /\ JobFits'
    BY <1>1 DEF PlatformTypeOK, MadeInOrder, JobFits
  <1>3. FewUntold'
    <2>1. listed \in Nat /\ faults \in Nat
      BY DEF PlatformTypeOK, EnrolmentTypeOK
    <2>2. Cardinality((1 .. listed) \ told) \in Nat
      BY <2>1, UntoldFinite
    <2> QED  BY <1>1, <2>1, <2>2 DEF FewUntold
  <1> QED  BY <1>2, <1>3

\* Every step keeps the invariant of the platform.
LEMMA PlatformStepPInv == PInv /\ EnrolmentTypeOK' /\ [PlatformNext]_pvars => PInv'
  <1> SUFFICES ASSUME PInv, EnrolmentTypeOK', [PlatformNext]_pvars PROVE PInv'
    OBVIOUS
  <1>1. CASE InitGateway \/ Listen \/ InitStep \/ InitFails \/ StartSync \/ StartHttp
    BY <1>1, MakingKeeps
  <1>2. CASE Exit \/ Crash
    BY <1>2, AgainKeeps
  <1>3. CASE BlockArrives \/ Tick \/ JobBegins \/ JobReads \/ Disconnect
    BY <1>3, TimersKeep
  <1>4. CASE JobStores
    BY <1>4, JobStoresKeeps
  <1>5. CASE JobLists
    BY <1>5, JobListsKeeps
  <1>6. CASE JobFlags
    BY <1>6, JobFlagsKeeps
  <1>7. CASE JobTells
    BY <1>7, JobTellsKeeps
  <1>8. CASE JobFails
    BY <1>8, JobFailsKeeps
  <1>9. CASE UNCHANGED pvars
    BY <1>9
    DEF pvars, sync, vars, PInv, PlatformTypeOK, MadeInOrder, JobFits, FewUntold,
        MessagesClosed
  <1> QED  BY <1>1, <1>2, <1>3, <1>4, <1>5, <1>6, <1>7, <1>8, <1>9 DEF PlatformNext, App, Job

\* It holds with the types of the enrolment, which EnrolmentTypesKept gives.
LEMMA PlatformInvariant == PlatformSpec => []PInv
  BY PlatformEnrols, EnrolmentTypesKept, PlatformInitPInv, PlatformStepPInv, PTL
  DEF PlatformSpec

\* The parts of the process keep their types, and are there in the order they need each
\* other in: listeners before subscriptions, the gateway before both, and a job never
\* lists a block beyond the height it has read.
THEOREM PlatformTypesKept == PlatformSpec => []PlatformTypeOK
  <1>1. PInv => PlatformTypeOK
    BY DEF PInv
  <1> QED  BY <1>1, PlatformInvariant, PTL

\* Until it is taken down, the platform loses at most one block or announcement for each
\* fault: all other blocks up to the listed height are flagged and announced, with any
\* number of blocks, failed calls, crashes, exits and restarts.
THEOREM OneUntoldPerFault == PlatformSpec => []FewUntold
  <1>1. PInv => FewUntold
    BY DEF PInv
  <1> QED  BY <1>1, PlatformInvariant, PTL

=============================================================================
